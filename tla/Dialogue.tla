------------------------------ MODULE Dialogue ------------------------------
(***************************************************************************)
(* What a conversation promises its reader (domain/conversation.ts): a     *)
(* transcript that only grows, in which every message of the researcher    *)
(* has at most one reply and the reply stands directly after it, until the *)
(* researcher deletes the whole.                                           *)
(***************************************************************************)
EXTENDS Naturals, Sequences

CONSTANT Ids            \* the messages a researcher may send

VARIABLES transcript,   \* the messages, in order
          live          \* the conversation has not been deleted

Said(m) == [role |-> "researcher", of |-> m]
Reply(m) == [role |-> "agent", of |-> m]
Unprompted == {[role |-> "agent", of |-> 0], [role |-> "automation", of |-> 0]}

IsIn(x, s) == \E i \in DOMAIN s : s[i] = x

\* The sequence s with x put after its first i elements.
InsertAfter(s, i, x) ==
    [j \in 1..(Len(s) + 1) |-> IF j <= i THEN s[j] ELSE IF j = i + 1 THEN x ELSE s[j - 1]]

Init == transcript = <<>> /\ live = TRUE

\* The researcher says something new.
Say(m) == /\ live
          /\ ~IsIn(Said(m), transcript)
          /\ transcript' = Append(transcript, Said(m))
          /\ UNCHANGED live

\* The agent answers a message that has no reply.
Answer(i) == /\ live
             /\ transcript[i].role = "researcher"
             /\ ~IsIn(Reply(transcript[i].of), transcript)
             /\ transcript' = InsertAfter(transcript, i, Reply(transcript[i].of))
             /\ UNCHANGED live

\* A record of an automation or of a resolved proposal, or an unprompted reply.
Note(x) == /\ live
           /\ transcript' = Append(transcript, x)
           /\ UNCHANGED live

Delete == live /\ live' = FALSE /\ transcript' = <<>>

Next == \/ \E m \in Ids : Say(m)
        \/ \E i \in DOMAIN transcript : Answer(i)
        \/ \E x \in Unprompted : Note(x)
        \/ Delete

Spec == Init /\ [][Next]_<<transcript, live>>
=============================================================================
