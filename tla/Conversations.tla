---------------------------- MODULE Conversations ----------------------------
(***************************************************************************)
(* One conversation of the resident agent (server/conversations.ts): the   *)
(* persisted document, the one turn at a time that answers the researcher, *)
(* the proposals a turn makes and their resolution, and the automation     *)
(* turns (server/automations.ts) that land in the same document.           *)
(*                                                                         *)
(* The server is one event loop: what a handler does between two awaits is *)
(* one step, and every step re-reads the document it writes.  A turn, an   *)
(* approval and an automation interleave at their awaits.  The process may *)
(* die at any moment; the document is all that is left of it.              *)
(***************************************************************************)
EXTENDS Naturals, Sequences, FiniteSets

CONSTANTS MaxCards,     \* bound: proposals made
          Launches,     \* those of kind launch_research; the others are run_command
          Approvers,    \* concurrent requests that approve a proposal
          MaxMessages,  \* MAX_MESSAGES
          MaxCandidates, \* candidate questions a reply may carry
          MaxPosts,     \* bound: messages the researcher sends
          MaxFires,     \* bound: automation turns
          MaxCrashes    \* bound: crashes

Cards == 1..MaxCards    \* proposals, numbered as they are made
Kind(c) == IF c \in Launches THEN "launch_research" ELSE "run_command"
ActionKinds == {"launch_research", "run_command"}
Ids == 1..MaxPosts
NoCard == 0
TheTurn == "turn"       \* the turn, executing what was approved in advance
Executors == Approvers \cup {TheTurn}

ASSUME CardsAssumption == MaxCards \in Nat /\ Launches \subseteq Cards
ASSUME ApproversAssumption == TheTurn \notin Approvers
ASSUME BoundsAssumption == /\ MaxMessages \in Nat /\ MaxCandidates \in Nat /\ MaxPosts \in Nat
                           /\ MaxFires \in Nat /\ MaxCrashes \in Nat

VARIABLES doc,        \* the conversation as it is stored
          turn,       \* the turn that holds the gate inFlightTurns
          approval,   \* the approvals being executed
          fire,       \* the automation turn in progress
          proposed,   \* proposals made so far
          posted,     \* messages sent so far
          fires,      \* automation turns so far
          crashes     \* crashes so far

vars == <<doc, turn, approval, fire, proposed, posted, fires, crashes>>

-----------------------------------------------------------------------------
(* The document.  A reply does not name the message it answers: of is what *)
(* its position stands for.  cands are the ids of the candidate questions  *)
(* of all its replies, in the order in which they were assigned.  A run is *)
(* named by the proposal that launched it.  detached is not stored: it is  *)
(* kept to say which runs left the conversation because they were deleted. *)

Message(role, m) == [role |-> role, of |-> m]
Record == Message("automation", 0)

NewDoc == [exists |-> TRUE, messages |-> <<>>, cands |-> <<>>, failed |-> {}, drafts |-> {},
           status |-> [c \in Cards |-> "none"], auto |-> {}, grants |-> {}, runIds |-> {},
           detached |-> {}]
NoDoc == [NewDoc EXCEPT !.exists = FALSE]

InsertAfter(s, i, x) ==
    [j \in 1..(Len(s) + 1) |-> IF j <= i THEN s[j] ELSE IF j = i + 1 THEN x ELSE s[j - 1]]

Full(d) == Len(d.messages) >= MaxMessages
PositionOf(d, m) == {i \in DOMAIN d.messages : d.messages[i] = Message("researcher", m)}
Holds(d, m) == d.exists /\ PositionOf(d, m) # {}

(* The ids the next candidates get, seq being the number of earlier ones.  *)
CandSeq(d) == Len(d.cands)
NextCands(seq) == {[i \in 1..n |-> seq + i] : n \in 0..MaxCandidates}

\* Mutation of AppendAutomationRecord: the message limit is not checked.
AppendAutomationRecordAlways(d) ==
    IF ~d.exists THEN d ELSE [d EXCEPT !.messages = Append(@, Record)]
(* appendAutomationRecord: refused when the conversation is full or gone.  *)
AppendAutomationRecord(d) ==
    IF ~d.exists \/ Full(d) THEN d ELSE [d EXCEPT !.messages = Append(@, Record)]

(* writeReplyDraft and markReplyFailed: nothing when the message is gone.  *)
WriteReplyDraft(d, m, draft) ==
    IF ~Holds(d, m) THEN d
    ELSE [d EXCEPT !.drafts = IF draft THEN @ \cup {m} ELSE @ \ {m}]
\* Mutation of MarkReplyFailed: the failure is only thrown, not recorded.
MarkReplyFailedSkipped(d, m) == d
MarkReplyFailed(d, m) ==
    IF ~Holds(d, m) THEN d ELSE [d EXCEPT !.failed = @ \cup {m}]

(* Proposals enter the document with the message that carries them.        *)
WithCards(d, cards, auto) ==
    [d EXCEPT !.status = [c \in Cards |-> IF c \in cards THEN "pending" ELSE @[c]],
              !.auto = @ \cup auto]

\* Mutation of SpliceReply: what came after the message while the model ran is dropped.
SpliceReplyLast(d, m) ==
    LET at == CHOOSE i \in PositionOf(d, m) : TRUE
    IN [d EXCEPT !.messages = Append(SubSeq(@, 1, at), Message("agent", m))]
(* The reply goes directly behind the message it answers.                  *)
SpliceReply(d, m) ==
    LET at == CHOOSE i \in PositionOf(d, m) : TRUE
    IN [d EXCEPT !.messages = InsertAfter(@, at, Message("agent", m))]

-----------------------------------------------------------------------------
(* The processes in memory.                                                *)

IdleTurn == [pc |-> "idle", m |-> 0, cards |-> {}, grants |-> {}]
Executing(c, remember) == [card |-> c, remember |-> remember]
NotExecuting == Executing(NoCard, FALSE)
IdleFire == [pc |-> "idle", cards |-> {}, seq |-> 0]

\* The cards of a turn are taken in the order in which they were made.
Earliest(cards) == CHOOSE c \in cards : \A e \in cards : c <= e

Init == /\ doc = NewDoc
        /\ turn = IdleTurn
        /\ approval = [a \in Executors |-> NotExecuting]
        /\ fire = IdleFire
        /\ proposed = 0 /\ posted = 0 /\ fires = 0 /\ crashes = 0

-----------------------------------------------------------------------------
(* Resolving a proposal.                                                   *)

Pending(d, c) == d.exists /\ d.status[c] = "pending"

(* A launch attaches its run to the conversation.                          *)
AttachRun(d, c) ==
    IF d.exists /\ c \in Launches THEN [d EXCEPT !.runIds = @ \cup {c}, !.detached = @ \ {c}] ELSE d

(* detachRunFromAllConversations: a deleted run leaves the conversation.   *)
DetachRun(d, c) == [d EXCEPT !.runIds = @ \ {c}, !.detached = @ \cup {c}]

\* Mutation of Resolved: the document read before the execution is written back.
ResolvedStale(d, c, status, remember) ==
    IF ~d.exists THEN d
    ELSE [d EXCEPT !.status[c] = status, !.runIds = @ \ {c},
                   !.grants = IF remember THEN @ \cup {Kind(c)} ELSE @]
(* The document is read again after the execution and gets the outcome.    *)
Resolved(d, c, status, remember) ==
    IF ~d.exists THEN d
    ELSE [d EXCEPT !.status[c] = status,
                   !.grants = IF remember THEN @ \cup {Kind(c)} ELSE @]

(* executeProposal succeeds or reports a failure, and the outcome is       *)
(* written; a conversation that is gone meanwhile gets nothing.            *)
Outcomes(d, r) == {Resolved(AttachRun(d, r.card), r.card, "executed", r.remember),
                   Resolved(d, r.card, "failed", r.remember)}

(* The turn ends, or executes the next card it approved in advance: one    *)
(* that is no longer pending throws, and the turn ends as a failed one.    *)
EndTurn(d) ==
    /\ doc' = d /\ turn' = IdleTurn
    /\ approval' = [approval EXCEPT ![TheTurn] = NotExecuting]
ExecuteNext(d, cards) ==
    \/ cards = {} /\ EndTurn(d)
    \/ /\ cards # {} /\ Pending(d, Earliest(cards))
       /\ doc' = d /\ turn' = [turn EXCEPT !.pc = "auto", !.cards = cards]
       /\ approval' = [approval EXCEPT ![TheTurn] = Executing(Earliest(cards), FALSE)]
    \/ /\ cards # {} /\ ~Pending(d, Earliest(cards))
       /\ EndTurn(MarkReplyFailed(d, turn.m))

-----------------------------------------------------------------------------
(* A turn: postConversationMessage, retryConversationTurn, runAndLandTurn. *)

GateIsFree == turn.pc = "idle"

(* The turn keeps the remembered grants it read.                           *)
RunTurn(d, m) == [IdleTurn EXCEPT !.pc = "generating", !.m = m, !.grants = d.grants]

PostConversationMessage ==
    /\ GateIsFree /\ doc.exists /\ ~Full(doc)
    /\ posted < MaxPosts
    /\ posted' = posted + 1
    /\ doc' = [doc EXCEPT !.messages = Append(@, Message("researcher", posted'))]
    /\ turn' = RunTurn(doc', posted')
    /\ UNCHANGED <<approval, fire, proposed, fires, crashes>>

RetryConversationTurn ==
    /\ GateIsFree /\ doc.exists /\ ~Full(doc)
    /\ doc.messages # <<>>
    /\ LET last == doc.messages[Len(doc.messages)]
       IN last.role = "researcher" /\ turn' = RunTurn(doc, last.of)
    /\ UNCHANGED <<doc, approval, fire, proposed, posted, fires, crashes>>

(* The reply is projected byte by byte, and a new provider attempt starts  *)
(* it over.  A throttled write is this one, later: until it is made the    *)
(* document looks as if the byte had not come, and every end of the turn   *)
(* makes it.                                                               *)
ReplyDelta ==
    /\ turn.pc = "generating"
    /\ doc' = WriteReplyDraft(doc, turn.m, TRUE)
    /\ UNCHANGED <<turn, approval, fire, proposed, posted, fires, crashes>>
ReplyReset ==
    /\ turn.pc = "generating"
    /\ doc' = WriteReplyDraft(doc, turn.m, FALSE)
    /\ UNCHANGED <<turn, approval, fire, proposed, posted, fires, crashes>>

(* propose_action records a card; whether its kind is remembered was read  *)
(* when the turn began.                                                    *)
ProposeAction ==
    /\ turn.pc = "generating" /\ proposed < MaxCards
    /\ proposed' = proposed + 1
    /\ turn' = [turn EXCEPT !.cards = @ \cup {proposed'}]
    /\ UNCHANGED <<doc, approval, fire, posted, fires, crashes>>

AutoApproved(t) == {c \in t.cards : Kind(c) \in t.grants}

(* The turn completed: the document is read again and the reply lands.     *)
(* The draft flushed just before is removed with it.                       *)
LandTurn ==
    /\ turn.pc = "generating" /\ Holds(doc, turn.m)
    /\ \E cands \in NextCands(CandSeq(doc)) :
          LET kept == WithCards(SpliceReply(doc, turn.m), turn.cards, AutoApproved(turn))
          IN ExecuteNext([kept EXCEPT !.failed = @ \ {turn.m}, !.drafts = @ \ {turn.m},
                                      !.cands = @ \o cands],
                         AutoApproved(turn))
    /\ UNCHANGED <<fire, proposed, posted, fires, crashes>>

(* The model failed or the researcher cancelled: the draft stays and the   *)
(* failure is recorded on the message.  A turn whose message is gone ends  *)
(* the same way and writes nothing.                                        *)
TurnFails ==
    /\ turn.pc = "generating"
    /\ doc' = MarkReplyFailed(doc, turn.m)
    /\ turn' = IdleTurn
    /\ UNCHANGED <<approval, fire, proposed, posted, fires, crashes>>

-----------------------------------------------------------------------------
(* Proposals: resolveConversationProposal and executeProposal.  An         *)
(* approval awaits the execution and then writes its outcome in one go.    *)

Approve(a, c, remember) ==
    /\ approval[a] = NotExecuting /\ Pending(doc, c)
    /\ approval' = [approval EXCEPT ![a] = Executing(c, remember)]
    /\ UNCHANGED <<doc, turn, fire, proposed, posted, fires, crashes>>

Finish(a) ==
    /\ approval[a] # NotExecuting
    /\ \E d \in Outcomes(doc, approval[a]) : doc' = AppendAutomationRecord(d)
    /\ approval' = [approval EXCEPT ![a] = NotExecuting]
    /\ UNCHANGED <<turn, fire, proposed, posted, fires, crashes>>

Reject(c) ==
    /\ Pending(doc, c)
    /\ doc' = AppendAutomationRecord(Resolved(doc, c, "rejected", FALSE))
    /\ UNCHANGED <<turn, approval, fire, proposed, posted, fires, crashes>>

(* The turn finishes a card it approved in advance and goes on to the next *)
(* one.  A record that cannot be appended ends it as a failed turn.        *)
AutoFinish ==
    /\ approval[TheTurn] # NotExecuting
    /\ \E d \in Outcomes(doc, approval[TheTurn]) :
          \/ /\ d.exists /\ ~Full(d)
             /\ ExecuteNext(AppendAutomationRecord(d), turn.cards \ {approval[TheTurn].card})
          \/ /\ ~d.exists \/ Full(d)
             /\ EndTurn(MarkReplyFailed(d, turn.m))
    /\ UNCHANGED <<fire, proposed, posted, fires, crashes>>

-----------------------------------------------------------------------------
(* An automation turn: fire of startAutomationEngine.  Its grants are      *)
(* blank.  The notice is appended before the model runs; the count of      *)
(* candidates is taken from the document read before it.                   *)

FireStarts ==
    /\ fire.pc = "idle" /\ fires < MaxFires
    /\ doc.exists /\ ~Full(doc)
    /\ fires' = fires + 1
    /\ doc' = AppendAutomationRecord(doc)
    /\ fire' = [IdleFire EXCEPT !.pc = "generating", !.seq = CandSeq(doc)]
    /\ UNCHANGED <<turn, approval, proposed, posted, crashes>>

FireProposes ==
    /\ fire.pc = "generating" /\ proposed < MaxCards
    /\ proposed' = proposed + 1
    /\ fire' = [fire EXCEPT !.cards = @ \cup {proposed'}]
    /\ UNCHANGED <<doc, turn, approval, posted, fires, crashes>>

FireLands ==
    /\ fire.pc = "generating"
    /\ \E cands \in NextCands(fire.seq) :
          doc' = IF ~doc.exists THEN doc
                 ELSE WithCards([doc EXCEPT !.messages = Append(@, Message("agent", 0)), !.cands = @ \o cands],
                                fire.cards, {})
    /\ fire' = IdleFire
    /\ UNCHANGED <<turn, approval, proposed, posted, fires, crashes>>

(* The turn failed: a record says so, unless the conversation is full or   *)
(* gone, which ends the pass of the engine.                                *)
FireFails ==
    /\ fire.pc = "generating"
    /\ doc' = AppendAutomationRecord(doc)
    /\ fire' = IdleFire
    /\ UNCHANGED <<turn, approval, proposed, posted, fires, crashes>>

-----------------------------------------------------------------------------
(* The researcher's other requests, and crashes.                           *)

ForgetGrants ==
    /\ doc.exists /\ doc.grants # {}
    /\ doc' = [doc EXCEPT !.grants = {}]
    /\ UNCHANGED <<turn, approval, fire, proposed, posted, fires, crashes>>

(* DELETE of a run that is not executing, the last step of its cascade: a  *)
(* conversation that does not name the run is not written.                 *)
DeleteRun(c) ==
    /\ c \in doc.runIds
    /\ doc' = DetachRun(doc, c)
    /\ UNCHANGED <<turn, approval, fire, proposed, posted, fires, crashes>>

DeleteConversation ==
    /\ doc.exists
    /\ doc' = NoDoc
    /\ UNCHANGED <<turn, approval, fire, proposed, posted, fires, crashes>>

(* The process dies and is started again.  It may die between the writes   *)
(* of a resolution: the run attached, the outcome, its record.             *)
Halted == {doc} \cup UNION {{AttachRun(doc, approval[a].card)} \cup Outcomes(doc, approval[a]) :
                             a \in {b \in Executors : approval[b] # NotExecuting}}
Crash ==
    /\ crashes < MaxCrashes
    /\ crashes' = crashes + 1
    /\ doc' \in Halted
    /\ turn' = IdleTurn /\ fire' = IdleFire
    /\ approval' = [a \in Executors |-> NotExecuting]
    /\ UNCHANGED <<proposed, posted, fires>>

TurnStep == \/ ReplyDelta \/ ReplyReset \/ ProposeAction \/ LandTurn \/ TurnFails
            \/ AutoFinish
Resolution == \/ \E c \in Cards : Reject(c)
              \/ \E a \in Approvers, c \in Cards, remember \in BOOLEAN : Approve(a, c, remember)
              \/ \E a \in Approvers : Finish(a)
FireStep == FireStarts \/ FireProposes \/ FireLands \/ FireFails

Next == \/ PostConversationMessage \/ RetryConversationTurn \/ TurnStep
        \/ Resolution \/ FireStep
        \/ ForgetGrants \/ DeleteConversation \/ Crash
        \/ \E c \in Launches : DeleteRun(c)

Spec == Init /\ [][Next]_vars

(* A model call ends within its timeout and a session within its turns, a  *)
(* command within timeoutMs, the creation of a run is a few writes: a turn *)
(* that is in flight goes on.                                              *)
FairSpec == /\ Spec
            /\ WF_vars(LandTurn \/ TurnFails)
            /\ WF_vars(AutoFinish)

-----------------------------------------------------------------------------
(* Properties.                                                             *)

CardStatus == {"none", "pending", "executed", "failed", "rejected"}

\* Type correctness of the document and of the processes in memory; nothing is
\* left of a deleted document; and the transcript, whose limit is checked before
\* a message is written and not when a reply lands, exceeds it by no more than
\* the two turns that may be in flight.
TypeOK ==
    /\ doc \in [exists : BOOLEAN,
                messages : Seq([role : {"researcher", "agent", "automation"},
                                of : 0..MaxPosts]),
                cands : Seq(Nat),
                failed : SUBSET Ids, drafts : SUBSET Ids, status : [Cards -> CardStatus],
                auto : SUBSET Cards, grants : SUBSET ActionKinds, runIds : SUBSET Cards,
                detached : SUBSET Cards]
    /\ turn \in [pc : {"idle", "generating", "auto"}, m : 0..MaxPosts, cards : SUBSET Cards,
                 grants : SUBSET ActionKinds]
    /\ ~doc.exists => doc = NoDoc
    /\ Len(doc.messages) <= MaxMessages + 2
    /\ turn.pc # "idle" => turn.m \in 1..posted
    /\ approval \in [Executors -> [card : Cards \cup {NoCard}, remember : BOOLEAN]]
    /\ fire \in [pc : {"idle", "generating"}, cards : SUBSET Cards, seq : Nat]
    /\ proposed \in 0..MaxCards
    /\ posted \in 0..MaxPosts /\ fires \in 0..MaxFires /\ crashes \in 0..MaxCrashes

Answered(m) == \E i \in DOMAIN doc.messages :
                  doc.messages[i].role = "agent" /\ doc.messages[i].of = m

D == INSTANCE Dialogue WITH transcript <- doc.messages, live <- doc.exists

\* Turns, approvals, automations, drafts and crashes together only ever do to
\* the transcript what the dialogue allows: no message is lost to the write of
\* another process, a message has one reply and it follows the message, and a
\* deleted conversation is not written back.
ImplementsDialogue == D!Spec

\* A launch that the document calls executed has its run among the runs of the
\* conversation, until the researcher deletes that run: writing the outcome does
\* not undo what the execution wrote, and nothing but the deletion takes it away.
RunsAreAttributed ==
    \A c \in Launches : doc.status[c] = "executed" => c \in doc.runIds \cup doc.detached

\* What the researcher said is answered, or the failure stands on the message,
\* unless the conversation is deleted or the process dies first.
MessagesSettle ==
    \A m \in Ids : posted >= m ~> (Answered(m) \/ m \in doc.failed \/ ~doc.exists \/ crashes > 0)

\* Candidate ids are unique in a conversation.
CandidateIdsUnique ==
    \A i, j \in DOMAIN doc.cands : doc.cands[i] = doc.cands[j] => i = j

\* A message that has its reply carries no reply failure.
AnsweredIsNotFailed == \A m \in doc.failed : ~Answered(m)
=============================================================================
