------------------------ MODULE ConversationsProofs ------------------------
(***************************************************************************)
(* Proofs about a conversation, for any number of proposals, approvers,    *)
(* messages, automation turns and crashes: the types and the length of the *)
(* transcript, that executed launches keep their runs, and that everything *)
(* the processes do to the document is a step of the dialogue a reader is  *)
(* promised.                                                               *)
(*                                                                         *)
(* Every step writes a document it has just read, through a few operators. *)
(* What each operator does to a document, and what appending and inserting *)
(* do to a transcript, is shown once; the steps then follow.               *)
(***************************************************************************)
EXTENDS Conversations, SequenceTheorems, WellFoundedInduction, TLAPS

Roles == {"researcher", "agent", "automation"}
Messages == [role : Roles, of : 0 .. MaxPosts]
Docs == [exists : BOOLEAN, messages : Seq(Messages), cands : Seq(Nat),
         failed : SUBSET Ids, drafts : SUBSET Ids, status : [Cards -> CardStatus],
         auto : SUBSET Cards, grants : SUBSET ActionKinds, runIds : SUBSET Cards,
         detached : SUBSET Cards]
Turns == [pc : {"idle", "generating", "auto"}, m : 0 .. MaxPosts, cards : SUBSET Cards,
          grants : SUBSET ActionKinds]
Approvals == [card : Cards \cup {NoCard}, remember : BOOLEAN]
Fires == [pc : {"idle", "generating"}, cards : SUBSET Cards, seq : Nat]

-----------------------------------------------------------------------------
(* The inductive invariant *)

\* A document of its type, of which nothing is left when it is deleted, and in
\* which every launch that is called executed has its run, or had it until the
\* run was deleted.
GoodDoc(d) ==
    /\ d \in Docs
    /\ ~d.exists => d = NoDoc
    /\ \A c \in Launches : d.status[c] = "executed" => c \in d.runIds \cup d.detached

\* In a transcript with n messages of the researcher each is there once, and a
\* reply to a message stands directly after it.
WellReplied(ms, n) ==
    /\ \A i \in 1 .. Len(ms) : ms[i].role = "researcher" => ms[i].of \in 1 .. n
    /\ \A i, j \in 1 .. Len(ms) : ms[i].role = "researcher" /\ ms[i] = ms[j] => i = j
    /\ \A i \in 1 .. Len(ms) : ms[i].role = "agent" /\ ms[i].of # 0 =>
          i > 1 /\ ms[i - 1] = Message("researcher", ms[i].of)

Unanswered(ms, m) == \A i \in 1 .. Len(ms) : ms[i] # Message("agent", m)

\* The replies that may land whatever the length of the transcript.
One(b) == IF b THEN 1 ELSE 0
RepliesDue == One(turn.pc = "generating") + One(fire.pc = "generating")

Memory ==
    /\ turn \in Turns
    /\ turn.pc # "idle" => turn.m \in 1 .. posted
    /\ approval \in [Executors -> Approvals]
    /\ \A a \in Executors : approval[a] # NotExecuting => approval[a].card \in Cards
    /\ approval[TheTurn] # NotExecuting => turn.pc = "auto"
    /\ fire \in Fires
    /\ proposed \in 0 .. MaxCards
    /\ posted \in 0 .. MaxPosts /\ fires \in 0 .. MaxFires /\ crashes \in 0 .. MaxCrashes

Transcript ==
    /\ WellReplied(doc.messages, posted)
    /\ turn.pc = "generating" => Unanswered(doc.messages, turn.m)
    /\ Len(doc.messages) + RepliesDue <= MaxMessages + 2

Inv == GoodDoc(doc) /\ Memory /\ Transcript

-----------------------------------------------------------------------------
(* Transcripts *)

\* A record or an unprompted reply at the end disturbs nothing.
LEMMA AppendNote ==
    ASSUME NEW ms \in Seq(Messages), NEW n \in Nat, WellReplied(ms, n),
           NEW x \in Messages, x.role # "researcher", x.of = 0
    PROVE  /\ Append(ms, x) \in Seq(Messages) /\ Len(Append(ms, x)) = Len(ms) + 1
           /\ WellReplied(Append(ms, x), n)
           /\ \A m \in Nat \ {0} : Unanswered(ms, m) => Unanswered(Append(ms, x), m)
<1> DEFINE t == Append(ms, x)
<1>1. /\ t \in Seq(Messages) /\ Len(t) = Len(ms) + 1 /\ Len(ms) \in Nat
      /\ \A i \in 1 .. Len(ms) : t[i] = ms[i]
      /\ t[Len(ms) + 1] = x
  OBVIOUS
<1> HIDE DEF t
<1>2. WellReplied(t, n)
  <2>1. \A i \in 1 .. Len(t) : t[i].role = "researcher" => t[i].of \in 1 .. n
    BY <1>1 DEF WellReplied
  <2>2. ASSUME NEW i \in 1 .. Len(t), NEW j \in 1 .. Len(t), t[i].role = "researcher", t[i] = t[j]
        PROVE  i = j
    <3>1. i \in 1 .. Len(ms) /\ j \in 1 .. Len(ms)
      BY <1>1, <2>2
    <3> QED
      BY <1>1, <2>2, <3>1 DEF WellReplied
  <2>3. ASSUME NEW i \in 1 .. Len(t), t[i].role = "agent", t[i].of # 0
        PROVE  i > 1 /\ t[i - 1] = Message("researcher", t[i].of)
    <3>1. i \in 1 .. Len(ms)
      BY <1>1, <2>3
    <3>2. i > 1 /\ ms[i - 1] = Message("researcher", ms[i].of)
      BY <1>1, <2>3, <3>1 DEF WellReplied
    <3>3. i - 1 \in 1 .. Len(ms)
      BY <3>1, <3>2, <1>1
    <3> QED
      BY <1>1, <3>1, <3>2, <3>3
  <2> QED
    BY <2>1, <2>2, <2>3 DEF WellReplied
<1>3. ASSUME NEW m \in Nat \ {0}, Unanswered(ms, m) PROVE Unanswered(t, m)
  <2>1. x # Message("agent", m)
    BY DEF Message
  <2> QED
    BY <1>1, <1>3, <2>1 DEF Unanswered
<1> QED
  BY <1>1, <1>2, <1>3 DEF t

\* A new message of the researcher has no reply.
LEMMA AppendSaid ==
    ASSUME NEW ms \in Seq(Messages), NEW n \in Nat, WellReplied(ms, n), n + 1 \in 0 .. MaxPosts
    PROVE  LET x == Message("researcher", n + 1)
           IN  /\ Append(ms, x) \in Seq(Messages) /\ Len(Append(ms, x)) = Len(ms) + 1
               /\ WellReplied(Append(ms, x), n + 1)
               /\ Unanswered(Append(ms, x), n + 1)
               /\ \A i \in 1 .. Len(ms) : ms[i] # x
<1> DEFINE x == Message("researcher", n + 1)
           t == Append(ms, x)
<1>0. x \in Messages /\ x.role = "researcher" /\ x.of = n + 1
  BY DEF Message, Messages, Roles
<1> HIDE DEF x
<1>1. /\ t \in Seq(Messages) /\ Len(t) = Len(ms) + 1 /\ Len(ms) \in Nat
      /\ \A i \in 1 .. Len(ms) : t[i] = ms[i]
      /\ t[Len(ms) + 1] = x
  BY <1>0
<1>2. \A i \in 1 .. Len(ms) : ms[i] # x
  BY <1>0 DEF WellReplied
<1> HIDE DEF t
<1>3. WellReplied(t, n + 1)
  <2>1. \A i \in 1 .. Len(t) : t[i].role = "researcher" => t[i].of \in 1 .. n + 1
    BY <1>0, <1>1 DEF WellReplied
  <2>2. ASSUME NEW i \in 1 .. Len(t), NEW j \in 1 .. Len(t), t[i].role = "researcher", t[i] = t[j]
        PROVE  i = j
    <3>1. CASE i \in 1 .. Len(ms) /\ j \in 1 .. Len(ms)
      BY <1>1, <2>2, <3>1 DEF WellReplied
    <3>2. CASE i = Len(ms) + 1 \/ j = Len(ms) + 1
      BY <1>1, <1>2, <2>2, <3>2
    <3> QED
      BY <1>1, <3>1, <3>2
  <2>3. ASSUME NEW i \in 1 .. Len(t), t[i].role = "agent", t[i].of # 0
        PROVE  i > 1 /\ t[i - 1] = Message("researcher", t[i].of)
    <3>1. i \in 1 .. Len(ms)
      BY <1>0, <1>1, <2>3
    <3>2. i > 1 /\ ms[i - 1] = Message("researcher", ms[i].of)
      BY <1>1, <2>3, <3>1 DEF WellReplied
    <3>3. i - 1 \in 1 .. Len(ms)
      BY <3>1, <3>2, <1>1
    <3> QED
      BY <1>1, <3>1, <3>2, <3>3
  <2> QED
    BY <2>1, <2>2, <2>3 DEF WellReplied
<1>4. Unanswered(t, n + 1)
  <2> SUFFICES ASSUME NEW i \in 1 .. Len(t), t[i] = Message("agent", n + 1) PROVE FALSE
    BY DEF Unanswered
  <2>1. t[i].role = "agent" /\ t[i].of = n + 1
    BY DEF Message
  <2>2. i > 1 /\ t[i - 1] = Message("researcher", n + 1)
    BY <1>3, <2>1 DEF WellReplied
  <2>3. i \in 1 .. Len(ms) /\ i - 1 \in 1 .. Len(ms)
    BY <1>0, <1>1, <2>1, <2>2
  <2> QED
    BY <1>1, <1>2, <2>2, <2>3 DEF x
<1> QED
  BY <1>1, <1>2, <1>3, <1>4 DEF x, t

\* A reply put directly after an unanswered message is its only reply, and
\* every other reply still stands after its message.
LEMMA InsertReply ==
    ASSUME NEW ms \in Seq(Messages), NEW n \in Nat, WellReplied(ms, n),
           NEW m \in 1 .. MaxPosts, Unanswered(ms, m),
           NEW at \in 1 .. Len(ms), ms[at] = Message("researcher", m)
    PROVE  LET t == InsertAfter(ms, at, Message("agent", m))
           IN  t \in Seq(Messages) /\ Len(t) = Len(ms) + 1 /\ WellReplied(t, n)
<1> DEFINE x == Message("agent", m)
           t == InsertAfter(ms, at, x)
           old(j) == IF j <= at THEN j ELSE j - 1
<1>0. /\ x \in Messages /\ x.role = "agent" /\ x.of = m /\ m # 0
      /\ ms[at].role = "researcher" /\ ms[at].of = m
  BY BoundsAssumption DEF Message, Messages, Roles
<1>1. Len(ms) \in Nat /\ at \in Nat /\ \A i \in 1 .. Len(ms) : ms[i] \in Messages
  BY LenProperties, ElementOfSeq
<1> HIDE DEF x
<1>2. /\ t \in [1 .. Len(ms) + 1 -> Messages] /\ t[at + 1] = x
      /\ \A j \in 1 .. Len(ms) + 1 : j # at + 1 => old(j) \in 1 .. Len(ms) /\ t[j] = ms[old(j)]
  <2>1. t = [j \in 1 .. (Len(ms) + 1) |-> IF j <= at THEN ms[j] ELSE IF j = at + 1 THEN x ELSE ms[j - 1]]
    BY DEF InsertAfter
  <2>2. ASSUME NEW j \in 1 .. Len(ms) + 1
        PROVE  /\ j # at + 1 => old(j) \in 1 .. Len(ms)
               /\ (IF j <= at THEN ms[j] ELSE IF j = at + 1 THEN x ELSE ms[j - 1])
                     = IF j = at + 1 THEN x ELSE ms[old(j)]
    BY <1>1
  <2>3. at + 1 \in 1 .. Len(ms) + 1
    BY <1>1
  <2> HIDE DEF t, old
  <2>4. \A j \in 1 .. Len(ms) + 1 : t[j] = IF j = at + 1 THEN x ELSE ms[old(j)]
    BY <2>1, <2>2
  <2>5. t \in [1 .. Len(ms) + 1 -> Messages]
    BY <1>0, <1>1, <2>1, <2>2
  <2> QED
    BY <2>2, <2>3, <2>4, <2>5
<1>3. t \in Seq(Messages) /\ Len(t) = Len(ms) + 1
  <2> HIDE DEF t
  <2> QED
    BY <1>1, <1>2, SeqDef
<1> HIDE DEF t
<1>4. ASSUME NEW i \in 1 .. Len(t), t[i].role = "researcher"
      PROVE  i # at + 1 /\ old(i) \in 1 .. Len(ms) /\ t[i] = ms[old(i)]
  BY <1>0, <1>2, <1>3, <1>4
<1>5. \A i \in 1 .. Len(t) : t[i].role = "researcher" => t[i].of \in 1 .. n
  <2> HIDE DEF old
  <2> QED
    BY <1>4 DEF WellReplied
<1>6. ASSUME NEW i \in 1 .. Len(t), NEW j \in 1 .. Len(t), t[i].role = "researcher", t[i] = t[j]
      PROVE  i = j
  <2>1. /\ i # at + 1 /\ old(i) \in 1 .. Len(ms) /\ t[i] = ms[old(i)]
        /\ j # at + 1 /\ old(j) \in 1 .. Len(ms) /\ t[j] = ms[old(j)]
    BY <1>4, <1>6
  <2>2. old(i) = old(j)
    <3> HIDE DEF old
    <3> QED
      BY <1>6, <2>1 DEF WellReplied
  <2> QED
    BY <1>1, <1>3, <2>1, <2>2
<1>7. ASSUME NEW i \in 1 .. Len(t), t[i].role = "agent", t[i].of # 0
      PROVE  i > 1 /\ t[i - 1] = Message("researcher", t[i].of)
  <2>1. CASE i = at + 1
    <3>1. i - 1 = at /\ at \in 1 .. Len(ms) + 1 /\ at # at + 1 /\ old(at) = at /\ i > 1
      BY <1>1, <2>1
    <3>2. t[i - 1] = ms[at]
      BY <1>2, <3>1
    <3> QED
      BY <1>0, <1>2, <2>1, <3>1, <3>2
  <2>2. CASE i # at + 1
    <3> DEFINE k == old(i)
    <3>1. k \in 1 .. Len(ms) /\ t[i] = ms[k]
      BY <1>2, <1>3, <2>2
    <3>2. k > 1 /\ ms[k - 1] = Message("researcher", t[i].of)
      <4> HIDE DEF k
      <4> QED
        BY <1>7, <3>1 DEF WellReplied
    <3>3. k - 1 # at
      <4> SUFFICES ASSUME k - 1 = at PROVE FALSE
        OBVIOUS
      <4>1. t[i].of = m
        BY <1>0, <3>2 DEF Message
      <4>2. t[i] \in Messages /\ t[i] = [role |-> "agent", of |-> m]
        BY <1>2, <1>3, <1>7, <4>1 DEF Messages
      <4> QED
        BY <3>1, <4>2 DEF Unanswered, Message
    <3>4. /\ i - 1 \in 1 .. Len(ms) + 1 /\ i - 1 # at + 1 /\ old(i - 1) = k - 1 /\ i > 1
      BY <1>1, <1>3, <2>2, <3>1, <3>2, <3>3, SMTT(20)
    <3>5. t[i - 1] = ms[k - 1]
      BY <1>2, <3>4
    <3> QED
      BY <3>2, <3>4, <3>5
  <2> QED
    BY <2>1, <2>2
<1>8. WellReplied(t, n)
  BY <1>5, <1>6, <1>7 DEF WellReplied
<1> QED
  BY <1>3, <1>8 DEF t, x

\* The researcher's message at the end of the transcript has no reply.
LEMMA LastIsUnanswered ==
    ASSUME NEW ms \in Seq(Messages), NEW n \in Nat, WellReplied(ms, n), ms # <<>>,
           ms[Len(ms)].role = "researcher"
    PROVE  /\ ms[Len(ms)].of \in 1 .. n
           /\ Unanswered(ms, ms[Len(ms)].of)
<1> DEFINE m == ms[Len(ms)].of
<1>1. Len(ms) \in 1 .. Len(ms) /\ Len(ms) \in Nat
  OBVIOUS
<1>2. m \in 1 .. n
  BY <1>1 DEF WellReplied
<1>3. ms[Len(ms)] = Message("researcher", m)
  <2>1. ms[Len(ms)] \in Messages
    BY <1>1, ElementOfSeq
  <2> QED
    BY <2>1 DEF Messages, Message
<1>4. ASSUME NEW i \in 1 .. Len(ms), ms[i] = Message("agent", m) PROVE FALSE
  <2>1. ms[i].role = "agent" /\ ms[i].of = m
    BY <1>4 DEF Message
  <2>2. i > 1 /\ ms[i - 1] = Message("researcher", m)
    BY <1>2, <2>1 DEF WellReplied
  <2>3. i - 1 \in 1 .. Len(ms) /\ ms[i - 1].role = "researcher"
    BY <1>1, <2>2 DEF Message
  <2>4. i - 1 = Len(ms)
    BY <1>1, <1>3, <2>2, <2>3 DEF WellReplied
  <2> QED
    BY <1>1, <2>4
<1> QED
  BY <1>2, <1>4 DEF Unanswered

-----------------------------------------------------------------------------
(* Documents *)

\* The two documents agree on what a reader sees.
SameTranscript(d, e) == e.messages = d.messages /\ e.exists = d.exists

\* An empty document, and what is left of a deleted one.
LEMMA EmptyDocs ==
    /\ GoodDoc(NewDoc) /\ NewDoc.exists /\ NewDoc.messages = <<>>
    /\ GoodDoc(NoDoc) /\ ~NoDoc.exists /\ NoDoc.messages = <<>>
<1>1. NewDoc \in Docs /\ NewDoc.exists /\ NewDoc.messages = <<>> /\ NewDoc.status = [c \in Cards |-> "none"]
  BY DEF NewDoc, Docs, CardStatus
<1>2. NoDoc = [NewDoc EXCEPT !.exists = FALSE]
  BY DEF NoDoc
<1>3. NoDoc \in Docs /\ ~NoDoc.exists /\ NoDoc.messages = <<>> /\ NoDoc.status = [c \in Cards |-> "none"]
  BY <1>1, <1>2 DEF Docs
<1> QED
  BY <1>1, <1>3, CardsAssumption DEF GoodDoc

\* Attaching a run.
LEMMA AttachRunGood ==
    ASSUME NEW d, GoodDoc(d), NEW c \in Cards
    PROVE  /\ GoodDoc(AttachRun(d, c)) /\ SameTranscript(d, AttachRun(d, c))
           /\ d.exists /\ c \in Launches => c \in AttachRun(d, c).runIds
<1>1. CASE ~(d.exists /\ c \in Launches)
  BY <1>1 DEF AttachRun, SameTranscript
<1>2. CASE d.exists /\ c \in Launches
  <2> DEFINE e == [d EXCEPT !.runIds = d.runIds \cup {c}, !.detached = d.detached \ {c}]
  <2>1. d \in Docs
    BY DEF GoodDoc
  <2>2. e \in Docs /\ e.exists = d.exists /\ e.messages = d.messages /\ e.status = d.status
        /\ e.runIds = d.runIds \cup {c} /\ e.detached = d.detached \ {c}
    BY <2>1 DEF Docs
  <2>3. AttachRun(d, c) = e
    BY <1>2 DEF AttachRun
  <2> HIDE DEF e
  <2> QED
    BY <1>2, <2>2, <2>3 DEF GoodDoc, SameTranscript
<1> QED
  BY <1>1, <1>2

\* Writing an outcome.
LEMMA ResolvedGood ==
    ASSUME NEW d, GoodDoc(d), NEW c \in Cards, NEW st \in CardStatus, NEW remember \in BOOLEAN,
           d.exists /\ c \in Launches /\ st = "executed" => c \in d.runIds
    PROVE  GoodDoc(Resolved(d, c, st, remember)) /\ SameTranscript(d, Resolved(d, c, st, remember))
<1>1. CASE ~d.exists
  BY <1>1 DEF Resolved, SameTranscript
<1>2. CASE d.exists
  <2> DEFINE g == IF remember THEN d.grants \cup {Kind(c)} ELSE d.grants
             s == [d.status EXCEPT ![c] = st]
             e == [d EXCEPT !.status = s, !.grants = g]
  <2>1. d \in Docs
    BY DEF GoodDoc
  <2>2. g \in SUBSET ActionKinds /\ s \in [Cards -> CardStatus]
    BY <2>1 DEF Docs, Kind, ActionKinds
  <2>3. Resolved(d, c, st, remember) = e
    BY <1>2 DEF Resolved
  <2>4. s[c] = st /\ \A k \in Cards \ {c} : s[k] = d.status[k]
    BY <2>1 DEF Docs
  <2> HIDE DEF g, s
  <2>5. e \in Docs /\ e.exists = d.exists /\ e.messages = d.messages /\ e.status = s
        /\ e.runIds = d.runIds /\ e.detached = d.detached
    BY <2>1, <2>2 DEF Docs
  <2> HIDE DEF e
  <2>6. ASSUME NEW k \in Launches, e.status[k] = "executed" PROVE k \in e.runIds \cup e.detached
    BY <1>2, <2>4, <2>5, <2>6, CardsAssumption DEF GoodDoc
  <2> QED
    BY <1>2, <2>3, <2>5, <2>6 DEF GoodDoc, SameTranscript
<1> QED
  BY <1>1, <1>2

\* An execution's outcomes change nothing a reader sees, and a launch that
\* succeeds has its run.
LEMMA OutcomesGood ==
    ASSUME NEW d, GoodDoc(d), NEW r \in Approvals, r.card \in Cards, NEW e \in Outcomes(d, r)
    PROVE  GoodDoc(e) /\ SameTranscript(d, e)
<1>1. r.remember \in BOOLEAN /\ "executed" \in CardStatus /\ "failed" \in CardStatus
  BY DEF Approvals, CardStatus
<1> DEFINE f == AttachRun(d, r.card)
<1>2. GoodDoc(f) /\ SameTranscript(d, f) /\ (d.exists /\ r.card \in Launches => r.card \in f.runIds)
  BY AttachRunGood
<1> HIDE DEF f
<1>3. CASE e = Resolved(f, r.card, "executed", r.remember)
  <2>1. f.exists = d.exists
    BY <1>2 DEF SameTranscript
  <2>2. GoodDoc(e) /\ SameTranscript(f, e)
    BY <1>1, <1>2, <1>3, <2>1, ResolvedGood
  <2> QED
    BY <1>2, <2>2 DEF SameTranscript
<1>4. CASE e = Resolved(d, r.card, "failed", r.remember)
  BY <1>1, <1>4, ResolvedGood
<1> QED
  BY <1>3, <1>4 DEF Outcomes, f

\* A failure on a message, and a draft of its reply.
LEMMA NotesOnMessageGood ==
    ASSUME NEW d, GoodDoc(d), NEW m \in Ids, NEW b \in BOOLEAN
    PROVE  /\ GoodDoc(MarkReplyFailed(d, m)) /\ SameTranscript(d, MarkReplyFailed(d, m))
           /\ GoodDoc(WriteReplyDraft(d, m, b)) /\ SameTranscript(d, WriteReplyDraft(d, m, b))
<1>1. d \in Docs
  BY DEF GoodDoc
<1>2. GoodDoc(MarkReplyFailed(d, m)) /\ SameTranscript(d, MarkReplyFailed(d, m))
  <2>1. CASE ~Holds(d, m)
    BY <2>1 DEF MarkReplyFailed, SameTranscript
  <2>2. CASE Holds(d, m)
    <3> DEFINE e == [d EXCEPT !.failed = d.failed \cup {m}]
    <3>1. e \in Docs /\ e.exists = d.exists /\ e.messages = d.messages /\ e.status = d.status
          /\ e.runIds = d.runIds /\ e.detached = d.detached
      BY <1>1 DEF Docs
    <3>2. MarkReplyFailed(d, m) = e /\ d.exists
      BY <2>2 DEF MarkReplyFailed, Holds
    <3> HIDE DEF e
    <3> QED
      BY <3>1, <3>2 DEF GoodDoc, SameTranscript
  <2> QED
    BY <2>1, <2>2
<1>3. GoodDoc(WriteReplyDraft(d, m, b)) /\ SameTranscript(d, WriteReplyDraft(d, m, b))
  <2>1. CASE ~Holds(d, m)
    BY <2>1 DEF WriteReplyDraft, SameTranscript
  <2>2. CASE Holds(d, m)
    <3> DEFINE f == IF b THEN d.drafts \cup {m} ELSE d.drafts \ {m}
               e == [d EXCEPT !.drafts = f]
    <3>1. f \in SUBSET Ids
      BY <1>1 DEF Docs
    <3>2. WriteReplyDraft(d, m, b) = e /\ d.exists
      BY <2>2 DEF WriteReplyDraft, Holds
    <3> HIDE DEF f
    <3>3. e \in Docs /\ e.exists = d.exists /\ e.messages = d.messages /\ e.status = d.status
          /\ e.runIds = d.runIds /\ e.detached = d.detached
      BY <1>1, <3>1 DEF Docs
    <3> HIDE DEF e
    <3> QED
      BY <3>2, <3>3 DEF GoodDoc, SameTranscript
  <2> QED
    BY <2>1, <2>2
<1> QED
  BY <1>2, <1>3

\* A record is appended to a conversation that is there and has room for it.
LEMMA RecordGood ==
    ASSUME NEW d, GoodDoc(d)
    PROVE  LET e == AppendAutomationRecord(d)
           IN  /\ GoodDoc(e)
               /\ \/ SameTranscript(d, e)
                  \/ /\ d.exists /\ e.exists /\ Len(d.messages) < MaxMessages
                     /\ e.messages = Append(d.messages, Record)
<1>0. d \in Docs /\ Record \in Messages /\ d.messages \in Seq(Messages) /\ Len(d.messages) \in Nat
  BY BoundsAssumption DEF GoodDoc, Docs, Record, Message, Messages, Roles
<1>1. CASE ~d.exists \/ Full(d)
  BY <1>1 DEF AppendAutomationRecord, SameTranscript
<1>2. CASE d.exists /\ ~Full(d)
  <2> DEFINE ms == Append(d.messages, Record)
             e == [d EXCEPT !.messages = ms]
  <2>1. ms \in Seq(Messages)
    BY <1>0
  <2>2. AppendAutomationRecord(d) = e /\ Len(d.messages) < MaxMessages
    BY <1>0, <1>2, BoundsAssumption DEF AppendAutomationRecord, Full
  <2> HIDE DEF ms
  <2>3. e \in Docs /\ e.exists = d.exists /\ e.messages = ms /\ e.status = d.status
        /\ e.runIds = d.runIds /\ e.detached = d.detached
    BY <1>0, <2>1 DEF Docs
  <2> HIDE DEF e
  <2> QED
    BY <1>2, <2>2, <2>3 DEF GoodDoc, ms
<1> QED
  BY <1>1, <1>2 DEF GoodDoc

\* The candidates of a reply are numbers.
LEMMA NextCandsType ==
    ASSUME NEW k \in Nat, NEW cands \in NextCands(k)
    PROVE  cands \in Seq(Nat)
<1>1. PICK n \in 0 .. MaxCandidates : cands = [i \in 1 .. n |-> k + i]
  BY DEF NextCands
<1>2. n \in Nat /\ cands \in [1 .. n -> Nat]
  BY <1>1, BoundsAssumption
<1> QED
  BY <1>2, SeqDef

\* The document with a reply, its proposals and its candidates.
Landed(d, ms, cs, failed, drafts, cards, auto) ==
    [WithCards([d EXCEPT !.messages = ms], cards, auto)
        EXCEPT !.failed = failed, !.drafts = drafts, !.cands = cs]

\* A reply lands with its proposals and its candidates.
LEMMA LandedGood ==
    ASSUME NEW d, GoodDoc(d), d.exists, NEW ms \in Seq(Messages), NEW cs \in Seq(Nat),
           NEW failed \in SUBSET Ids, NEW drafts \in SUBSET Ids,
           NEW cards \in SUBSET Cards, NEW auto \in SUBSET Cards
    PROVE  LET e == Landed(d, ms, cs, failed, drafts, cards, auto)
           IN  GoodDoc(e) /\ e.exists /\ e.messages = ms
<1> DEFINE e == Landed(d, ms, cs, failed, drafts, cards, auto)
           s == [c \in Cards |-> IF c \in cards THEN "pending" ELSE d.status[c]]
           f == [exists |-> d.exists, messages |-> ms, cands |-> cs, failed |-> failed, drafts |-> drafts,
                 status |-> s, auto |-> d.auto \cup auto, grants |-> d.grants, runIds |-> d.runIds,
                 detached |-> d.detached]
<1>1. d \in Docs /\ s \in [Cards -> CardStatus]
  BY DEF GoodDoc, Docs, CardStatus
<1>2. e = f
  <2> DEFINE g == [d EXCEPT !.messages = ms]
             h == [g EXCEPT !.status = s, !.auto = g.auto \cup auto]
  <2>1. e = [WithCards(g, cards, auto) EXCEPT !.failed = failed, !.drafts = drafts, !.cands = cs]
    BY DEF Landed
  <2>2. WithCards(g, cards, auto) = [g EXCEPT !.status = [c \in Cards |-> IF c \in cards THEN "pending" ELSE g.status[c]],
                                             !.auto = g.auto \cup auto]
    BY DEF WithCards
  <2>3. g.status = d.status /\ g.auto = d.auto
    BY <1>1 DEF Docs
  <2>4. WithCards(g, cards, auto) = h
    BY <2>2, <2>3
  <2> HIDE DEF e, s
  <2> QED
    BY <1>1, <2>1, <2>3, <2>4 DEF Docs
<1>3. \A c \in Cards : s[c] = "executed" => d.status[c] = "executed"
  OBVIOUS
<1> HIDE DEF s
<1>4. f \in Docs /\ f.exists = d.exists /\ f.messages = ms /\ f.status = s /\ f.runIds = d.runIds /\ f.detached = d.detached
  BY <1>1 DEF Docs
<1> HIDE DEF f, e
<1>5. GoodDoc(e) /\ e.exists /\ e.messages = ms
  BY <1>2, <1>3, <1>4, CardsAssumption DEF GoodDoc
<1> QED
  BY <1>5 DEF e

-----------------------------------------------------------------------------
(* The processes *)

\* A set of proposals that is not empty has an earliest one.
LEMMA EarliestIsOne ==
    ASSUME NEW cards \in SUBSET Cards, cards # {}
    PROVE  Earliest(cards) \in cards
<1>1. cards \subseteq Nat
  BY CardsAssumption DEF Cards
<1> DEFINE R == OpToRel(<, Nat)
<1>2. \E c \in cards : \A e \in cards : ~(<<e, c>> \in R)
  <2>1. IsWellFoundedOn(R, Nat)
    BY NatLessThanWellFounded
  <2> HIDE DEF R
  <2> QED
    BY <1>1, <2>1, WFMin
<1>3. \A c, e \in Nat : <<e, c>> \in R <=> e < c
  BY DEF OpToRel
<1>4. \E c \in cards : \A e \in cards : c <= e
  <2> HIDE DEF R
  <2>1. PICK c \in cards : \A e \in cards : ~(<<e, c>> \in R)
    BY <1>2
  <2>2. ASSUME NEW e \in cards PROVE c <= e
    <3>1. c \in Nat /\ e \in Nat /\ ~(e < c)
      BY <1>1, <1>3, <2>1
    <3> QED
      BY <3>1
  <2> QED
    BY <2>2
<1> QED
  BY <1>4 DEF Earliest

\* A step that leaves the transcript, or adds a note to one with room, keeps
\* what is known of the transcript, when no reply more is due.
LEMMA TranscriptNoted ==
    ASSUME Inv, posted' = posted, GoodDoc(doc'),
           turn'.pc = "generating" => turn.pc = "generating" /\ turn'.m = turn.m,
           fire'.pc = "generating" => fire.pc = "generating",
           \/ SameTranscript(doc, doc')
           \/ Len(doc.messages) < MaxMessages /\ doc'.messages = Append(doc.messages, Record)
    PROVE  Transcript'
<1>1. /\ doc.messages \in Seq(Messages) /\ posted \in Nat /\ Len(doc.messages) \in Nat
      /\ WellReplied(doc.messages, posted)
      /\ turn.pc = "generating" => Unanswered(doc.messages, turn.m) /\ turn.m \in Nat \ {0}
  <2>1. doc.messages \in Seq(Messages)
    BY DEF Inv, GoodDoc, Docs
  <2> QED
    BY <2>1 DEF Inv, Transcript, Memory
<1>2. RepliesDue' <= RepliesDue /\ RepliesDue' \in 0 .. 2 /\ RepliesDue \in 0 .. 2
  BY DEF RepliesDue, One
<1>3. CASE SameTranscript(doc, doc')
  <2>1. doc'.messages = doc.messages
    BY <1>3 DEF SameTranscript
  <2>2. Len(doc.messages) + RepliesDue <= MaxMessages + 2
    BY DEF Inv, Transcript
  <2>3. Len(doc.messages) + RepliesDue' <= MaxMessages + 2
    BY <1>1, <1>2, <2>2, BoundsAssumption
  <2> QED
    BY <1>1, <2>1, <2>3 DEF Transcript
<1>4. CASE Len(doc.messages) < MaxMessages /\ doc'.messages = Append(doc.messages, Record)
  <2>1. Record \in Messages /\ Record.role # "researcher" /\ Record.of = 0
    BY BoundsAssumption DEF Record, Message, Messages, Roles
  <2>2. /\ Len(doc'.messages) = Len(doc.messages) + 1
        /\ WellReplied(doc'.messages, posted)
        /\ \A m \in Nat \ {0} : Unanswered(doc.messages, m) => Unanswered(doc'.messages, m)
    BY <1>1, <1>4, <2>1, AppendNote
  <2>3. Len(doc'.messages) + RepliesDue' <= MaxMessages + 2
    BY <1>1, <1>2, <1>4, <2>2, BoundsAssumption
  <2> QED
    BY <1>1, <2>2, <2>3 DEF Transcript
<1> QED
  BY <1>3, <1>4

\* Going on to the next card, or ending the turn, changes the document at most
\* by a failure on the turn's message.
LEMMA ExecuteNextGood ==
    ASSUME Inv, turn.pc # "idle", NEW d, GoodDoc(d), NEW cards \in SUBSET Cards,
           ExecuteNext(d, cards) \/ EndTurn(d) \/ EndTurn(MarkReplyFailed(d, turn.m)),
           UNCHANGED <<fire, proposed, posted, fires, crashes>>
    PROVE  /\ GoodDoc(doc') /\ SameTranscript(d, doc')
           /\ Memory'
           /\ turn'.pc # "generating"
<1>1. turn \in Turns /\ turn.m \in Ids /\ turn.m \in 1 .. posted /\ approval \in [Executors -> Approvals]
      /\ TheTurn \in Executors
  BY BoundsAssumption DEF Inv, Memory, Ids, Executors
<1>2. GoodDoc(MarkReplyFailed(d, turn.m)) /\ SameTranscript(d, MarkReplyFailed(d, turn.m))
  BY <1>1, NotesOnMessageGood
<1>3. SameTranscript(d, d)
  BY DEF SameTranscript
<1>4. NotExecuting \in Approvals /\ IdleTurn \in Turns /\ IdleTurn.pc = "idle"
  BY BoundsAssumption DEF NotExecuting, Executing, Approvals, IdleTurn, Turns
<1>5. CASE EndTurn(d) \/ EndTurn(MarkReplyFailed(d, turn.m))
  <2>1. GoodDoc(doc') /\ SameTranscript(d, doc') /\ turn' = IdleTurn
        /\ approval' = [approval EXCEPT ![TheTurn] = NotExecuting]
    BY <1>2, <1>3, <1>5 DEF EndTurn
  <2>2. /\ approval' \in [Executors -> Approvals] /\ approval'[TheTurn] = NotExecuting
        /\ \A a \in Executors : approval'[a] = NotExecuting \/ approval'[a] = approval[a]
    BY <1>1, <1>4, <2>1
  <2> QED
    BY <1>4, <2>1, <2>2 DEF Memory, Inv
<1>6. CASE cards # {} /\ ~EndTurn(d) /\ ~EndTurn(MarkReplyFailed(d, turn.m))
  <2> DEFINE x == Executing(Earliest(cards), FALSE)
  <2>1. /\ doc' = d /\ turn' = [turn EXCEPT !.pc = "auto", !.cards = cards]
        /\ approval' = [approval EXCEPT ![TheTurn] = x]
    BY <1>6 DEF ExecuteNext
  <2>2. Earliest(cards) \in Cards
    BY <1>6, EarliestIsOne
  <2>3. x \in Approvals /\ x.card \in Cards
    BY <2>2 DEF Executing, Approvals
  <2> HIDE DEF x
  <2>4. /\ approval' \in [Executors -> Approvals]
        /\ \A a \in Executors : approval'[a] = x \/ approval'[a] = approval[a]
    BY <1>1, <2>1, <2>3
  <2>5. turn' \in Turns /\ turn'.pc = "auto" /\ turn'.m = turn.m
    BY <1>1, <2>1 DEF Turns
  <2> QED
    BY <1>1, <1>3, <2>1, <2>3, <2>4, <2>5 DEF Memory, Inv
<1>7. cards = {} => EndTurn(d) \/ EndTurn(MarkReplyFailed(d, turn.m))
  BY DEF ExecuteNext
<1> QED
  BY <1>5, <1>6, <1>7

-----------------------------------------------------------------------------
(* The steps: each keeps the invariant and is a step of the dialogue *)

\* The transcript of doc and doc' is related as the dialogue allows.
Told == D!Next \/ SameTranscript(doc, doc')

\* A note is a step of the dialogue.
LEMMA NoteIsTold ==
    ASSUME doc.exists, doc'.exists, NEW x \in {Record, Message("agent", 0)},
           doc'.messages = Append(doc.messages, x)
    PROVE  D!Next
<1>1. x \in D!Unprompted
  BY DEF D!Unprompted, Record, Message
<1> QED
  BY <1>1 DEF D!Next, D!Note

\* What a step that notes an outcome does: the invariant, and the dialogue.
LEMMA RecordStep ==
    ASSUME Inv, NEW d, GoodDoc(d), SameTranscript(doc, d),
           doc' = d \/ doc' = AppendAutomationRecord(d),
           posted' = posted, Memory',
           turn'.pc = "generating" => turn.pc = "generating" /\ turn'.m = turn.m,
           fire'.pc = "generating" => fire.pc = "generating"
    PROVE  Inv' /\ Told
<1>1. /\ GoodDoc(doc')
      /\ \/ SameTranscript(doc, doc')
         \/ /\ doc.exists /\ doc'.exists /\ Len(doc.messages) < MaxMessages
            /\ doc'.messages = Append(doc.messages, Record)
  BY RecordGood DEF SameTranscript
<1>2. Transcript'
  BY <1>1, TranscriptNoted
<1> QED
  BY <1>1, <1>2, NoteIsTold DEF Inv, Told

\* What the invariant says of the types of the pieces.
LEMMA MemoryFacts ==
    ASSUME Inv
    PROVE  /\ turn \in Turns /\ fire \in Fires /\ approval \in [Executors -> Approvals]
           /\ posted \in 0 .. MaxPosts /\ posted \in Nat /\ turn.m \in 0 .. MaxPosts
           /\ turn.cards \in SUBSET Cards /\ fire.cards \in SUBSET Cards /\ fire.seq \in Nat
           /\ TheTurn \in Executors /\ Approvers \subseteq Executors /\ TheTurn \notin Approvers
           /\ NotExecuting \in Approvals /\ NotExecuting.card = NoCard
           /\ IdleTurn \in Turns /\ IdleTurn.pc = "idle"
           /\ IdleFire \in Fires /\ IdleFire.pc = "idle"
           /\ GoodDoc(doc) /\ doc \in Docs /\ doc.messages \in Seq(Messages) /\ Len(doc.messages) \in Nat
           /\ DOMAIN doc.messages = 1 .. Len(doc.messages)
           /\ doc.cands \in Seq(Nat) /\ SameTranscript(doc, doc)
<1>1. turn \in Turns /\ fire \in Fires /\ approval \in [Executors -> Approvals] /\ posted \in 0 .. MaxPosts
  BY DEF Inv, Memory
<1>2. posted \in Nat /\ turn.m \in 0 .. MaxPosts /\ turn.cards \in SUBSET Cards
      /\ fire.cards \in SUBSET Cards /\ fire.seq \in Nat
  BY <1>1, BoundsAssumption DEF Turns, Fires
<1>3. TheTurn \in Executors /\ Approvers \subseteq Executors /\ TheTurn \notin Approvers
  BY ApproversAssumption DEF Executors
<1>4. NotExecuting \in Approvals /\ NotExecuting.card = NoCard
  BY DEF NotExecuting, Executing, Approvals
<1>5. IdleTurn \in Turns /\ IdleTurn.pc = "idle" /\ IdleFire \in Fires /\ IdleFire.pc = "idle"
  BY BoundsAssumption DEF IdleTurn, Turns, IdleFire, Fires
<1>6. GoodDoc(doc) /\ doc \in Docs
  BY DEF Inv, GoodDoc
<1>7. doc.messages \in Seq(Messages) /\ doc.cands \in Seq(Nat)
  BY <1>6 DEF Docs
<1>8. SameTranscript(doc, doc)
  BY DEF SameTranscript
<1> QED
  BY <1>1, <1>2, <1>3, <1>4, <1>5, <1>6, <1>7, <1>8

\* The researcher's message is new to the transcript.
LEMMA PostStep ==
    ASSUME Inv, PostConversationMessage
    PROVE  Inv' /\ Told
<1> USE MemoryFacts
<1> DEFINE m == posted + 1
           x == Message("researcher", m)
           ms == Append(doc.messages, x)
<1>1. /\ m \in 1 .. MaxPosts /\ m \in 0 .. MaxPosts /\ posted' = m /\ doc.exists
      /\ Len(doc.messages) < MaxMessages
      /\ doc' = [doc EXCEPT !.messages = ms]
      /\ turn' = RunTurn(doc', m) /\ turn.pc = "idle"
      /\ UNCHANGED <<approval, fire, proposed, fires, crashes>>
  BY BoundsAssumption, SMTT(20) DEF PostConversationMessage, Full, GateIsFree
<1>2. /\ ms \in Seq(Messages) /\ Len(ms) = Len(doc.messages) + 1
      /\ WellReplied(ms, m) /\ Unanswered(ms, m)
      /\ \A i \in 1 .. Len(doc.messages) : doc.messages[i] # x
  <2>1. WellReplied(doc.messages, posted)
    BY DEF Inv, Transcript
  <2> QED
    BY <1>1, <2>1, AppendSaid
<1> HIDE DEF ms
<1>3. /\ doc' \in Docs /\ doc'.exists /\ doc'.messages = ms /\ doc'.status = doc.status
      /\ doc'.runIds = doc.runIds /\ doc'.grants = doc.grants /\ doc.grants \in SUBSET ActionKinds
  BY <1>1, <1>2 DEF Docs
<1>4. turn' \in Turns /\ turn'.pc = "generating" /\ turn'.m = m
  BY <1>1, <1>3 DEF RunTurn, IdleTurn, Turns
<1>5. GoodDoc(doc')
  BY <1>1, <1>3 DEF GoodDoc
<1>6. Memory'
  BY <1>1, <1>4 DEF Inv, Memory
<1>7. Transcript'
  <2>1. RepliesDue' \in 0 .. 2
    BY DEF RepliesDue, One
  <2> QED
    BY <1>1, <1>2, <1>3, <1>4, <2>1, BoundsAssumption, SMTT(20) DEF Transcript
<1>8. D!Next
  <2>1. x = D!Said(m) /\ m \in Ids
    BY <1>1 DEF D!Said, Message, Ids
  <2>2. ~D!IsIn(x, doc.messages)
    BY <1>2 DEF D!IsIn
  <2>3. D!Say(m)
    BY <1>1, <1>3, <2>1, <2>2 DEF D!Say, ms
  <2> QED
    BY <2>1, <2>3 DEF D!Next
<1> QED
  BY <1>5, <1>6, <1>7, <1>8 DEF Inv, Told

\* A turn is retried only for the last message, which has no reply.
LEMMA RetryStep ==
    ASSUME Inv, RetryConversationTurn
    PROVE  Inv' /\ Told
<1> USE MemoryFacts
<1> DEFINE last == doc.messages[Len(doc.messages)]
<1>1. /\ doc.exists /\ Len(doc.messages) < MaxMessages /\ doc.messages # <<>>
      /\ last.role = "researcher" /\ turn' = RunTurn(doc, last.of)
      /\ UNCHANGED <<doc, approval, fire, proposed, posted, fires, crashes>>
      /\ turn.pc = "idle"
  BY BoundsAssumption DEF RetryConversationTurn, Full, GateIsFree
<1>2. last.of \in 1 .. posted /\ Unanswered(doc.messages, last.of)
  BY <1>1, LastIsUnanswered DEF Inv, Transcript
<1> HIDE DEF last
<1>3. doc.grants \in SUBSET ActionKinds /\ last.of \in 0 .. MaxPosts
  BY <1>2, BoundsAssumption DEF Docs
<1>4. turn' \in Turns /\ turn'.pc = "generating" /\ turn'.m = last.of
  BY <1>1, <1>3 DEF RunTurn, IdleTurn, Turns
<1>5. Memory'
  BY <1>1, <1>2, <1>4 DEF Inv, Memory
<1>6. Transcript'
  <2>1. RepliesDue' \in 0 .. 2
    BY DEF RepliesDue, One
  <2> QED
    BY <1>1, <1>2, <1>4, <2>1, BoundsAssumption DEF Inv, Transcript
<1> QED
  BY <1>1, <1>5, <1>6 DEF Inv, Told, SameTranscript

\* Drafts, and the end of a failed turn.
LEMMA DraftStep ==
    ASSUME Inv, ReplyDelta \/ ReplyReset \/ TurnFails
    PROVE  Inv' /\ Told
<1> USE MemoryFacts
<1>1. turn.pc = "generating" /\ turn.m \in Ids
  <2>1. turn.pc = "generating"
    BY DEF ReplyDelta, ReplyReset, TurnFails
  <2> QED
    BY <2>1, BoundsAssumption DEF Inv, Memory, Ids
<1>2. GoodDoc(doc') /\ SameTranscript(doc, doc')
  BY <1>1, NotesOnMessageGood DEF ReplyDelta, ReplyReset, TurnFails
<1>3. /\ turn' = turn \/ turn' = IdleTurn
      /\ UNCHANGED <<approval, fire, proposed, posted, fires, crashes>>
  BY DEF ReplyDelta, ReplyReset, TurnFails
<1>4. Memory'
  BY <1>1, <1>3 DEF Inv, Memory
<1> QED
  BY <1>1, <1>2, <1>3, <1>4, RecordStep

\* A proposal is made by the turn or by the automation turn.
LEMMA ProposeStep ==
    ASSUME Inv, ProposeAction \/ FireProposes
    PROVE  Inv' /\ Told
<1> USE MemoryFacts
<1>1. proposed + 1 \in 0 .. MaxCards /\ proposed + 1 \in Cards
  BY CardsAssumption DEF ProposeAction, FireProposes, Inv, Memory, Cards
<1>2. doc' = doc /\ posted' = posted
  BY DEF ProposeAction, FireProposes
<1>3. CASE ProposeAction
  <2>1. turn' = [turn EXCEPT !.cards = turn.cards \cup {proposed + 1}]
        /\ UNCHANGED <<doc, approval, fire, posted, fires, crashes>>
        /\ turn.pc = "generating" /\ proposed' = proposed + 1
    BY <1>3 DEF ProposeAction
  <2>2. turn' \in Turns /\ turn'.pc = turn.pc /\ turn'.m = turn.m
    BY <1>1, <2>1 DEF Turns
  <2>3. Memory'
    BY <1>1, <2>1, <2>2 DEF Inv, Memory
  <2> QED
    BY <1>2, <2>1, <2>2, <2>3, RecordStep
<1>4. CASE FireProposes
  <2>1. fire' = [fire EXCEPT !.cards = fire.cards \cup {proposed + 1}]
        /\ UNCHANGED <<doc, turn, approval, posted, fires, crashes>>
        /\ fire.pc = "generating" /\ proposed' = proposed + 1
    BY <1>4 DEF FireProposes
  <2>2. fire' \in Fires /\ fire'.pc = fire.pc
    BY <1>1, <2>1 DEF Fires
  <2>3. Memory'
    BY <1>1, <2>1, <2>2 DEF Inv, Memory
  <2> QED
    BY <1>2, <2>1, <2>2, <2>3, RecordStep
<1> QED
  BY <1>3, <1>4

\* The reply lands directly after its message, which had none.
LEMMA LandStep ==
    ASSUME Inv, LandTurn
    PROVE  Inv' /\ Told
<1> USE MemoryFacts
<1> DEFINE m == turn.m
           at == CHOOSE i \in PositionOf(doc, m) : TRUE
           ms == InsertAfter(doc.messages, at, Message("agent", m))
<1>1. /\ turn.pc = "generating" /\ doc.exists /\ PositionOf(doc, m) # {}
      /\ m \in 1 .. posted /\ m \in 1 .. MaxPosts /\ m \in Ids
      /\ UNCHANGED <<fire, proposed, posted, fires, crashes>>
      /\ WellReplied(doc.messages, posted) /\ Unanswered(doc.messages, m)
  BY BoundsAssumption, SMTT(20) DEF LandTurn, Holds, Inv, Memory, Transcript, Ids
<1>2. at \in 1 .. Len(doc.messages) /\ doc.messages[at] = Message("researcher", m)
  BY <1>1 DEF PositionOf
<1> HIDE DEF at
<1>3. ms \in Seq(Messages) /\ Len(ms) = Len(doc.messages) + 1 /\ WellReplied(ms, posted)
  BY <1>1, <1>2, InsertReply
<1>4. PICK cands \in NextCands(CandSeq(doc)) :
        ExecuteNext([WithCards(SpliceReply(doc, m), turn.cards, AutoApproved(turn))
                        EXCEPT !.failed = @ \ {m}, !.drafts = @ \ {m}, !.cands = @ \o cands],
                    AutoApproved(turn))
  BY DEF LandTurn
<1> DEFINE w == WithCards([doc EXCEPT !.messages = ms], turn.cards, AutoApproved(turn))
           e == [w EXCEPT !.failed = w.failed \ {m}, !.drafts = w.drafts \ {m}, !.cands = w.cands \o cands]
<1>5. AutoApproved(turn) \in SUBSET Cards
  BY DEF AutoApproved
<1>6. w.failed = doc.failed /\ w.drafts = doc.drafts /\ w.cands = doc.cands
  <2> HIDE DEF ms
  <2> QED
    BY DEF WithCards, Docs
<1>7. /\ doc.failed \ {m} \in SUBSET Ids /\ doc.drafts \ {m} \in SUBSET Ids
      /\ doc.cands \o cands \in Seq(Nat)
  <2>1. cands \in Seq(Nat)
    BY <1>4, NextCandsType DEF CandSeq
  <2>2. doc.failed \in SUBSET Ids /\ doc.drafts \in SUBSET Ids
    BY DEF Docs
  <2> QED
    BY <2>1, <2>2
<1>8. GoodDoc(e) /\ e.exists /\ e.messages = ms
  <2>1. e = [w EXCEPT !.failed = doc.failed \ {m}, !.drafts = doc.drafts \ {m}, !.cands = doc.cands \o cands]
    BY <1>6
  <2> DEFINE failed == doc.failed \ {m}
             drafts == doc.drafts \ {m}
             cs == doc.cands \o cands
             auto == AutoApproved(turn)
  <2>2. /\ GoodDoc(doc) /\ doc.exists /\ ms \in Seq(Messages) /\ cs \in Seq(Nat)
        /\ failed \in SUBSET Ids /\ drafts \in SUBSET Ids
        /\ turn.cards \in SUBSET Cards /\ auto \in SUBSET Cards
    BY <1>1, <1>3, <1>5, <1>7
  <2>3. e = Landed(doc, ms, cs, failed, drafts, turn.cards, auto)
    BY <2>1 DEF Landed
  <2> HIDE DEF ms, e, w, failed, drafts, cs, auto
  <2> HIDE MemoryFacts
  <2> QED
    BY <2>2, <2>3, LandedGood
<1>9. ExecuteNext(e, AutoApproved(turn))
  BY <1>4 DEF SpliceReply, at
<1> HIDE DEF e, w, ms
<1>10. GoodDoc(doc') /\ SameTranscript(e, doc') /\ Memory' /\ turn'.pc # "generating"
  BY <1>1, <1>5, <1>8, <1>9, ExecuteNextGood
<1>11. doc'.messages = ms /\ doc'.exists
  BY <1>8, <1>10 DEF SameTranscript
<1>12. Transcript'
  <2>1. RepliesDue = RepliesDue' + 1 /\ RepliesDue \in 0 .. 2 /\ RepliesDue' \in 0 .. 2
    BY <1>1, <1>10 DEF RepliesDue, One
  <2>2. Len(doc.messages) + RepliesDue <= MaxMessages + 2
    BY DEF Inv, Transcript
  <2>3. Len(ms) + RepliesDue' <= MaxMessages + 2
    BY <1>3, <2>1, <2>2, BoundsAssumption
  <2> QED
    BY <1>1, <1>3, <1>10, <1>11, <2>3 DEF Transcript
<1>13. D!Next
  <2>1. /\ doc.messages[at].role = "researcher" /\ doc.messages[at].of = m
        /\ Message("agent", m) = D!Reply(m)
    BY <1>2 DEF Message, D!Reply
  <2>2. ~D!IsIn(D!Reply(m), doc.messages)
    <3>1. \A i \in DOMAIN doc.messages : doc.messages[i] # D!Reply(m)
      BY <1>1, <2>1 DEF Unanswered
    <3> QED
      BY <3>1 DEF D!IsIn
  <2>3. ms = D!InsertAfter(doc.messages, at, D!Reply(m))
    BY <2>1 DEF ms, InsertAfter, D!InsertAfter
  <2>4. D!Answer(at)
    BY <1>1, <1>11, <2>1, <2>2, <2>3 DEF D!Answer
  <2> QED
    BY <1>2, <2>4 DEF D!Next
<1> QED
  BY <1>10, <1>12, <1>13 DEF Inv, Told

\* The turn has executed a card it approved in advance and goes on, or fails.
LEMMA AutoFinishStep ==
    ASSUME Inv, AutoFinish
    PROVE  Inv' /\ Told
<1> USE MemoryFacts
<1>1. /\ approval[TheTurn] # NotExecuting /\ turn.pc = "auto"
      /\ approval[TheTurn] \in Approvals /\ approval[TheTurn].card \in Cards
      /\ UNCHANGED <<fire, proposed, posted, fires, crashes>>
  BY DEF AutoFinish, Inv, Memory
<1>2. PICK d \in Outcomes(doc, approval[TheTurn]) :
          \/ /\ d.exists /\ ~Full(d)
             /\ ExecuteNext(AppendAutomationRecord(d), turn.cards \ {approval[TheTurn].card})
          \/ EndTurn(MarkReplyFailed(d, turn.m))
  BY DEF AutoFinish
<1>3. GoodDoc(d) /\ SameTranscript(doc, d)
  BY <1>1, <1>2, OutcomesGood
<1> DEFINE e == AppendAutomationRecord(d)
<1>4. /\ GoodDoc(e)
      /\ \/ SameTranscript(d, e)
         \/ /\ d.exists /\ e.exists /\ Len(d.messages) < MaxMessages
            /\ e.messages = Append(d.messages, Record)
  BY <1>3, RecordGood
<1> HIDE DEF e
<1>5. CASE ExecuteNext(e, turn.cards \ {approval[TheTurn].card})
  <2>1. GoodDoc(doc') /\ SameTranscript(e, doc') /\ Memory' /\ turn'.pc # "generating"
    <3>1. turn.cards \ {approval[TheTurn].card} \in SUBSET Cards
      OBVIOUS
    <3> QED
      BY <1>1, <1>4, <1>5, <3>1, ExecuteNextGood
  <2>2. \/ SameTranscript(doc, doc')
        \/ /\ doc.exists /\ doc'.exists /\ Len(doc.messages) < MaxMessages
           /\ doc'.messages = Append(doc.messages, Record)
    BY <1>3, <1>4, <2>1 DEF SameTranscript
  <2>3. Transcript'
    BY <1>1, <2>1, <2>2, TranscriptNoted
  <2> QED
    BY <2>1, <2>2, <2>3, NoteIsTold DEF Inv, Told
<1>6. CASE EndTurn(MarkReplyFailed(d, turn.m))
  <2>1. GoodDoc(doc') /\ SameTranscript(d, doc') /\ Memory' /\ turn'.pc # "generating"
    <3>1. {} \in SUBSET Cards
      OBVIOUS
    <3> QED
      BY <1>1, <1>3, <1>6, <3>1, ExecuteNextGood
  <2>2. SameTranscript(doc, doc')
    BY <1>3, <2>1 DEF SameTranscript
  <2>3. Transcript'
    BY <1>1, <2>1, <2>2, TranscriptNoted
  <2> QED
    BY <2>1, <2>2, <2>3 DEF Inv, Told
<1> QED
  BY <1>2, <1>5, <1>6 DEF e

\* A proposal is approved, executed or rejected by a request of the researcher.
LEMMA ResolutionStep ==
    ASSUME Inv, Resolution
    PROVE  Inv' /\ Told
<1> USE MemoryFacts
<1>1. ASSUME NEW c \in Cards, Reject(c) PROVE Inv' /\ Told
  <2>1. GoodDoc(Resolved(doc, c, "rejected", FALSE)) /\ SameTranscript(doc, Resolved(doc, c, "rejected", FALSE))
    BY ResolvedGood DEF CardStatus
  <2>2. /\ doc' = AppendAutomationRecord(Resolved(doc, c, "rejected", FALSE))
        /\ UNCHANGED <<turn, approval, fire, proposed, posted, fires, crashes>>
    BY <1>1 DEF Reject
  <2>3. Memory'
    BY <2>2 DEF Inv, Memory
  <2> QED
    BY <2>1, <2>2, <2>3, RecordStep
<1>2. ASSUME NEW a \in Approvers, NEW c \in Cards, NEW remember \in BOOLEAN, Approve(a, c, remember)
      PROVE  Inv' /\ Told
  <2>1. Executing(c, remember) \in Approvals /\ Executing(c, remember).card = c
    BY DEF Executing, Approvals
  <2>2. /\ approval' = [approval EXCEPT ![a] = Executing(c, remember)]
        /\ UNCHANGED <<doc, turn, fire, proposed, posted, fires, crashes>>
    BY <1>2 DEF Approve
  <2>3. a \in Executors /\ a # TheTurn
    OBVIOUS
  <2>4. /\ approval' \in [Executors -> Approvals] /\ approval'[TheTurn] = approval[TheTurn]
        /\ approval'[a].card = c
        /\ \A b \in Executors \ {a} : approval'[b] = approval[b]
    BY <2>1, <2>2, <2>3
  <2>5. Memory'
    BY <2>2, <2>4 DEF Inv, Memory
  <2> QED
    BY <2>2, <2>5, RecordStep
<1>3. ASSUME NEW a \in Approvers, Finish(a) PROVE Inv' /\ Told
  <2>1. a \in Executors /\ a # TheTurn
    OBVIOUS
  <2>2. PICK d \in Outcomes(doc, approval[a]) : doc' = AppendAutomationRecord(d)
    BY <1>3 DEF Finish
  <2>3. approval[a] \in Approvals /\ approval[a].card \in Cards
    BY <1>3, <2>1 DEF Finish, Inv, Memory
  <2>4. GoodDoc(d) /\ SameTranscript(doc, d)
    BY <2>2, <2>3, OutcomesGood
  <2>5. /\ approval' = [approval EXCEPT ![a] = NotExecuting]
        /\ UNCHANGED <<turn, fire, proposed, posted, fires, crashes>>
    BY <1>3 DEF Finish
  <2>6. /\ approval' \in [Executors -> Approvals] /\ approval'[TheTurn] = approval[TheTurn]
        /\ \A b \in Executors : approval'[b] = NotExecuting \/ approval'[b] = approval[b]
    BY <2>1, <2>5
  <2>7. Memory'
    BY <2>5, <2>6 DEF Inv, Memory
  <2> QED
    BY <2>2, <2>4, <2>5, <2>7, RecordStep
<1> QED
  BY <1>1, <1>2, <1>3 DEF Resolution

\* An automation turn starts with its notice.
LEMMA FireStartsStep ==
    ASSUME Inv, FireStarts
    PROVE  Inv' /\ Told
<1> USE MemoryFacts
<1>1. /\ doc.exists /\ Len(doc.messages) < MaxMessages /\ doc' = AppendAutomationRecord(doc)
      /\ fire' = [IdleFire EXCEPT !.pc = "generating", !.seq = CandSeq(doc)]
      /\ UNCHANGED <<turn, approval, proposed, posted, crashes>>
      /\ fires' \in 0 .. MaxFires
  <2>1. fires \in 0 .. MaxFires
    BY DEF Inv, Memory
  <2> QED
    BY <2>1, BoundsAssumption, SMTT(20) DEF FireStarts, Full
<1>2. fire' \in Fires /\ fire'.pc = "generating"
  <2>1. CandSeq(doc) \in Nat
    BY DEF CandSeq
  <2> QED
    BY <1>1, <2>1 DEF Fires
<1>3. Memory'
  BY <1>1, <1>2 DEF Inv, Memory
<1>4. /\ GoodDoc(doc') /\ doc'.exists
      /\ doc'.messages = doc.messages \/ doc'.messages = Append(doc.messages, Record)
  BY <1>1, RecordGood DEF SameTranscript
<1>5. Transcript' /\ Told
  <2>1. RepliesDue' \in 0 .. 2
    BY DEF RepliesDue, One
  <2>2. /\ WellReplied(doc.messages, posted)
        /\ turn.pc = "generating" => Unanswered(doc.messages, turn.m) /\ turn.m \in Nat \ {0}
    BY DEF Inv, Transcript, Memory
  <2>3. CASE doc'.messages = doc.messages
    BY <1>1, <1>4, <2>1, <2>2, <2>3, BoundsAssumption DEF Transcript, Told, SameTranscript
  <2>4. CASE doc'.messages = Append(doc.messages, Record)
    <3>1. Record \in Messages /\ Record.role # "researcher" /\ Record.of = 0
      BY BoundsAssumption DEF Record, Message, Messages, Roles
    <3>2. /\ Len(doc'.messages) = Len(doc.messages) + 1
          /\ WellReplied(doc'.messages, posted)
          /\ \A m \in Nat \ {0} : Unanswered(doc.messages, m) => Unanswered(doc'.messages, m)
      BY <2>2, <2>4, <3>1, AppendNote
    <3> QED
      BY <1>1, <1>4, <2>1, <2>2, <2>4, <3>2, NoteIsTold, BoundsAssumption, SMTT(20) DEF Transcript, Told
  <2> QED
    BY <1>4, <2>3, <2>4
<1> QED
  BY <1>3, <1>4, <1>5 DEF Inv

\* An automation turn lands its reply at the end, whatever the length.
LEMMA FireLandsStep ==
    ASSUME Inv, FireLands
    PROVE  Inv' /\ Told
<1> USE MemoryFacts
<1>1. /\ fire.pc = "generating" /\ fire' = IdleFire
      /\ UNCHANGED <<turn, approval, proposed, posted, fires, crashes>>
  BY DEF FireLands
<1>2. Memory'
  BY <1>1 DEF Inv, Memory
<1>3. CASE ~doc.exists
  <2>1. doc' = doc
    BY <1>3 DEF FireLands
  <2> QED
    BY <1>1, <1>2, <2>1, RecordStep
<1>4. CASE doc.exists
  <2> DEFINE x == Message("agent", 0)
             ms == Append(doc.messages, x)
  <2>1. x \in Messages /\ x.role # "researcher" /\ x.of = 0
    BY BoundsAssumption DEF Message, Messages, Roles
  <2> HIDE DEF x
  <2>2. /\ WellReplied(doc.messages, posted)
        /\ turn.pc = "generating" => Unanswered(doc.messages, turn.m) /\ turn.m \in Nat \ {0}
    BY DEF Inv, Transcript, Memory
  <2>3. /\ ms \in Seq(Messages) /\ Len(ms) = Len(doc.messages) + 1
        /\ WellReplied(ms, posted)
        /\ \A m \in Nat \ {0} : Unanswered(doc.messages, m) => Unanswered(ms, m)
    BY <2>1, <2>2, AppendNote
  <2>4. PICK cands \in NextCands(fire.seq) :
          doc' = WithCards([doc EXCEPT !.messages = ms, !.cands = @ \o cands], fire.cards, {})
    BY <1>4 DEF FireLands, x
  <2> DEFINE cs == doc.cands \o cands
             g == [doc EXCEPT !.messages = ms, !.cands = cs]
             st == [c \in Cards |-> IF c \in fire.cards THEN "pending" ELSE doc.status[c]]
  <2>5. cs \in Seq(Nat)
    BY <2>4, NextCandsType
  <2> HIDE DEF ms, cs
  <2>6. g \in Docs /\ g.exists = doc.exists /\ g.messages = ms /\ g.status = doc.status
        /\ g.runIds = doc.runIds /\ g.detached = doc.detached
    BY <2>3, <2>5 DEF Docs
  <2>7. doc' = WithCards(g, fire.cards, {})
    BY <2>4 DEF cs
  <2> HIDE DEF g
  <2>8. doc' = [g EXCEPT !.status = st, !.auto = g.auto \cup {}]
    BY <2>6, <2>7 DEF WithCards
  <2>9. st \in [Cards -> CardStatus] /\ \A c \in Cards : st[c] = "executed" => doc.status[c] = "executed"
    BY DEF Docs, CardStatus
  <2> HIDE DEF st
  <2>10. doc' \in Docs /\ doc'.exists = doc.exists /\ doc'.messages = ms /\ doc'.status = st
         /\ doc'.runIds = doc.runIds /\ doc'.detached = doc.detached
    BY <2>6, <2>8, <2>9 DEF Docs
  <2>11. GoodDoc(doc')
    BY <1>4, <2>9, <2>10, CardsAssumption DEF GoodDoc
  <2>12. Transcript'
    <3>1. RepliesDue = RepliesDue' + 1 /\ RepliesDue \in 0 .. 2 /\ RepliesDue' \in 0 .. 2
      BY <1>1 DEF RepliesDue, One
    <3>2. Len(doc.messages) + RepliesDue <= MaxMessages + 2
      BY DEF Inv, Transcript
    <3>3. Len(ms) + RepliesDue' <= MaxMessages + 2
      BY <2>3, <3>1, <3>2, BoundsAssumption
    <3> QED
      BY <1>1, <2>2, <2>3, <2>10, <3>3 DEF Transcript
  <2>13. D!Next
    BY <1>4, <2>10, NoteIsTold DEF ms, x
  <2> QED
    BY <1>2, <2>11, <2>12, <2>13 DEF Inv, Told
<1> QED
  BY <1>3, <1>4

\* An automation turn fails, and grants are forgotten.
LEMMA SmallSteps ==
    ASSUME Inv, FireFails \/ ForgetGrants
    PROVE  Inv' /\ Told
<1> USE MemoryFacts
<1>1. CASE FireFails
  <2>1. /\ doc' = AppendAutomationRecord(doc) /\ fire' = IdleFire
        /\ UNCHANGED <<turn, approval, proposed, posted, fires, crashes>>
    BY <1>1 DEF FireFails
  <2>2. Memory'
    BY <2>1 DEF Inv, Memory
  <2> QED
    BY <2>1, <2>2, RecordStep
<1>2. CASE ForgetGrants
  <2> DEFINE e == [doc EXCEPT !.grants = {}]
  <2>1. e \in Docs /\ e.exists = doc.exists /\ e.messages = doc.messages /\ e.status = doc.status
        /\ e.runIds = doc.runIds /\ e.detached = doc.detached
    BY DEF Docs
  <2>2. doc' = e /\ doc.exists /\ UNCHANGED <<turn, approval, fire, proposed, posted, fires, crashes>>
    BY <1>2 DEF ForgetGrants
  <2> HIDE DEF e
  <2>3. GoodDoc(e) /\ SameTranscript(doc, e)
    BY <2>1, <2>2 DEF GoodDoc, SameTranscript
  <2>4. Memory'
    BY <2>2 DEF Inv, Memory
  <2> QED
    BY <2>2, <2>3, <2>4, RecordStep
<1> QED
  BY <1>1, <1>2

\* A run is deleted: its launch is accounted for as detached.
LEMMA DeleteRunStep ==
    ASSUME Inv, NEW c \in Launches, DeleteRun(c)
    PROVE  Inv' /\ Told
<1> USE MemoryFacts
<1> DEFINE e == [doc EXCEPT !.runIds = doc.runIds \ {c}, !.detached = doc.detached \cup {c}]
<1>1. /\ doc' = e /\ c \in doc.runIds
      /\ UNCHANGED <<turn, approval, fire, proposed, posted, fires, crashes>>
  BY DEF DeleteRun, DetachRun
<1>2. doc.exists
  <2>1. NoDoc.runIds = {}
    BY DEF NoDoc, NewDoc
  <2> QED
    BY <1>1, <2>1 DEF Inv, GoodDoc
<1>3. e \in Docs /\ e.exists = doc.exists /\ e.messages = doc.messages /\ e.status = doc.status
      /\ e.runIds = doc.runIds \ {c} /\ e.detached = doc.detached \cup {c}
  BY CardsAssumption DEF Docs
<1> HIDE DEF e
<1>4. GoodDoc(e) /\ SameTranscript(doc, e)
  BY <1>2, <1>3 DEF Inv, GoodDoc, SameTranscript
<1>5. Memory'
  BY <1>1 DEF Inv, Memory
<1> QED
  BY <1>1, <1>4, <1>5, RecordStep

\* The conversation is deleted.
LEMMA DeleteStep ==
    ASSUME Inv, DeleteConversation
    PROVE  Inv' /\ Told
<1> USE MemoryFacts
<1>1. /\ doc.exists /\ doc' = NoDoc
      /\ UNCHANGED <<turn, approval, fire, proposed, posted, fires, crashes>>
  BY DEF DeleteConversation
<1>2. GoodDoc(doc') /\ ~doc'.exists /\ doc'.messages = <<>>
  BY <1>1, EmptyDocs
<1>3. Memory'
  BY <1>1 DEF Inv, Memory
<1>4. Transcript'
  <2>1. RepliesDue' \in 0 .. 2
    BY DEF RepliesDue, One
  <2>2. WellReplied(<<>>, posted) /\ Unanswered(<<>>, turn.m) /\ Len(<<>>) = 0
    BY DEF WellReplied, Unanswered
  <2>3. Len(doc'.messages) + RepliesDue' <= MaxMessages + 2
    <3>1. Len(doc'.messages) = 0
      BY <1>2, <2>2
    <3>2. \A n \in 0 .. 2 : 0 + n <= MaxMessages + 2
      BY BoundsAssumption
    <3> QED
      BY <2>1, <3>1, <3>2
  <2>4. WellReplied(doc'.messages, posted') /\ Unanswered(doc'.messages, turn'.m)
    BY <1>1, <1>2, <2>2
  <2> QED
    BY <2>3, <2>4 DEF Transcript
<1>5. doc'.exists = FALSE
  BY <1>2 DEF GoodDoc, Docs
<1> QED
  BY <1>1, <1>2, <1>3, <1>4, <1>5 DEF Inv, Told, D!Next, D!Delete

\* The process dies between two writes of a resolution, or between two steps.
LEMMA CrashStep ==
    ASSUME Inv, Crash
    PROVE  Inv' /\ Told
<1> USE MemoryFacts
<1>1. /\ doc' \in Halted /\ turn' = IdleTurn /\ fire' = IdleFire
      /\ approval' = [a \in Executors |-> NotExecuting]
      /\ UNCHANGED <<proposed, posted, fires>> /\ crashes' \in 0 .. MaxCrashes
  BY BoundsAssumption DEF Crash, Inv, Memory
<1>2. GoodDoc(doc') /\ SameTranscript(doc, doc')
  <2>1. CASE doc' = doc
    BY <2>1
  <2>2. CASE doc' # doc
    <3>1. PICK a \in Executors : /\ approval[a] # NotExecuting
                                 /\ \/ doc' = AttachRun(doc, approval[a].card)
                                    \/ doc' \in Outcomes(doc, approval[a])
      BY <1>1, <2>2 DEF Halted
    <3>2. approval[a] \in Approvals /\ approval[a].card \in Cards
      BY <3>1 DEF Inv, Memory
    <3> QED
      BY <3>1, <3>2, AttachRunGood, OutcomesGood
  <2> QED
    BY <2>1, <2>2
<1>3. Memory'
  <2>1. /\ approval' \in [Executors -> Approvals] /\ approval'[TheTurn] = NotExecuting
        /\ \A a \in Executors : approval'[a] = NotExecuting
    BY <1>1
  <2> QED
    BY <1>1, <2>1 DEF Inv, Memory
<1> QED
  BY <1>1, <1>2, <1>3, RecordStep

-----------------------------------------------------------------------------
(* The theorems *)

\* A new conversation satisfies the invariant.
LEMMA InitInv == Init => Inv
<1> SUFFICES ASSUME Init PROVE Inv
  OBVIOUS
<1>1. GoodDoc(doc) /\ doc.messages = <<>>
  BY EmptyDocs DEF Init
<1>2. Memory
  <2>1. IdleTurn \in Turns /\ IdleTurn.pc = "idle" /\ IdleFire \in Fires /\ IdleFire.pc = "idle"
    BY BoundsAssumption DEF IdleTurn, Turns, IdleFire, Fires
  <2>2. NotExecuting \in Approvals /\ TheTurn \in Executors
    BY DEF NotExecuting, Executing, Approvals, Executors
  <2>3. /\ approval \in [Executors -> Approvals] /\ approval[TheTurn] = NotExecuting
        /\ \A a \in Executors : approval[a] = NotExecuting
    BY <2>2 DEF Init
  <2> QED
    BY <2>1, <2>3, CardsAssumption, BoundsAssumption DEF Init, Memory
<1>3. Transcript
  <2>1. RepliesDue \in 0 .. 2
    BY DEF RepliesDue, One
  <2>2. WellReplied(<<>>, posted) /\ Unanswered(<<>>, turn.m) /\ Len(<<>>) = 0
    BY DEF WellReplied, Unanswered
  <2> QED
    BY <1>1, <2>1, <2>2, BoundsAssumption DEF Transcript
<1> QED
  BY <1>1, <1>2, <1>3 DEF Inv

\* Every step keeps the invariant and is a step of the dialogue or shows a
\* reader nothing.
LEMMA NextStep == Inv /\ [Next]_vars => Inv' /\ Told
<1> SUFFICES ASSUME Inv, [Next]_vars PROVE Inv' /\ Told
  OBVIOUS
<1>1. CASE UNCHANGED vars
  <2>1. Inv'
    BY <1>1 DEF vars, Inv, Memory, Transcript, RepliesDue
  <2>2. SameTranscript(doc, doc')
    BY <1>1 DEF vars, SameTranscript
  <2> QED
    BY <2>1, <2>2 DEF Told
<1>2. CASE TurnStep
  BY <1>2, DraftStep, ProposeStep, LandStep, AutoFinishStep DEF TurnStep
<1>3. CASE FireStep
  BY <1>3, FireStartsStep, ProposeStep, FireLandsStep, SmallSteps DEF FireStep
<1> QED
  BY <1>1, <1>2, <1>3, PostStep, RetryStep, ResolutionStep, SmallSteps, DeleteStep, DeleteRunStep, CrashStep DEF Next

\* The inductive invariant.
LEMMA Invariant == Spec => []Inv
<1>1. Inv /\ [Next]_vars => Inv'
  BY NextStep
<1> QED
  BY InitInv, <1>1, PTL DEF Spec

\* The state is well typed, nothing is left of a deleted conversation, and the
\* transcript exceeds its limit by no more than the replies of the two turns
\* that may be in flight.
THEOREM TypeCorrect == Spec => []TypeOK
<1>1. Inv => TypeOK
  <2> SUFFICES ASSUME Inv PROVE TypeOK
    OBVIOUS
  <2>1. RepliesDue \in 0 .. 2 /\ Len(doc.messages) \in Nat
    <3>1. doc.messages \in Seq(Messages)
      BY MemoryFacts
    <3> QED
      BY <3>1 DEF RepliesDue, One
  <2>2. Len(doc.messages) <= MaxMessages + 2
    BY <2>1, BoundsAssumption DEF Inv, Transcript
  <2>3. doc \in Docs /\ (~doc.exists => doc = NoDoc)
    BY DEF Inv, GoodDoc
  <2> QED
    BY <2>2, <2>3 DEF Inv, Memory, TypeOK, Docs, Messages, Roles, Turns, Fires, Approvals
<1> QED
  BY <1>1, Invariant, PTL

\* A launch that the document calls executed has its run in the conversation
\* until that run is deleted, whatever interleaves with its execution and
\* wherever the process dies.
THEOREM RunsAttributed == Spec => []RunsAreAttributed
<1>1. Inv => RunsAreAttributed
  BY DEF Inv, GoodDoc, RunsAreAttributed
<1> QED
  BY <1>1, Invariant, PTL

\* The conversation implements the dialogue: its messages and its existence
\* change only as Dialogue allows.
THEOREM DialogueImplemented == Spec => ImplementsDialogue
<1>1. Init => D!Init
  BY EmptyDocs DEF Init, D!Init, NewDoc
<1>2. Inv /\ [Next]_vars => [D!Next]_<<doc.messages, doc.exists>>
  BY NextStep DEF Told, SameTranscript
<1> QED
  BY <1>1, <1>2, Invariant, PTL DEF Spec, ImplementsDialogue, D!Spec

=============================================================================
