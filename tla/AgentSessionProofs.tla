------------------------- MODULE AgentSessionProofs -------------------------
(***************************************************************************)
(* Proofs about an agent session, for any calls, turn limits, compactions, *)
(* crashes and resumes: its types, that a committed effect is never run    *)
(* again, the turn budget across attempts, that the rollout file and       *)
(* memory agree but for what micro-compaction cuts, and that the model is  *)
(* never shown an action without an answer.                                *)
(*                                                                         *)
(* The lines of a step reach the file one by one, so what must be known is *)
(* the transcript the file will hold after each of them.  The invariant    *)
(* speaks of these transcripts: a function m with m[0] the file's, m[k]    *)
(* the one after k more lines.                                             *)
(***************************************************************************)
EXTENDS AgentSession, Integers, SequenceTheorems, TLAPS

GoodEntries == {e \in Entries : e.kind = "done" => e.call \in Calls}
GoodLines ==
    {l \in [type : {"item", "resumed", "session_meta", "started", "finished", "effect_committed",
                    "compacted", "turn_record", "session_end"},
            entry : GoodEntries, kept : Seq(GoodEntries)] :
        /\ l.type \in {"started", "finished"} => l.entry.call \in Calls
        /\ l.type = "effect_committed" => l.entry.call \in Effects
        /\ l.type = "compacted" => l.kept # <<>> /\ l.kept[1].kind = "task"}
Keys == Nat \X {Tool[c] : c \in Calls}
GoodFiles == [items : Seq(GoodEntries), base : BOOLEAN, meta : BOOLEAN, any : BOOLEAN,
              records : Nat, lastTurn : Nat, effects : SUBSET Effects,
              started : SUBSET Keys, finished : SUBSET Keys,
              ended : BOOLEAN, inTool : BOOLEAN, done : SUBSET Effects]
Live == {"loop", "gate", "call", "tool", "exec"}
Asking == {"loop", "gate", "call"}
InTool == {"tool", "exec"}

-----------------------------------------------------------------------------
(* Transcripts and the lines that extend them *)

Answered(s, i) ==
    \E j \in 1 .. Len(s) : /\ j > i
                           /\ IsResult(s[j]) \/ s[j].kind = "error"
                           /\ s[j].turn = s[i].turn

\* Every action is answered; every action but the last is; every action but those
\* of turn t is.
AllAnswered(s) == \A i \in 1 .. Len(s) : s[i].kind = "action" => Answered(s, i)
Trail(s) ==
    \A i \in 1 .. Len(s) : s[i].kind = "action" =>
        Answered(s, i) \/ \A j \in 1 .. Len(s) : s[j].kind = "action" => j <= i
OpenOnly(s, t) ==
    \A i \in 1 .. Len(s) : s[i].kind = "action" => Answered(s, i) \/ s[i].turn = t

\* What a line does to the transcript a reader finds.
Applied(items, l) == IF l.type = "item" THEN Append(items, l.entry)
                     ELSE IF l.type = "compacted" THEN l.kept ELSE items

\* m is the history of a transcript that the lines p are added to; a first line
\* behind a fragment is lost.
Played(lost, items, p, m) ==
    /\ m \in [0 .. Len(p) -> Seq(GoodEntries)]
    /\ m[0] = items
    /\ \A k \in 1 .. Len(p) : m[k] = IF lost /\ k = 1 THEN m[k - 1] ELSE Applied(m[k - 1], p[k])
Trails(p, m) == \A k \in 0 .. Len(p) : Trail(m[k])
Inert(l) == l.type # "item" /\ l.type # "compacted"

-----------------------------------------------------------------------------
(* The inductive invariant *)

Stored ==
    /\ caller \in Callers /\ file \in GoodFiles /\ torn \in BOOLEAN /\ attempts \in Nat
    /\ file.base => file.items # <<>> /\ file.items[1].kind = "task"
    /\ ~file.any => file.items = <<>>
Held ==
    /\ pending \in Seq(GoodLines)
    /\ pc \in {"idle"} \cup Live
    /\ transcript \in Seq(GoodEntries)
    /\ turn \in Nat /\ effects \subseteq Calls
    /\ invalid \in 0 .. MaxInvalid - 1 /\ reasks \in 0 .. MaxReasks
    /\ call \in Calls \cup {NoCall}
    /\ asked \in Nat /\ ran \in [Effects -> Nat]
    /\ pc \in InTool => call \in Calls
    /\ pc \in {"gate", "call", "tool", "exec"} => turn <= MaxTurns
    /\ pc # "idle" => turn >= 1
Shapes == Stored /\ Held

\* A fragment at the end of the file costs at most the line that says the session
\* was resumed, or the task of a conversation that starts over.
Fragments ==
    /\ torn /\ pc # "idle" => pending # <<>>
    /\ torn /\ pending # <<>> => pending[1].type \in {"resumed", "item"}
    /\ caller = "refine" /\ torn /\ pending # <<>> => pending[1].type = "resumed"
    /\ caller = "refine" => \A k \in 1 .. Len(pending) : pending[k].type = "session_meta" =>
          ~file.base /\ \A j \in 1 .. Len(pending) : pending[j].type # "compacted"
    /\ attempts = 0 => pc = "idle" /\ pending = <<>> /\ file = EmptyFile /\ torn = FALSE

\* The ledger in memory holds what is committed on disk and in the lines to come.
Ledger ==
    /\ caller = "conversation" => file.effects = {} /\ call \notin Effects
    /\ pc # "idle" => file.effects \subseteq effects
    /\ pc = "exec" => call \notin Effects \cap effects
    /\ \A k \in 1 .. Len(pending) : pending[k].type = "effect_committed" =>
          caller = "refine" /\ pc # "idle" /\ pending[k].entry.call \in effects

\* The record of the turn before this one is on disk, or among the lines to come.
RecordDue == \E k \in 1 .. Len(pending) :
                pending[k].type = "turn_record" /\ pending[k].entry.turn >= turn - 1
Turns ==
    /\ asked <= PriorTurns + attempts
    /\ pc \in Asking => asked + 2 <= turn + attempts
    /\ pc \in InTool => asked + 1 <= turn + attempts
    /\ pc # "idle" => \/ PriorTurns >= turn - 1
                      \/ RecordDue /\ PriorTurns >= turn - 2
    /\ TurnBudgetHolds

\* What the loop has reached, for the transcript s.
Closed(s) == /\ pc \in Asking => AllAnswered(s)
             /\ pc \in InTool => OpenOnly(s, turn)
Mirrors == caller = "refine" /\ pc # "idle" /\ (file.base => file.meta)
Answers ==
    /\ Closed(transcript)
    /\ \E m : /\ Played(torn, file.items, pending, m) /\ Trails(pending, m)
              /\ Closed(m[Len(pending)])
              /\ Mirrors => Alike(m[Len(pending)], transcript)

Inv == Shapes /\ Fragments /\ Ledger /\ Turns /\ Answers

-----------------------------------------------------------------------------
(* Appending to a transcript *)

LEMMA Appending ==
    ASSUME NEW s \in Seq(GoodEntries), NEW e \in GoodEntries
    PROVE  /\ Append(s, e) \in Seq(GoodEntries) /\ Len(s) \in Nat
           /\ Len(Append(s, e)) = Len(s) + 1
           /\ \A i \in 1 .. Len(s) : Append(s, e)[i] = s[i]
           /\ Append(s, e)[Len(s) + 1] = e
           /\ \A i \in 1 .. Len(s) + 1 : i \in 1 .. Len(s) \/ i = Len(s) + 1
           /\ \A i \in 1 .. Len(s) : i \in 1 .. Len(s) + 1 /\ i < Len(s) + 1
           /\ Len(s) + 1 \in 1 .. Len(s) + 1
           /\ s \o <<e>> = Append(s, e)
<1>1. Len(s) \in Nat
  BY LenProperties
<1>2. s \o <<e>> = Append(s, e)
  BY AppendIsConcat
<1> QED
  BY <1>1, <1>2, AppendProperties

\* An answer stays one.
LEMMA StillAnswered ==
    ASSUME NEW s \in Seq(GoodEntries), NEW e \in GoodEntries,
           NEW i \in 1 .. Len(s), Answered(s, i)
    PROVE  Answered(Append(s, e), i)
<1>1. PICK j \in 1 .. Len(s) : /\ j > i
                               /\ IsResult(s[j]) \/ s[j].kind = "error"
                               /\ s[j].turn = s[i].turn
  BY DEF Answered
<1>2. j \in 1 .. Len(Append(s, e)) /\ Append(s, e)[j] = s[j] /\ Append(s, e)[i] = s[i]
  BY Appending
<1> QED
  BY <1>1, <1>2 DEF Answered

\* Something that is no action is appended.
LEMMA AppendOther ==
    ASSUME NEW s \in Seq(GoodEntries), NEW e \in GoodEntries, e.kind # "action", NEW t
    PROVE  /\ Trail(s) => Trail(Append(s, e))
           /\ AllAnswered(s) => AllAnswered(Append(s, e))
           /\ OpenOnly(s, t) => OpenOnly(Append(s, e), t)
<1> DEFINE r == Append(s, e)
<1>1. ASSUME NEW i \in 1 .. Len(r), r[i].kind = "action"
      PROVE  i \in 1 .. Len(s) /\ r[i] = s[i] /\ (Answered(s, i) => Answered(r, i))
  BY <1>1, Appending, StillAnswered
<1> HIDE DEF r
<1>2. AllAnswered(s) => AllAnswered(r)
  BY <1>1 DEF AllAnswered
<1>3. OpenOnly(s, t) => OpenOnly(r, t)
  BY <1>1 DEF OpenOnly
<1>4. Trail(s) => Trail(r)
  BY <1>1 DEF Trail
<1> QED
  BY <1>2, <1>3, <1>4 DEF r

\* An action is appended where all are answered.
LEMMA AppendAction ==
    ASSUME NEW s \in Seq(GoodEntries), NEW e \in GoodEntries, AllAnswered(s)
    PROVE  Trail(Append(s, e)) /\ OpenOnly(Append(s, e), e.turn)
<1> DEFINE r == Append(s, e)
<1>1. Len(s) \in Nat /\ Len(r) = Len(s) + 1 /\ r[Len(s) + 1] = e
  BY Appending
<1>2. ASSUME NEW i \in 1 .. Len(r), r[i].kind = "action", i # Len(s) + 1
      PROVE  Answered(r, i)
  <2>1. i \in 1 .. Len(s) /\ r[i] = s[i]
    BY <1>2, Appending
  <2> QED
    BY <1>2, <2>1, StillAnswered DEF AllAnswered
<1> HIDE DEF r
<1>3. OpenOnly(r, e.turn)
  BY <1>1, <1>2 DEF OpenOnly
<1>4. Trail(r)
  BY <1>1, <1>2 DEF Trail
<1> QED
  BY <1>3, <1>4 DEF r

\* The answer to what is open.
LEMMA AppendAnswer ==
    ASSUME NEW s \in Seq(GoodEntries), NEW e \in GoodEntries,
           IsResult(e) \/ e.kind = "error", OpenOnly(s, e.turn)
    PROVE  AllAnswered(Append(s, e))
<1> DEFINE r == Append(s, e)
<1>0. e.kind # "action"
  BY DEF IsResult
<1>1. ASSUME NEW i \in 1 .. Len(r), r[i].kind = "action"
      PROVE  Answered(r, i)
  <2>1. /\ i \in 1 .. Len(s) /\ r[i] = s[i] /\ i < Len(s) + 1
        /\ Len(s) + 1 \in 1 .. Len(r) /\ r[Len(s) + 1] = e
    BY <1>0, <1>1, Appending
  <2>2. CASE Answered(s, i)
    BY <2>1, <2>2, StillAnswered
  <2>3. CASE s[i].turn = e.turn
    <3>1. Len(s) + 1 > i
      BY <2>1, Appending
    <3> HIDE DEF r
    <3> QED
      BY <2>1, <2>3, <3>1 DEF Answered
  <2> QED
    BY <1>1, <2>1, <2>2, <2>3 DEF OpenOnly
<1> QED
  BY <1>1 DEF AllAnswered

\* Transcripts that differ in what is cut.
LEMMA AlikeSame ==
    ASSUME NEW s
    PROVE  Alike(s, s)
  BY DEF Alike, MayBeCut

LEMMA AlikeAppended ==
    ASSUME NEW s \in Seq(GoodEntries), NEW t \in Seq(GoodEntries), NEW e \in GoodEntries, Alike(s, t)
    PROVE  Alike(Append(s, e), Append(t, e))
<1> DEFINE a == Append(s, e)
           b == Append(t, e)
<1>1. DOMAIN s = 1 .. Len(s) /\ DOMAIN t = 1 .. Len(t) /\ Len(s) \in Nat /\ Len(t) \in Nat
  BY LenProperties
<1>2. Len(s) = Len(t) /\ \A i \in 1 .. Len(s) : MayBeCut(s[i], t[i])
  <2>1. 1 .. Len(s) = 1 .. Len(t) /\ \A i \in 1 .. Len(s) : MayBeCut(s[i], t[i])
    BY <1>1 DEF Alike
  <2>2. \A i : i \in 1 .. Len(s) <=> i \in 1 .. Len(t)
    BY <2>1
  <2>3. Len(s) <= Len(t) /\ Len(t) <= Len(s)
    <3>1. Len(s) # 0 => Len(s) \in 1 .. Len(t)
      BY <1>1, <2>2
    <3>2. Len(t) # 0 => Len(t) \in 1 .. Len(s)
      BY <1>1, <2>2
    <3> QED
      BY <1>1, <3>1, <3>2
  <2>4. Len(s) = Len(t)
    <3>1. ASSUME NEW i \in Nat, NEW j \in Nat, i <= j, j <= i PROVE i = j
      BY <3>1
    <3> QED
      BY <1>1, <2>3, <3>1
  <2> QED
    BY <2>1, <2>4
<1>3. /\ DOMAIN a = 1 .. Len(s) + 1 /\ \A i \in 1 .. Len(s) : a[i] = s[i]
      /\ a[Len(s) + 1] = e
  BY Appending, LenProperties
<1>4. /\ DOMAIN b = 1 .. Len(s) + 1 /\ \A i \in 1 .. Len(s) : b[i] = t[i]
      /\ b[Len(s) + 1] = e
  BY <1>2, Appending, LenProperties
<1> HIDE DEF a, b
<1>5. \A i \in 1 .. Len(s) + 1 : i \in 1 .. Len(s) \/ i = Len(s) + 1
  BY <1>1
<1>6. MayBeCut(e, e)
  BY DEF MayBeCut
<1>7. \A i \in 1 .. Len(s) + 1 : MayBeCut(a[i], b[i])
  BY <1>2, <1>3, <1>4, <1>5, <1>6
<1> QED
  BY <1>3, <1>4, <1>7 DEF Alike, a, b

\* What micro-compaction leaves alone.
LEMMA MicrocompactKeeps ==
    ASSUME NEW s \in Seq(GoodEntries), NEW r \in Seq(GoodEntries)
    PROVE  LET c == Microcompact(s) IN
              /\ c \in Seq(GoodEntries) /\ Len(c) = Len(s)
              /\ Alike(r, s) => Alike(r, c)
              /\ AllAnswered(s) => AllAnswered(c)
<1> DEFINE c == Microcompact(s)
<1>1. DOMAIN s = 1 .. Len(s) /\ Len(s) \in Nat /\ \A i \in 1 .. Len(s) : s[i] \in GoodEntries
  BY LenProperties, ElementOfSeq
<1>2. DOMAIN c = 1 .. Len(s) /\ \A i \in 1 .. Len(s) :
         c[i] = IF IsResult(s[i]) /\ IsOld(s, i) THEN [s[i] EXCEPT !.cut = TRUE] ELSE s[i]
  BY <1>1 DEF Microcompact
<1>3. ASSUME NEW e \in GoodEntries
      PROVE  LET d == [e EXCEPT !.cut = TRUE] IN
             /\ d \in GoodEntries /\ d.kind = e.kind /\ d.turn = e.turn
             /\ [d EXCEPT !.cut = TRUE] = d
  BY DEF GoodEntries, Entries
<1>4. c = [i \in 1 .. Len(s) |-> IF IsResult(s[i]) /\ IsOld(s, i) THEN [s[i] EXCEPT !.cut = TRUE] ELSE s[i]]
  BY <1>1 DEF Microcompact
<1>5. \A i \in 1 .. Len(s) :
         /\ c[i] \in GoodEntries /\ c[i].kind = s[i].kind /\ c[i].turn = s[i].turn
         /\ c[i] = s[i] \/ (IsResult(s[i]) /\ c[i] = [s[i] EXCEPT !.cut = TRUE])
  <2> HIDE DEF c
  <2> SUFFICES ASSUME NEW i \in 1 .. Len(s)
               PROVE  /\ c[i] \in GoodEntries /\ c[i].kind = s[i].kind /\ c[i].turn = s[i].turn
                      /\ c[i] = s[i] \/ (IsResult(s[i]) /\ c[i] = [s[i] EXCEPT !.cut = TRUE])
    OBVIOUS
  <2>1. CASE c[i] = s[i]
    BY <1>1, <2>1
  <2>2. CASE IsResult(s[i]) /\ c[i] = [s[i] EXCEPT !.cut = TRUE]
    BY <1>1, <1>3, <2>2
  <2> QED
    BY <1>2, <2>1, <2>2
<1>6. c \in Seq(GoodEntries) /\ Len(c) = Len(s)
  <2>1. c \in [1 .. Len(s) -> GoodEntries]
    <3> DEFINE f(i) == IF IsResult(s[i]) /\ IsOld(s, i) THEN [s[i] EXCEPT !.cut = TRUE] ELSE s[i]
    <3>1. \A i \in 1 .. Len(s) : f(i) \in GoodEntries
      <4> HIDE DEF c
      <4> QED
        BY <1>2, <1>5
    <3>2. c = [i \in 1 .. Len(s) |-> f(i)]
      BY <1>4
    <3> HIDE DEF f, c
    <3> QED
      BY <3>1, <3>2
  <2> HIDE DEF c
  <2> QED
    BY <1>1, <1>2, <2>1, IsASeq, LenProperties
<1> HIDE DEF c
<1>7. ASSUME Alike(r, s) PROVE Alike(r, c)
  <2>1. DOMAIN r = 1 .. Len(s) /\ \A i \in 1 .. Len(s) : MayBeCut(r[i], s[i]) /\ r[i] \in GoodEntries
    BY <1>1, <1>7, LenProperties, ElementOfSeq DEF Alike
  <2>2. ASSUME NEW i \in 1 .. Len(s) PROVE MayBeCut(r[i], c[i])
    <3>1. r[i] \in GoodEntries /\ (s[i] = r[i] \/ (IsResult(r[i]) /\ s[i] = [r[i] EXCEPT !.cut = TRUE]))
      BY <2>1 DEF MayBeCut
    <3>2. c[i] = s[i] \/ (IsResult(s[i]) /\ c[i] = [s[i] EXCEPT !.cut = TRUE])
      BY <1>5
    <3>3. CASE s[i] = r[i]
      BY <3>2, <3>3 DEF MayBeCut
    <3>4. CASE IsResult(r[i]) /\ s[i] = [r[i] EXCEPT !.cut = TRUE]
      <4>1. [s[i] EXCEPT !.cut = TRUE] = s[i]
        BY <1>3, <3>1, <3>4
      <4> QED
        BY <3>2, <3>4, <4>1 DEF MayBeCut
    <3> QED
      BY <3>1, <3>3, <3>4
  <2> QED
    BY <1>2, <2>1, <2>2 DEF Alike
<1>8. ASSUME AllAnswered(s) PROVE AllAnswered(c)
  <2> SUFFICES ASSUME NEW i \in 1 .. Len(s), c[i].kind = "action"
               PROVE  \E j \in 1 .. Len(s) : /\ j > i
                                             /\ IsResult(c[j]) \/ c[j].kind = "error"
                                             /\ c[j].turn = c[i].turn
    BY <1>6 DEF AllAnswered, Answered
  <2>1. PICK j \in 1 .. Len(s) : /\ j > i
                                 /\ IsResult(s[j]) \/ s[j].kind = "error"
                                 /\ s[j].turn = s[i].turn
    BY <1>5, <1>8 DEF AllAnswered, Answered
  <2>2. c[j].kind = s[j].kind /\ c[j].turn = s[j].turn /\ c[i].turn = s[i].turn
    BY <1>5
  <2> QED
    BY <2>1, <2>2 DEF IsResult
<1> QED
  BY <1>6, <1>7, <1>8 DEF c

LEMMA AnsweredTrails ==
    ASSUME NEW s, AllAnswered(s)
    PROVE  Trail(s) /\ \A t : OpenOnly(s, t)
  BY DEF AllAnswered, Trail, OpenOnly

-----------------------------------------------------------------------------
(* The histories of a transcript *)

\* Lines that say nothing of the transcript.
LEMMA PlayNone ==
    ASSUME NEW lost \in BOOLEAN, NEW items \in Seq(GoodEntries), NEW p \in Seq(GoodLines),
           \A k \in 1 .. Len(p) : Inert(p[k])
    PROVE  \E m : Played(lost, items, p, m) /\ \A k \in 0 .. Len(p) : m[k] = items
<1> DEFINE m == [k \in 0 .. Len(p) |-> items]
<1>1. Len(p) \in Nat
  BY LenProperties
<1>2. m \in [0 .. Len(p) -> Seq(GoodEntries)] /\ \A k \in 0 .. Len(p) : m[k] = items
  OBVIOUS
<1>3. \A k \in 1 .. Len(p) : k \in 0 .. Len(p) /\ k - 1 \in 0 .. Len(p) /\ Applied(items, p[k]) = items
  BY <1>1 DEF Inert, Applied
<1>4. 0 \in 0 .. Len(p)
  BY <1>1
<1> HIDE DEF m
<1>5. Played(lost, items, p, m)
  BY <1>2, <1>3, <1>4 DEF Played
<1> QED
  BY <1>2, <1>5

LEMMA PlayEmpty ==
    ASSUME NEW lost, NEW items \in Seq(GoodEntries)
    PROVE  \E m : Played(lost, items, <<>>, m) /\ \A k \in 0 .. Len(<<>>) : m[k] = items
<1> DEFINE m == [k \in 0 .. 0 |-> items]
<1>1. m \in [0 .. 0 -> Seq(GoodEntries)] /\ m[0] = items /\ Len(<<>>) = 0
  OBVIOUS
<1>2. (\A k \in 1 .. Len(<<>>) : FALSE) /\ \A k \in 0 .. Len(<<>>) : m[k] = items
  BY <1>1
<1> HIDE DEF m
<1>3. Played(lost, items, <<>>, m)
  BY <1>1, <1>2 DEF Played
<1> QED
  BY <1>2, <1>3

\* An entry, and then such lines.
LEMMA PlayOne ==
    ASSUME NEW items \in Seq(GoodEntries), NEW e \in GoodEntries, NEW p \in Seq(GoodLines),
           Len(p) >= 1, p[1] = Line("item", e), \A k \in 2 .. Len(p) : Inert(p[k])
    PROVE  \E m : /\ Played(FALSE, items, p, m) /\ m[Len(p)] = Append(items, e)
                  /\ \A k \in 0 .. Len(p) : m[k] \in {items, Append(items, e)}
<1> DEFINE r == Append(items, e)
           m == [k \in 0 .. Len(p) |-> IF k = 0 THEN items ELSE r]
<1>1. Len(p) \in Nat /\ r \in Seq(GoodEntries)
  BY LenProperties, Appending
<1>2. Applied(items, p[1]) = r
  BY DEF Applied, Line
<1>3. \A k \in 2 .. Len(p) : Applied(r, p[k]) = r
  BY DEF Applied, Inert
<1> HIDE DEF r
<1>4. m \in [0 .. Len(p) -> Seq(GoodEntries)] /\ m[0] = items /\ m[Len(p)] = r
      /\ \A k \in 0 .. Len(p) : m[k] \in {items, r}
  BY <1>1
<1>5. ASSUME NEW k \in 1 .. Len(p) PROVE m[k] = Applied(m[k - 1], p[k])
  <2>1. CASE k = 1
    BY <1>1, <1>2, <2>1
  <2>2. CASE k # 1
    <3>1. k \in 2 .. Len(p) /\ k - 1 \in 0 .. Len(p) /\ k - 1 # 0 /\ k \in 0 .. Len(p) /\ k # 0
      BY <1>1, <2>2
    <3> QED
      BY <1>3, <3>1
  <2> QED
    BY <2>1, <2>2
<1> HIDE DEF m
<1>6. Played(FALSE, items, p, m)
  BY <1>4, <1>5 DEF Played
<1> QED
  BY <1>4, <1>6 DEF r

\* Two entries, of which the first may be lost, and then such lines.
LEMMA PlayTwo ==
    ASSUME NEW lost \in BOOLEAN, NEW items \in Seq(GoodEntries),
           NEW d \in GoodEntries, NEW e \in GoodEntries, NEW p \in Seq(GoodLines),
           Len(p) >= 2, p[1] = Line("item", d), p[2] = Line("item", e),
           \A k \in 3 .. Len(p) : Inert(p[k]),
           NEW q, q = IF lost THEN items ELSE Append(items, d)
    PROVE  \E m : /\ Played(lost, items, p, m) /\ m[Len(p)] = Append(q, e)
                  /\ \A k \in 0 .. Len(p) : m[k] \in {items, q, Append(q, e)}
<1> DEFINE r == Append(q, e)
           m == [k \in 0 .. Len(p) |-> IF k = 0 THEN items ELSE IF k = 1 THEN q ELSE r]
<1>0. q \in Seq(GoodEntries)
  BY Appending
<1>1. Len(p) \in Nat /\ r \in Seq(GoodEntries)
  BY <1>0, LenProperties, Appending
<1>2. (IF lost THEN items ELSE Applied(items, p[1])) = q /\ Applied(q, p[2]) = r
  BY DEF Applied, Line
<1>3. \A k \in 3 .. Len(p) : Applied(r, p[k]) = r
  BY DEF Applied, Inert
<1> HIDE DEF r
<1>4. m \in [0 .. Len(p) -> Seq(GoodEntries)] /\ m[0] = items /\ m[1] = q /\ m[2] = r /\ m[Len(p)] = r
      /\ \A k \in 0 .. Len(p) : m[k] \in {items, q, r}
  BY <1>0, <1>1
<1>5. ASSUME NEW k \in 1 .. Len(p)
      PROVE  m[k] = IF lost /\ k = 1 THEN m[k - 1] ELSE Applied(m[k - 1], p[k])
  <2>1. CASE k = 1
    BY <1>2, <1>4, <2>1
  <2>2. CASE k = 2
    BY <1>2, <1>4, <2>2
  <2>3. CASE k # 1 /\ k # 2
    <3>1. k \in 3 .. Len(p) /\ k - 1 \in 0 .. Len(p) /\ k - 1 # 0 /\ k - 1 # 1 /\ k \in 0 .. Len(p) /\ k # 0
      BY <1>1, <2>3
    <3>2. m[k] = r /\ m[k - 1] = r
      BY <2>3, <3>1
    <3> HIDE DEF m
    <3> QED
      BY <1>3, <2>3, <3>1, <3>2
  <2> QED
    BY <2>1, <2>2, <2>3
<1> HIDE DEF m
<1>6. Played(lost, items, p, m)
  BY <1>4, <1>5 DEF Played
<1> QED
  BY <1>4, <1>6 DEF r

\* A new baseline, and then such lines.
LEMMA PlayBase ==
    ASSUME NEW items \in Seq(GoodEntries), NEW p \in Seq(GoodLines),
           Len(p) >= 1, p[1].type = "compacted", \A k \in 2 .. Len(p) : Inert(p[k])
    PROVE  \E m : /\ Played(FALSE, items, p, m) /\ m[Len(p)] = p[1].kept
                  /\ \A k \in 0 .. Len(p) : m[k] \in {items, p[1].kept}
<1> DEFINE r == p[1].kept
           m == [k \in 0 .. Len(p) |-> IF k = 0 THEN items ELSE r]
<1>1. Len(p) \in Nat
  BY LenProperties
<1>2. p[1] \in GoodLines
  BY <1>1, ElementOfSeq
<1>3. r \in Seq(GoodEntries) /\ Applied(items, p[1]) = r
  BY <1>2 DEF GoodLines, Applied
<1>4. \A k \in 2 .. Len(p) : Applied(r, p[k]) = r
  BY DEF Applied, Inert
<1> HIDE DEF r
<1>5. m \in [0 .. Len(p) -> Seq(GoodEntries)] /\ m[0] = items /\ m[Len(p)] = r
      /\ \A k \in 0 .. Len(p) : m[k] \in {items, r}
  BY <1>1, <1>3
<1>6. ASSUME NEW k \in 1 .. Len(p) PROVE m[k] = Applied(m[k - 1], p[k])
  <2>1. CASE k = 1
    BY <1>1, <1>3, <2>1
  <2>2. CASE k # 1
    <3>1. k \in 2 .. Len(p) /\ k - 1 \in 0 .. Len(p) /\ k - 1 # 0 /\ k \in 0 .. Len(p) /\ k # 0
      BY <1>1, <2>2
    <3> QED
      BY <1>4, <3>1
  <2> QED
    BY <2>1, <2>2
<1> HIDE DEF m
<1>7. Played(FALSE, items, p, m)
  BY <1>5, <1>6 DEF Played
<1> QED
  BY <1>5, <1>7 DEF r

\* One line reaches the file, and the history goes on from there.
LEMMA PlayOn ==
    ASSUME NEW lost, NEW items, NEW p \in Seq(GoodLines), p # <<>>, NEW m,
           Played(lost, items, p, m)
    PROVE  \E n : /\ Played(FALSE, m[1], Tail(p), n) /\ n[Len(Tail(p))] = m[Len(p)]
                  /\ Trails(p, m) => Trails(Tail(p), n)
<1> DEFINE q == Tail(p)
           n == [k \in 0 .. Len(q) |-> m[k + 1]]
<1>1. /\ Len(p) \in Nat /\ q \in Seq(GoodLines) /\ Len(q) = Len(p) - 1 /\ Len(q) \in Nat
      /\ \A k \in 1 .. Len(q) : q[k] = p[k + 1]
  BY HeadTailProperties, LenProperties
<1> HIDE DEF q
<1>2. n \in [0 .. Len(q) -> Seq(GoodEntries)]
  <2>1. \A k \in 0 .. Len(q) : k + 1 \in 0 .. Len(p)
    BY <1>1
  <2> QED
    BY <2>1 DEF Played
<1>3. n[0] = m[1]
  BY <1>1
<1>4. ASSUME NEW k \in 1 .. Len(q) PROVE n[k] = Applied(n[k - 1], q[k])
  <2>1. k + 1 \in 1 .. Len(p) /\ k + 1 # 1 /\ (k + 1) - 1 = k /\ k - 1 \in 0 .. Len(q)
        /\ (k - 1) + 1 = k /\ k \in 0 .. Len(q)
    BY <1>1
  <2>2. m[k + 1] = Applied(m[k], p[k + 1])
    BY <2>1 DEF Played
  <2>3. n[k] = m[k + 1] /\ n[k - 1] = m[k]
    BY <2>1
  <2> HIDE DEF n
  <2> QED
    BY <1>1, <2>2, <2>3
<1>5. n[Len(q)] = m[Len(p)]
  BY <1>1
<1>6. Trails(p, m) => Trails(q, n)
  <2>1. \A k \in 0 .. Len(q) : n[k] = m[k + 1] /\ k + 1 \in 0 .. Len(p)
    BY <1>1
  <2> HIDE DEF n
  <2> QED
    BY <2>1 DEF Trails
<1> HIDE DEF n
<1>7. Played(FALSE, m[1], q, n)
  BY <1>2, <1>3, <1>4 DEF Played
<1> QED
  BY <1>5, <1>6, <1>7 DEF q

\* The end of the session is a line that adds nothing.
LEMMA PlayEnd ==
    ASSUME NEW items, NEW p \in Seq(GoodLines), NEW m, Played(FALSE, items, p, m),
           NEW l \in GoodLines, Inert(l), Trails(p, m)
    PROVE  \E n : Played(FALSE, items, Append(p, l), n) /\ Trails(Append(p, l), n)
<1> DEFINE q == Append(p, l)
           n == [k \in 0 .. Len(q) |-> IF k = Len(q) THEN m[Len(p)] ELSE m[k]]
<1>1. /\ Len(p) \in Nat /\ Len(q) = Len(p) + 1 /\ q[Len(q)] = l
      /\ \A k \in 1 .. Len(p) : q[k] = p[k]
  BY AppendProperties, LenProperties
<1> HIDE DEF q
<1>2. \A k \in 0 .. Len(p) : k \in 0 .. Len(q) /\ k # Len(q) /\ n[k] = m[k]
  BY <1>1
<1>3. n[Len(q)] = m[Len(p)] /\ Len(p) \in 0 .. Len(p) /\ 0 \in 0 .. Len(p)
  BY <1>1
<1>4. \A k \in 0 .. Len(q) : k \in 0 .. Len(p) \/ k = Len(q)
  BY <1>1
<1>5. n \in [0 .. Len(q) -> Seq(GoodEntries)]
  BY <1>2, <1>3, <1>4 DEF Played
<1>6. ASSUME NEW k \in 1 .. Len(q) PROVE n[k] = Applied(n[k - 1], q[k])
  <2>1. CASE k \in 1 .. Len(p)
    <3>1. k \in 0 .. Len(p) /\ k - 1 \in 0 .. Len(p)
      BY <1>1, <2>1
    <3>2. n[k] = m[k] /\ n[k - 1] = m[k - 1] /\ q[k] = p[k]
      BY <1>1, <1>2, <2>1, <3>1
    <3> HIDE DEF n
    <3> QED
      BY <2>1, <3>2 DEF Played
  <2>2. CASE k = Len(q)
    <3>1. k - 1 = Len(p)
      BY <1>1, <2>2
    <3>2. n[k - 1] = m[Len(p)] /\ n[k] = m[Len(p)] /\ q[k] = l
      BY <1>1, <1>2, <1>3, <2>2, <3>1
    <3> HIDE DEF n
    <3> QED
      BY <3>2 DEF Applied, Inert
  <2> QED
    BY <1>1, <2>1, <2>2
<1>7. Trails(q, n)
  <2> HIDE DEF n
  <2> QED
    BY <1>2, <1>3, <1>4 DEF Trails
<1>8. n[0] = items
  <2> HIDE DEF n
  <2> QED
    BY <1>2, <1>3 DEF Played
<1> HIDE DEF n
<1>9. Played(FALSE, items, q, n)
  BY <1>5, <1>6, <1>8 DEF Played
<1> QED
  BY <1>7, <1>9 DEF q

-----------------------------------------------------------------------------
(* One line more in the file *)

LEMMA AppendedMarks ==
    ASSUME NEW f \in GoodFiles, NEW l \in GoodLines, Inert(l)
    PROVE  /\ Appended(f, l) \in GoodFiles
           /\ Appended(f, l).items = f.items /\ Appended(f, l).base = f.base
           /\ Appended(f, l).any = TRUE
<1>1. l.entry \in GoodEntries /\ l.type \in {"resumed", "session_meta", "started", "finished",
          "effect_committed", "turn_record", "session_end"}
  BY DEF GoodLines, Inert
<1>2. l.entry.turn \in Nat
  BY <1>1, BoundsAssumption DEF GoodEntries, Entries
<1>3. CASE l.type = "turn_record"
  <2>1. MaxOf(f.lastTurn, l.entry.turn) \in Nat /\ f.records + 1 \in Nat
    BY <1>2 DEF GoodFiles, MaxOf
  <2> QED
    BY <1>3, <2>1 DEF Appended, GoodFiles
<1>4. CASE l.type = "effect_committed"
  <2>1. l.entry.call \in Effects
    BY <1>4 DEF GoodLines
  <2> QED
    BY <1>4, <2>1 DEF Appended, GoodFiles
<1>5. CASE l.type \in {"started", "finished"}
  <2>1. <<l.entry.turn, Tool[l.entry.call]>> \in Keys
    BY <1>2, <1>5 DEF GoodLines, Keys
  <2> QED
    BY <1>5, <2>1 DEF Appended, GoodFiles
<1>6. CASE l.type \in {"resumed", "session_meta", "session_end"}
  BY <1>6 DEF Appended, GoodFiles
<1> QED
  BY <1>1, <1>3, <1>4, <1>5, <1>6

LEMMA AppendedEntry ==
    ASSUME NEW f \in GoodFiles, NEW l \in GoodLines, ~Inert(l)
    PROVE  /\ Appended(f, l) \in GoodFiles
           /\ Appended(f, l).items = Applied(f.items, l)
           /\ Appended(f, l).base = (f.base \/ l.type = "compacted")
           /\ Appended(f, l).any = TRUE
<1>1. l.entry \in GoodEntries /\ l.kept \in Seq(GoodEntries)
  BY DEF GoodLines
<1>2. CASE l.type = "item"
  <2>1. Append(f.items, l.entry) \in Seq(GoodEntries)
    BY <1>1, AppendProperties DEF GoodFiles
  <2> QED
    BY <1>2, <2>1 DEF Appended, GoodFiles, Applied
<1>3. CASE l.type = "compacted"
  BY <1>1, <1>3 DEF Appended, GoodFiles, Applied
<1> QED
  BY <1>2, <1>3 DEF Inert

LEMMA AppendedRest ==
    ASSUME NEW f \in GoodFiles, NEW l \in GoodLines
    PROVE  /\ Appended(f, l).meta = (f.meta \/ l.type = "session_meta")
           /\ Appended(f, l).effects =
                 IF l.type = "effect_committed" THEN f.effects \cup {l.entry.call} ELSE f.effects
           /\ Appended(f, l).records =
                 IF l.type = "turn_record" THEN f.records + 1 ELSE f.records
           /\ Appended(f, l).lastTurn =
                 IF l.type = "turn_record" THEN MaxOf(f.lastTurn, l.entry.turn) ELSE f.lastTurn
<1>1. CASE l.type = "item"
  BY <1>1 DEF Appended, GoodFiles
<1>2. CASE l.type \in {"compacted", "turn_record"}
  BY <1>2 DEF Appended, GoodFiles
<1>3. CASE l.type \in {"effect_committed", "started", "finished"}
  BY <1>3 DEF Appended, GoodFiles
<1>4. CASE l.type \in {"resumed", "session_meta", "session_end"}
  BY <1>4 DEF Appended, GoodFiles
<1> QED
  BY <1>1, <1>2, <1>3, <1>4 DEF GoodLines

-----------------------------------------------------------------------------
(* What the loop writes *)

LEMMA GoodEntry ==
    ASSUME NEW kind \in Kinds, NEW n \in 0 .. MaxTurns, NEW c \in Calls \cup {NoCall},
           kind = "done" => c \in Calls
    PROVE  /\ Entry(kind, n, c) \in GoodEntries
           /\ Entry(kind, n, c).kind = kind /\ Entry(kind, n, c).turn = n
           /\ Entry(kind, n, c).call = c
  BY DEF Entry, GoodEntries, Entries

LEMMA GoodItem ==
    ASSUME NEW e \in GoodEntries
    PROVE  Line("item", e) \in GoodLines /\ Line("item", e).type = "item"
<1>1. <<>> \in Seq(GoodEntries)
  BY EmptySeq
<1> QED
  BY <1>1 DEF Line, GoodLines

LEMMA GoodMark ==
    ASSUME NEW type \in {"resumed", "session_meta", "started", "finished", "effect_committed",
                         "turn_record", "session_end"},
           NEW e \in GoodEntries, type \in {"started", "finished"} => e.call \in Calls,
           type = "effect_committed" => e.call \in Effects
    PROVE  /\ Line(type, e) \in GoodLines /\ Inert(Line(type, e))
           /\ Line(type, e).type = type /\ Line(type, e).entry = e
<1>1. <<>> \in Seq(GoodEntries)
  BY EmptySeq
<1> QED
  BY <1>1 DEF Line, GoodLines, Inert

LEMMA GoodRecord ==
    ASSUME NEW n \in 0 .. MaxTurns
    PROVE  /\ TurnRecord(n) \in GoodLines /\ Inert(TurnRecord(n))
           /\ TurnRecord(n).type = "turn_record" /\ TurnRecord(n).entry.turn = n
<1>1. Entry("context", n, NoCall) \in GoodEntries /\ Entry("context", n, NoCall).turn = n
  BY GoodEntry DEF Kinds
<1> QED
  BY <1>1, GoodMark DEF TurnRecord

LEMMA GoodEnds ==
    /\ SessionEnd \in GoodLines /\ Inert(SessionEnd) /\ SessionEnd.type = "session_end"
    /\ Resumed \in GoodLines /\ Inert(Resumed) /\ Resumed.type = "resumed"
<1>1. Entry("context", 0, NoCall) \in GoodEntries
  BY GoodEntry, BoundsAssumption DEF Kinds
<1> QED
  BY <1>1, GoodMark DEF SessionEnd, Resumed

\* The lines of a step with no entry, one entry, two entries.
LEMMA LogNone ==
    ASSUME NEW ms \in Seq(GoodLines)
    PROVE  Log(<<>>, ms) = ms
<1>1. [i \in DOMAIN <<>> |-> Line("item", <<>>[i])] = <<>>
  OBVIOUS
<1> QED
  BY <1>1, ConcatEmptySeq DEF Log

LEMMA LogOne ==
    ASSUME NEW d \in GoodEntries, NEW ms \in Seq(GoodLines)
    PROVE  /\ Log(<<d>>, ms) \in Seq(GoodLines)
           /\ Len(ms) \in Nat /\ Len(Log(<<d>>, ms)) = Len(ms) + 1
           /\ Log(<<d>>, ms)[1] = Line("item", d)
           /\ \A k \in 1 .. Len(ms) : Log(<<d>>, ms)[k + 1] = ms[k]
<1> DEFINE head == [i \in DOMAIN <<d>> |-> Line("item", <<d>>[i])]
<1>1. head = <<Line("item", d)>>
  OBVIOUS
<1>2. Line("item", d) \in GoodLines
  BY GoodItem
<1>3. head \in Seq(GoodLines) /\ Len(head) = 1 /\ head[1] = Line("item", d)
  BY <1>1, <1>2
<1>4. Log(<<d>>, ms) = head \o ms
  BY DEF Log
<1> HIDE DEF head
<1> DEFINE r == head \o ms
<1>5. Len(ms) \in Nat
  BY LenProperties
<1>6. /\ r \in Seq(GoodLines) /\ Len(r) = Len(head) + Len(ms)
      /\ \A i \in 1 .. Len(head) + Len(ms) :
            r[i] = IF i <= Len(head) THEN head[i] ELSE ms[i - Len(head)]
  BY <1>3, ConcatProperties
<1> HIDE DEF r
<1>7. Len(r) = Len(ms) + 1 /\ r[1] = head[1]
  BY <1>3, <1>5, <1>6
<1>8. ASSUME NEW k \in 1 .. Len(ms) PROVE r[k + 1] = ms[k]
  <2>1. k + 1 \in 1 .. Len(head) + Len(ms) /\ ~(k + 1 <= Len(head)) /\ (k + 1) - Len(head) = k
    BY <1>3, <1>5
  <2> QED
    BY <1>6, <2>1
<1> QED
  BY <1>3, <1>4, <1>5, <1>6, <1>7, <1>8 DEF r

LEMMA LogTwo ==
    ASSUME NEW d \in GoodEntries, NEW e \in GoodEntries, NEW ms \in Seq(GoodLines)
    PROVE  /\ Log(<<d, e>>, ms) \in Seq(GoodLines)
           /\ Len(ms) \in Nat /\ Len(Log(<<d, e>>, ms)) = Len(ms) + 2
           /\ Log(<<d, e>>, ms)[1] = Line("item", d)
           /\ Log(<<d, e>>, ms)[2] = Line("item", e)
           /\ \A k \in 1 .. Len(ms) : Log(<<d, e>>, ms)[k + 2] = ms[k]
<1> DEFINE head == [i \in DOMAIN <<d, e>> |-> Line("item", <<d, e>>[i])]
<1>1. head = <<Line("item", d), Line("item", e)>>
  OBVIOUS
<1>2. Line("item", d) \in GoodLines /\ Line("item", e) \in GoodLines
  BY GoodItem
<1>3. /\ head \in Seq(GoodLines) /\ Len(head) = 2
      /\ head[1] = Line("item", d) /\ head[2] = Line("item", e)
  BY <1>1, <1>2
<1>4. Log(<<d, e>>, ms) = head \o ms
  BY DEF Log
<1> HIDE DEF head
<1> DEFINE r == head \o ms
<1>5. Len(ms) \in Nat
  BY LenProperties
<1>6. /\ r \in Seq(GoodLines) /\ Len(r) = Len(head) + Len(ms)
      /\ \A i \in 1 .. Len(head) + Len(ms) :
            r[i] = IF i <= Len(head) THEN head[i] ELSE ms[i - Len(head)]
  BY <1>3, ConcatProperties
<1> HIDE DEF r
<1>7. Len(r) = Len(ms) + 2 /\ r[1] = head[1] /\ r[2] = head[2]
  BY <1>3, <1>5, <1>6
<1>8. ASSUME NEW k \in 1 .. Len(ms) PROVE r[k + 2] = ms[k]
  <2>1. k + 2 \in 1 .. Len(head) + Len(ms) /\ ~(k + 2 <= Len(head)) /\ (k + 2) - Len(head) = k
    BY <1>3, <1>5
  <2> QED
    BY <1>6, <2>1
<1> QED
  BY <1>3, <1>4, <1>5, <1>6, <1>7, <1>8 DEF r

-----------------------------------------------------------------------------
(* The loop between two steps *)

LEMMA Settled ==
    ASSUME Inv, pending = <<>>
    PROVE  /\ file.items \in Seq(GoodEntries) /\ Trail(file.items) /\ PriorTurns \in Nat
           /\ pc # "idle" => /\ torn = FALSE /\ Closed(file.items) /\ attempts # 0
                             /\ Mirrors => Alike(file.items, transcript)
                             /\ PriorTurns >= turn - 1
<1> USE DEF Inv
<1>1. file.items \in Seq(GoodEntries) /\ file.lastTurn \in Nat /\ file.records \in Nat
  BY DEF Shapes, Stored, GoodFiles
<1>2. PICK m : /\ Played(torn, file.items, pending, m) /\ Trails(pending, m)
               /\ Closed(m[Len(pending)])
               /\ Mirrors => Alike(m[Len(pending)], transcript)
  BY DEF Answers
<1>3. Len(pending) = 0 /\ m[0] = file.items
  BY <1>2 DEF Played
<1>4. Trail(m[0]) /\ Closed(m[0]) /\ (Mirrors => Alike(m[0], transcript))
  BY <1>2, <1>3 DEF Trails
<1>5. ~RecordDue
  BY <1>3 DEF RecordDue
<1>6. pc # "idle" => torn = FALSE /\ attempts # 0
  BY DEF Fragments, Shapes, Stored
<1> QED
  BY <1>1, <1>3, <1>4, <1>5, <1>6 DEF Turns, PriorTurns

\* A model turn that is paid for.
LEMMA Paid ==
    ASSUME Inv, pending = <<>>, pc \in Live, UNCHANGED <<caller, file, attempts>>,
           asked' = asked \/ (pc = "call" /\ asked' = asked + 1)
    PROVE  /\ PriorTurns' = PriorTurns /\ asked' \in Nat
           /\ asked' <= PriorTurns + attempts /\ TurnBudgetHolds'
           /\ asked' # asked => asked' + 1 <= turn + attempts
<1>1. PriorTurns' = PriorTurns
  BY DEF PriorTurns
<1>2. PriorTurns \in Nat /\ PriorTurns >= turn - 1
  BY Settled DEF Live
<1>3. turn \in Nat /\ attempts \in Nat /\ asked \in Nat /\ MaxTurns \in Nat
  BY BoundsAssumption DEF Inv, Shapes, Stored, Held
<1>4. pc = "call" => turn <= MaxTurns /\ asked + 2 <= turn + attempts
  BY DEF Inv, Shapes, Held, Turns, Asking
<1>5. asked <= PriorTurns + attempts /\ asked < MaxTurns + attempts /\ attempts' = attempts
  BY DEF Inv, Turns, TurnBudgetHolds
<1> QED
  BY <1>1, <1>2, <1>3, <1>4, <1>5 DEF TurnBudgetHolds

LEMMA Finishes ==
    ASSUME Inv, pending = <<>>, pc \in Live, UNCHANGED External,
           asked' = asked \/ (pc = "call" /\ asked' = asked + 1),
           NEW p \in Seq(GoodLines), Finish(p),
           \A k \in 1 .. Len(p) : p[k].type \notin {"effect_committed", "session_meta"},
           NEW m, Played(FALSE, file.items, p, m), Trails(p, m)
    PROVE  Inv'
<1> DEFINE q == Append(p, SessionEnd)
<1>1. /\ q \in Seq(GoodLines) /\ Len(p) \in Nat /\ Len(q) = Len(p) + 1
      /\ \A k \in 1 .. Len(q) : q[k].type \notin {"effect_committed", "session_meta"}
  <2>1. q \in Seq(GoodLines) /\ Len(p) \in Nat /\ Len(q) = Len(p) + 1
    BY GoodEnds, AppendProperties, LenProperties
  <2>2. q[Len(p) + 1] = SessionEnd /\ \A k \in 1 .. Len(p) : q[k] = p[k]
    BY GoodEnds, AppendProperties
  <2> HIDE DEF q
  <2>3. \A k \in 1 .. Len(q) : k \in 1 .. Len(p) \/ k = Len(p) + 1
    BY <2>1
  <2> QED
    BY <2>1, <2>2, <2>3, GoodEnds
<1>2. PICK n : Played(FALSE, file.items, q, n) /\ Trails(q, n)
  BY GoodEnds, PlayEnd
<1> HIDE DEF q
<1>3. pending' = q /\ pc' = "idle" /\ transcript' = <<>> /\ turn' = 0 /\ effects' = {}
      /\ invalid' = 0 /\ reasks' = 0 /\ call' = NoCall
  BY DEF Finish, Forget, q
<1>4. caller' = caller /\ file' = file /\ torn' = FALSE /\ attempts' = attempts /\ ran' = ran
      /\ attempts # 0
  BY Settled DEF External, Live
<1>5. Shapes'
  <2>1. Stored'
    BY <1>4 DEF Inv, Shapes, Stored
  <2>2. transcript' \in Seq(GoodEntries) /\ asked' \in Nat
    BY <1>3, <1>4, Paid, EmptySeq
  <2>3. Held'
    BY <1>1, <1>3, <1>4, <2>2, BoundsAssumption DEF Inv, Shapes, Held, InTool
  <2> QED
    BY <2>1, <2>3 DEF Shapes
<1>6. Fragments'
  BY <1>1, <1>3, <1>4 DEF Fragments
<1>7. Ledger'
  <2>1. call' \notin Effects
    BY <1>3, CallsAssumption DEF Calls
  <2> QED
    BY <1>1, <1>3, <1>4, <2>1 DEF Inv, Ledger
<1>8. Turns'
  BY <1>3, <1>4, Paid DEF Turns, Asking, InTool
<1>9. Answers'
  <2>1. ~Mirrors' /\ \A s : Closed(s)'
    BY <1>3 DEF Mirrors, Closed, Asking, InTool
  <2> QED
    BY <1>2, <1>3, <1>4, <2>1 DEF Answers
<1> QED
  BY <1>5, <1>6, <1>7, <1>8, <1>9 DEF Inv

LEMMA NextTurns ==
    ASSUME Inv, pending = <<>>, pc \in {"call", "tool", "exec"},
           UNCHANGED <<caller, file, torn, attempts>>, NextTurn,
           asked' = IF pc = "call" THEN asked + 1 ELSE asked,
           NEW p \in Seq(GoodLines), pending' = p,
           transcript' \in Seq(GoodEntries), AllAnswered(transcript'),
           effects \subseteq effects', effects' \subseteq Calls,
           invalid' \in 0 .. MaxInvalid - 1, reasks' \in 0 .. MaxReasks,
           ran' \in [Effects -> Nat],
           \E k \in 1 .. Len(p) : p[k].type = "turn_record" /\ p[k].entry.turn = turn,
           \A k \in 1 .. Len(p) :
               /\ p[k].type # "session_meta"
               /\ p[k].type = "effect_committed" => caller = "refine" /\ p[k].entry.call \in effects',
           NEW m, Played(FALSE, file.items, p, m), Trails(p, m), AllAnswered(m[Len(p)]),
           Mirrors => Alike(m[Len(p)], transcript')
    PROVE  Inv'
<1>1. pc' = "loop" /\ turn' = turn + 1 /\ call' = NoCall /\ turn \in Nat
  BY DEF NextTurn, Inv, Shapes, Held
<1>2. torn' = FALSE /\ attempts # 0 /\ PriorTurns \in Nat /\ PriorTurns >= turn - 1 /\ pc \in Live
  BY Settled DEF Live
<1>3. PriorTurns' = PriorTurns /\ asked' \in Nat /\ asked' <= PriorTurns + attempts
      /\ TurnBudgetHolds' /\ (asked' # asked => asked' + 1 <= turn + attempts)
  BY <1>2, Paid
<1>4. Shapes'
  <2>1. Stored'
    BY DEF Inv, Shapes, Stored
  <2>2. Held'
    BY <1>1, <1>3 DEF Held, Live, InTool
  <2> QED
    BY <2>1, <2>2 DEF Shapes
<1>5. Fragments'
  BY <1>1, <1>2 DEF Fragments
<1>6. Ledger'
  <2>1. call' \notin Effects
    BY <1>1, CallsAssumption DEF Calls
  <2>2. file'.effects \subseteq effects' /\ (caller' = "conversation" => file'.effects = {})
    BY <1>2 DEF Inv, Ledger, Live
  <2> QED
    BY <1>1, <2>1, <2>2 DEF Ledger
<1>7. Turns'
  <2>1. attempts \in Nat /\ asked \in Nat
    BY DEF Inv, Shapes, Stored, Held
  <2>2. asked' + 2 <= turn' + attempts'
    <3>1. pc # "call" => asked + 1 <= turn + attempts
      BY DEF Inv, Turns, InTool
    <3>2. pc = "call" => asked + 2 <= turn + attempts
      BY DEF Inv, Turns, Asking
    <3> QED
      BY <1>1, <1>3, <2>1, <3>1, <3>2
  <2>3. RecordDue'
    <3>1. PICK k \in 1 .. Len(p) : p[k].type = "turn_record" /\ p[k].entry.turn = turn
      OBVIOUS
    <3>2. turn >= turn' - 1
      BY <1>1
    <3> QED
      BY <3>1, <3>2 DEF RecordDue
  <2>4. PriorTurns' >= turn' - 2
    BY <1>1, <1>2, <1>3
  <2> QED
    BY <1>1, <1>2, <1>3, <2>2, <2>3, <2>4 DEF Turns, Asking, InTool
<1>8. Answers'
  <2>1. Mirrors' => Mirrors
    BY <1>2 DEF Mirrors, Live
  <2>2. Closed(transcript)' /\ Closed(m[Len(p)])'
    BY <1>1 DEF Closed, Asking, InTool
  <2> QED
    BY <1>2, <2>1, <2>2 DEF Answers
<1> QED
  BY <1>4, <1>5, <1>6, <1>7, <1>8 DEF Inv

LEMMA GoesOn ==
    ASSUME Inv, pending = <<>>, pc \in Live, pc' \in {"gate", "call", "tool", "exec"},
           UNCHANGED <<caller, file, torn, attempts, turn, effects, reasks, ran>>,
           asked' = asked \/ (pc = "call" /\ pc' \in InTool /\ asked' = asked + 1),
           pc' \in Asking => pc \in Asking, turn <= MaxTurns,
           invalid' \in 0 .. MaxInvalid - 1, call' \in Calls \cup {NoCall},
           pc' \in InTool => call' \in Calls,
           caller = "conversation" => call' \notin Effects,
           pc' = "exec" => call' \notin Effects \cap effects,
           NEW p \in Seq(GoodLines), pending' = p,
           \A k \in 1 .. Len(p) : p[k].type \notin {"session_meta", "effect_committed"},
           transcript' \in Seq(GoodEntries),
           NEW m, Played(FALSE, file.items, p, m), Trails(p, m),
           pc' \in Asking => AllAnswered(transcript') /\ AllAnswered(m[Len(p)]),
           pc' \in InTool => OpenOnly(transcript', turn) /\ OpenOnly(m[Len(p)], turn),
           Mirrors => Alike(m[Len(p)], transcript')
    PROVE  Inv'
<1>1. torn' = FALSE /\ attempts # 0 /\ PriorTurns \in Nat /\ PriorTurns >= turn - 1 /\ pc # "idle"
      /\ pc' # "idle"
  BY Settled DEF Live
<1>2. PriorTurns' = PriorTurns /\ asked' \in Nat /\ asked' <= PriorTurns + attempts
      /\ TurnBudgetHolds' /\ (asked' # asked => asked' + 1 <= turn + attempts)
  BY Paid
<1>3. Shapes'
  <2>1. Stored'
    BY DEF Inv, Shapes, Stored
  <2>2. /\ turn' \in Nat /\ effects' \subseteq Calls /\ ran' \in [Effects -> Nat]
        /\ reasks' \in 0 .. MaxReasks /\ turn' >= 1
    BY <1>1 DEF Inv, Shapes, Held
  <2>3. Held'
    BY <1>2, <2>2 DEF Held, Live
  <2> QED
    BY <2>1, <2>3 DEF Shapes
<1>4. Fragments'
  BY <1>1 DEF Fragments
<1>5. Ledger'
  BY <1>1 DEF Inv, Ledger
<1>6. Turns'
  <2>1. attempts \in Nat /\ asked \in Nat /\ turn \in Nat
    BY DEF Inv, Shapes, Stored, Held
  <2>2. pc' \in Asking => asked' = asked /\ asked' + 2 <= turn' + attempts'
    BY DEF Inv, Turns, Asking, InTool
  <2>3. pc' \in InTool => asked' + 1 <= turn' + attempts'
    <3>1. pc \in Asking => asked + 2 <= turn + attempts
      BY DEF Inv, Turns
    <3>2. pc \notin Asking => asked + 1 <= turn + attempts
      BY DEF Inv, Turns, Live, Asking, InTool
    <3>3. asked + 1 <= turn + attempts
      BY <2>1, <3>1, <3>2
    <3>4. asked' + 1 <= turn + attempts
      BY <1>2, <3>3
    <3> QED
      BY <3>4
  <2> QED
    BY <1>1, <1>2, <2>2, <2>3 DEF Turns
<1>7. Answers'
  <2>1. Mirrors' => Mirrors
    BY <1>1 DEF Mirrors
  <2>2. Closed(transcript)' /\ Closed(m[Len(p)])'
    BY DEF Closed
  <2> QED
    BY <1>1, <2>1, <2>2 DEF Answers
<1> QED
  BY <1>3, <1>4, <1>5, <1>6, <1>7 DEF Inv

-----------------------------------------------------------------------------
(* One entry and marks behind it; two entries and marks behind them *)

LEMMA WriteOne ==
    ASSUME Inv, pending = <<>>, pc \in Live, NEW d \in GoodEntries, NEW ms \in Seq(GoodLines),
           \A k \in 1 .. Len(ms) : Inert(ms[k])
    PROVE  \E m : LET p == Log(<<d>>, ms) IN
              /\ p \in Seq(GoodLines) /\ Played(FALSE, file.items, p, m)
              /\ m[Len(p)] = Append(file.items, d)
              /\ Trail(Append(file.items, d)) => Trails(p, m)
              /\ transcript \o <<d>> = Append(transcript, d)
              /\ Append(transcript, d) \in Seq(GoodEntries)
              /\ Mirrors => Alike(m[Len(p)], transcript \o <<d>>)
              /\ \A k \in 1 .. Len(p) : p[k] = Line("item", d) \/ \E j \in 1 .. Len(ms) : p[k] = ms[j]
              /\ \A j \in 1 .. Len(ms) : \E k \in 1 .. Len(p) : p[k] = ms[j]
<1> DEFINE p == Log(<<d>>, ms)
<1>1. /\ p \in Seq(GoodLines) /\ Len(ms) \in Nat /\ Len(p) = Len(ms) + 1
      /\ p[1] = Line("item", d) /\ \A k \in 1 .. Len(ms) : p[k + 1] = ms[k]
  BY LogOne
<1> HIDE DEF p
<1>2. ASSUME NEW k \in 2 .. Len(p)
      PROVE  k - 1 \in 1 .. Len(ms) /\ p[k] = ms[k - 1]
  <2>1. k - 1 \in 1 .. Len(ms) /\ (k - 1) + 1 = k
    BY <1>1
  <2> QED
    BY <1>1, <2>1
<1>3. file.items \in Seq(GoodEntries) /\ Trail(file.items) /\ (Mirrors => Alike(file.items, transcript))
  BY Settled DEF Live
<1>4. PICK m : /\ Played(FALSE, file.items, p, m) /\ m[Len(p)] = Append(file.items, d)
               /\ \A k \in 0 .. Len(p) : m[k] \in {file.items, Append(file.items, d)}
  <2>0. Len(p) >= 1
    BY <1>1
  <2>1. \A k \in 2 .. Len(p) : Inert(p[k])
    BY <1>2
  <2> QED
    BY <1>1, <1>3, <2>0, <2>1, PlayOne
<1>5. Trail(Append(file.items, d)) => Trails(p, m)
  BY <1>3, <1>4 DEF Trails
<1>6. transcript \o <<d>> = Append(transcript, d) /\ Append(transcript, d) \in Seq(GoodEntries)
  <2>1. transcript \in Seq(GoodEntries)
    BY DEF Inv, Shapes, Held
  <2> QED
    BY <2>1, Appending
<1>7. Mirrors => Alike(m[Len(p)], transcript \o <<d>>)
  <2>1. transcript \in Seq(GoodEntries)
    BY DEF Inv, Shapes, Held
  <2> QED
    BY <1>3, <1>4, <1>6, <2>1, AlikeAppended
<1>8. \A k \in 1 .. Len(p) : p[k] = Line("item", d) \/ \E j \in 1 .. Len(ms) : p[k] = ms[j]
  <2> SUFFICES ASSUME NEW k \in 1 .. Len(p), k # 1
               PROVE  \E j \in 1 .. Len(ms) : p[k] = ms[j]
    BY <1>1
  <2>1. k \in 2 .. Len(p)
    BY <1>1
  <2> QED
    BY <1>2, <2>1
<1>9. \A j \in 1 .. Len(ms) : \E k \in 1 .. Len(p) : p[k] = ms[j]
  <2>1. \A j \in 1 .. Len(ms) : j + 1 \in 1 .. Len(p)
    BY <1>1
  <2> QED
    BY <1>1, <2>1
<1> QED
  BY <1>1, <1>4, <1>5, <1>6, <1>7, <1>8, <1>9 DEF p

LEMMA WriteTwo ==
    ASSUME Inv, pending = <<>>, pc \in Live, NEW d \in GoodEntries, NEW e \in GoodEntries,
           NEW ms \in Seq(GoodLines), \A k \in 1 .. Len(ms) : Inert(ms[k])
    PROVE  \E m : LET p == Log(<<d, e>>, ms)
                      one == Append(file.items, d) IN
              /\ p \in Seq(GoodLines) /\ Played(FALSE, file.items, p, m)
              /\ one \in Seq(GoodEntries)
              /\ m[Len(p)] = Append(one, e)
              /\ Trail(one) /\ Trail(Append(one, e)) => Trails(p, m)
              /\ transcript \o <<d, e>> = Append(Append(transcript, d), e)
              /\ Append(transcript, d) \in Seq(GoodEntries)
              /\ Append(Append(transcript, d), e) \in Seq(GoodEntries)
              /\ Mirrors => Alike(m[Len(p)], transcript \o <<d, e>>)
              /\ \A k \in 1 .. Len(p) : p[k] \in {Line("item", d), Line("item", e)}
                                         \/ \E j \in 1 .. Len(ms) : p[k] = ms[j]
              /\ \A j \in 1 .. Len(ms) : \E k \in 1 .. Len(p) : p[k] = ms[j]
<1> DEFINE p == Log(<<d, e>>, ms)
           one == Append(file.items, d)
<1>1. /\ p \in Seq(GoodLines) /\ Len(ms) \in Nat /\ Len(p) = Len(ms) + 2
      /\ p[1] = Line("item", d) /\ p[2] = Line("item", e)
      /\ \A k \in 1 .. Len(ms) : p[k + 2] = ms[k]
  BY LogTwo
<1> HIDE DEF p
<1>2. ASSUME NEW k \in 3 .. Len(p)
      PROVE  k - 2 \in 1 .. Len(ms) /\ p[k] = ms[k - 2]
  <2>1. k - 2 \in 1 .. Len(ms) /\ (k - 2) + 2 = k
    BY <1>1
  <2> QED
    BY <1>1, <2>1
<1>3. file.items \in Seq(GoodEntries) /\ Trail(file.items) /\ (Mirrors => Alike(file.items, transcript))
  BY Settled DEF Live
<1>4. one \in Seq(GoodEntries)
  BY <1>3, Appending
<1> HIDE DEF one
<1>5. PICK m : /\ Played(FALSE, file.items, p, m) /\ m[Len(p)] = Append(one, e)
               /\ \A k \in 0 .. Len(p) : m[k] \in {file.items, one, Append(one, e)}
  <2>0. Len(p) >= 2
    BY <1>1
  <2>1. \A k \in 3 .. Len(p) : Inert(p[k])
    BY <1>2
  <2>2. one = IF FALSE THEN file.items ELSE Append(file.items, d)
    BY DEF one
  <2> QED
    BY <1>1, <1>3, <2>0, <2>1, <2>2, PlayTwo
<1>6. Trail(one) /\ Trail(Append(one, e)) => Trails(p, m)
  BY <1>3, <1>5 DEF Trails
<1>7. /\ transcript \o <<d, e>> = Append(Append(transcript, d), e)
      /\ Append(transcript, d) \in Seq(GoodEntries)
      /\ Append(Append(transcript, d), e) \in Seq(GoodEntries)
  <2>1. transcript \in Seq(GoodEntries)
    BY DEF Inv, Shapes, Held
  <2>2. Append(transcript, d) \in Seq(GoodEntries)
    BY <2>1, Appending
  <2>3. Append(Append(transcript, d), e) \in Seq(GoodEntries)
    BY <2>2, Appending
  <2>4. transcript \o <<d, e>> = Append(Append(transcript, d), e)
    BY <2>1
  <2> QED
    BY <2>2, <2>3, <2>4
<1>8. Mirrors => Alike(m[Len(p)], transcript \o <<d, e>>)
  <2>1. transcript \in Seq(GoodEntries)
    BY DEF Inv, Shapes, Held
  <2>2. Mirrors => Alike(one, Append(transcript, d))
    BY <1>3, <2>1, AlikeAppended DEF one
  <2> QED
    BY <1>4, <1>5, <1>7, <2>2, AlikeAppended
<1>9. \A k \in 1 .. Len(p) : p[k] \in {Line("item", d), Line("item", e)}
                              \/ \E j \in 1 .. Len(ms) : p[k] = ms[j]
  <2> SUFFICES ASSUME NEW k \in 1 .. Len(p), k # 1, k # 2
               PROVE  \E j \in 1 .. Len(ms) : p[k] = ms[j]
    BY <1>1
  <2>1. k \in 3 .. Len(p)
    BY <1>1
  <2> QED
    BY <1>2, <2>1
<1>10. \A j \in 1 .. Len(ms) : \E k \in 1 .. Len(p) : p[k] = ms[j]
  <2>1. \A j \in 1 .. Len(ms) : j + 2 \in 1 .. Len(p)
    BY <1>1
  <2> QED
    BY <1>1, <2>1
<1> QED
  BY <1>1, <1>4, <1>5, <1>6, <1>7, <1>8, <1>9, <1>10 DEF p, one

-----------------------------------------------------------------------------
(* How a step of the loop ends: with the session, or with the next turn *)

LEMMA FinishesAtOnce ==
    ASSUME Inv, pending = <<>>, pc \in Live, UNCHANGED External, Finish(<<>>),
           asked' = asked \/ (pc = "call" /\ asked' = asked + 1)
    PROVE  Inv'
<1>1. <<>> \in Seq(GoodLines) /\ \A k \in 1 .. Len(<<>>) : FALSE
  BY EmptySeq
<1>2. file.items \in Seq(GoodEntries) /\ Trail(file.items)
  BY Settled
<1>3. PICK m : Played(FALSE, file.items, <<>>, m) /\ \A k \in 0 .. Len(<<>>) : m[k] = file.items
  BY <1>1, <1>2, PlayNone
<1>4. Trails(<<>>, m)
  BY <1>2, <1>3 DEF Trails
<1> QED
  BY <1>1, <1>3, <1>4, Finishes

LEMMA FinishesOne ==
    ASSUME Inv, pending = <<>>, pc \in Live, UNCHANGED External,
           asked' = asked \/ (pc = "call" /\ asked' = asked + 1),
           NEW d \in GoodEntries, d.kind # "action", NEW ms \in Seq(GoodLines),
           \A k \in 1 .. Len(ms) : ms[k].type = "turn_record",
           Finish(Log(<<d>>, ms))
    PROVE  Inv'
<1> DEFINE p == Log(<<d>>, ms)
<1>1. \A k \in 1 .. Len(ms) : Inert(ms[k])
  BY DEF Inert
<1>2. PICK m : /\ p \in Seq(GoodLines) /\ Played(FALSE, file.items, p, m)
               /\ Trail(Append(file.items, d)) => Trails(p, m)
               /\ \A k \in 1 .. Len(p) : p[k] = Line("item", d) \/ \E j \in 1 .. Len(ms) : p[k] = ms[j]
  BY <1>1, WriteOne
<1>3. Trail(Append(file.items, d))
  BY Settled, AppendOther
<1>4. Finish(p)
  OBVIOUS
<1> HIDE DEF p
<1>5. \A k \in 1 .. Len(p) : p[k].type \notin {"effect_committed", "session_meta"}
  BY <1>2, GoodItem
<1> QED
  BY <1>2, <1>3, <1>4, <1>5, Finishes

LEMMA FinishesTwo ==
    ASSUME Inv, pending = <<>>, pc = "call", UNCHANGED External, asked' = asked + 1,
           NEW d \in GoodEntries, NEW e \in GoodEntries, d.turn = turn, e.turn = turn,
           e.kind = "error", NEW ms \in Seq(GoodLines),
           \A k \in 1 .. Len(ms) : ms[k].type = "turn_record",
           Finish(Log(<<d, e>>, ms))
    PROVE  Inv'
<1> DEFINE p == Log(<<d, e>>, ms)
           one == Append(file.items, d)
<1>1. (\A k \in 1 .. Len(ms) : Inert(ms[k])) /\ pc \in Live
  BY DEF Inert, Live
<1>2. PICK m : /\ p \in Seq(GoodLines) /\ Played(FALSE, file.items, p, m)
               /\ one \in Seq(GoodEntries)
               /\ Trail(one) /\ Trail(Append(one, e)) => Trails(p, m)
               /\ \A k \in 1 .. Len(p) : p[k] \in {Line("item", d), Line("item", e)}
                                          \/ \E j \in 1 .. Len(ms) : p[k] = ms[j]
  BY <1>1, WriteTwo
<1>3. file.items \in Seq(GoodEntries) /\ AllAnswered(file.items)
  BY Settled DEF Closed, Asking
<1>4. Trail(one)
  BY <1>3, AppendAction
<1> HIDE DEF one
<1>5. Trail(Append(one, e))
  BY <1>2, <1>4, AppendOther
<1>6. Finish(p)
  OBVIOUS
<1> HIDE DEF p
<1>7. \A k \in 1 .. Len(p) : p[k].type \notin {"effect_committed", "session_meta"}
  BY <1>2, GoodItem
<1> QED
  BY <1>1, <1>2, <1>4, <1>5, <1>6, <1>7, Finishes

\* The answer to the action of this turn, or to none.
LEMMA AnswersOne ==
    ASSUME Inv, pending = <<>>, pc \in {"call", "tool", "exec"},
           UNCHANGED <<caller, file, torn, attempts>>, NextTurn,
           asked' = IF pc = "call" THEN asked + 1 ELSE asked,
           effects \subseteq effects', effects' \subseteq Calls,
           invalid' \in 0 .. MaxInvalid - 1, reasks' \in 0 .. MaxReasks,
           ran' \in [Effects -> Nat],
           NEW d \in GoodEntries, IsResult(d) \/ d.kind = "error", d.turn = turn,
           NEW ms \in Seq(GoodLines), \A k \in 1 .. Len(ms) : Inert(ms[k]),
           \E k \in 1 .. Len(ms) : ms[k] = TurnRecord(turn),
           \A k \in 1 .. Len(ms) :
               /\ ms[k].type # "session_meta"
               /\ ms[k].type = "effect_committed" => caller = "refine" /\ ms[k].entry.call \in effects',
           Write(<<d>>, ms)
    PROVE  Inv'
<1> DEFINE p == Log(<<d>>, ms)
<1>0. pc \in Live /\ turn \in 0 .. MaxTurns
  BY DEF Live, Inv, Shapes, Held
<1>1. PICK m : /\ p \in Seq(GoodLines) /\ Played(FALSE, file.items, p, m)
               /\ m[Len(p)] = Append(file.items, d)
               /\ Trail(Append(file.items, d)) => Trails(p, m)
               /\ transcript \o <<d>> = Append(transcript, d)
               /\ Append(transcript, d) \in Seq(GoodEntries)
               /\ Mirrors => Alike(m[Len(p)], transcript \o <<d>>)
               /\ \A k \in 1 .. Len(p) : p[k] = Line("item", d) \/ \E j \in 1 .. Len(ms) : p[k] = ms[j]
               /\ \A j \in 1 .. Len(ms) : \E k \in 1 .. Len(p) : p[k] = ms[j]
  BY <1>0, WriteOne
<1>2. pending' = p /\ transcript' = Append(transcript, d)
  BY <1>1 DEF Write
<1> HIDE DEF p
<1>3. ASSUME NEW s \in Seq(GoodEntries), Closed(s) PROVE AllAnswered(Append(s, d))
  <2>1. OpenOnly(s, turn)
    BY <1>3, AnsweredTrails DEF Closed, Asking, InTool
  <2> QED
    BY <2>1, AppendAnswer
<1>4. AllAnswered(Append(file.items, d)) /\ AllAnswered(transcript')
  <2>1. file.items \in Seq(GoodEntries) /\ Closed(file.items)
    BY <1>0, Settled DEF Live
  <2>2. transcript \in Seq(GoodEntries) /\ Closed(transcript)
    BY DEF Inv, Shapes, Held, Answers
  <2> QED
    BY <1>2, <1>3, <2>1, <2>2
<1>5. Trails(p, m)
  BY <1>1, <1>4, AnsweredTrails
<1>6. \E k \in 1 .. Len(p) : p[k].type = "turn_record" /\ p[k].entry.turn = turn
  <2>1. PICK j \in 1 .. Len(ms) : ms[j] = TurnRecord(turn)
    OBVIOUS
  <2>2. PICK k \in 1 .. Len(p) : p[k] = ms[j]
    BY <1>1
  <2>3. TurnRecord(turn).type = "turn_record" /\ TurnRecord(turn).entry.turn = turn
    BY <1>0, GoodRecord
  <2> QED
    BY <2>1, <2>2, <2>3
<1>7. \A k \in 1 .. Len(p) :
         /\ p[k].type # "session_meta"
         /\ p[k].type = "effect_committed" => caller = "refine" /\ p[k].entry.call \in effects'
  BY <1>1, GoodItem
<1>8. /\ transcript' \in Seq(GoodEntries) /\ AllAnswered(m[Len(p)])
      /\ Mirrors => Alike(m[Len(p)], transcript')
  BY <1>1, <1>2, <1>4
<1> QED
  BY <1>1, <1>2, <1>4, <1>5, <1>6, <1>7, <1>8, NextTurns

\* An action that is refused at once, with its answer.
LEMMA AnswersTwo ==
    ASSUME Inv, pending = <<>>, pc = "call",
           UNCHANGED <<caller, file, torn, attempts>>, NextTurn, asked' = asked + 1,
           effects' = effects, ran' = ran,
           invalid' \in 0 .. MaxInvalid - 1, reasks' \in 0 .. MaxReasks,
           NEW d \in GoodEntries, NEW e \in GoodEntries, d.turn = turn, e.turn = turn,
           e.kind = "error", Write(<<d, e>>, <<TurnRecord(turn)>>)
    PROVE  Inv'
<1> DEFINE ms == <<TurnRecord(turn)>>
           p == Log(<<d, e>>, ms)
           one == Append(file.items, d)
<1>0. pc \in Live /\ turn \in 0 .. MaxTurns
  BY DEF Live, Inv, Shapes, Held
<1>1. /\ ms \in Seq(GoodLines) /\ Len(ms) = 1 /\ ms[1] = TurnRecord(turn)
      /\ TurnRecord(turn) \in GoodLines /\ Inert(TurnRecord(turn))
      /\ TurnRecord(turn).type = "turn_record" /\ TurnRecord(turn).entry.turn = turn
  BY <1>0, GoodRecord
<1>2. \A k \in 1 .. Len(ms) : ms[k] = TurnRecord(turn)
  BY <1>1
<1> HIDE DEF ms
<1>3. PICK m : /\ p \in Seq(GoodLines) /\ Played(FALSE, file.items, p, m)
               /\ one \in Seq(GoodEntries)
               /\ m[Len(p)] = Append(one, e)
               /\ Trail(one) /\ Trail(Append(one, e)) => Trails(p, m)
               /\ transcript \o <<d, e>> = Append(Append(transcript, d), e)
               /\ Append(transcript, d) \in Seq(GoodEntries)
               /\ Append(Append(transcript, d), e) \in Seq(GoodEntries)
               /\ Mirrors => Alike(m[Len(p)], transcript \o <<d, e>>)
               /\ \A k \in 1 .. Len(p) : p[k] \in {Line("item", d), Line("item", e)}
                                          \/ \E j \in 1 .. Len(ms) : p[k] = ms[j]
               /\ \A j \in 1 .. Len(ms) : \E k \in 1 .. Len(p) : p[k] = ms[j]
  <2>1. \A k \in 1 .. Len(ms) : Inert(ms[k])
    BY <1>1, <1>2
  <2> QED
    BY <1>0, <1>1, <2>1, WriteTwo
<1>4. pending' = p /\ transcript' = Append(Append(transcript, d), e)
  BY <1>3 DEF Write, ms
<1> HIDE DEF p
<1>5. ASSUME NEW s \in Seq(GoodEntries), Closed(s)
      PROVE  Trail(Append(s, d)) /\ AllAnswered(Append(Append(s, d), e))
  <2>1. AllAnswered(s)
    BY <1>5 DEF Closed, Asking
  <2>2. Append(s, d) \in Seq(GoodEntries)
    BY Appending
  <2>3. Trail(Append(s, d)) /\ OpenOnly(Append(s, d), e.turn)
    BY <2>1, AppendAction
  <2> QED
    BY <2>2, <2>3, AppendAnswer
<1>6. Trail(one) /\ AllAnswered(Append(one, e)) /\ AllAnswered(transcript')
  <2>1. file.items \in Seq(GoodEntries) /\ Closed(file.items)
    BY <1>0, Settled DEF Live
  <2>2. transcript \in Seq(GoodEntries) /\ Closed(transcript)
    BY DEF Inv, Shapes, Held, Answers
  <2> QED
    BY <1>4, <1>5, <2>1, <2>2
<1> HIDE DEF one
<1>7. Trails(p, m)
  BY <1>3, <1>6, AnsweredTrails
<1>8. \E k \in 1 .. Len(p) : p[k].type = "turn_record" /\ p[k].entry.turn = turn
  <2>1. PICK k \in 1 .. Len(p) : p[k] = ms[1]
    BY <1>1, <1>3
  <2> QED
    BY <1>1, <2>1
<1>9. \A k \in 1 .. Len(p) :
         /\ p[k].type # "session_meta"
         /\ p[k].type = "effect_committed" => caller = "refine" /\ p[k].entry.call \in effects'
  BY <1>1, <1>2, <1>3, GoodItem
<1>10. /\ transcript' \in Seq(GoodEntries) /\ AllAnswered(m[Len(p)])
       /\ Mirrors => Alike(m[Len(p)], transcript')
  BY <1>3, <1>4, <1>6
<1>11. effects' \subseteq Calls /\ ran' \in [Effects -> Nat] /\ effects \subseteq effects'
  BY DEF Inv, Shapes, Held
<1> QED
  BY <1>3, <1>4, <1>6, <1>7, <1>8, <1>9, <1>10, <1>11, NextTurns

-----------------------------------------------------------------------------
(* The steps of the loop that end a turn *)

LEMMA OneRecord ==
    ASSUME NEW n \in 0 .. MaxTurns
    PROVE  /\ <<TurnRecord(n)>> \in Seq(GoodLines) /\ Len(<<TurnRecord(n)>>) = 1
           /\ \A k \in 1 .. Len(<<TurnRecord(n)>>) :
                 /\ <<TurnRecord(n)>>[k] = TurnRecord(n)
                 /\ <<TurnRecord(n)>>[k].type = "turn_record"
                 /\ Inert(<<TurnRecord(n)>>[k])
           /\ \E k \in 1 .. Len(<<TurnRecord(n)>>) : <<TurnRecord(n)>>[k] = TurnRecord(n)
<1> DEFINE ms == <<TurnRecord(n)>>
<1>1. ms \in Seq(GoodLines) /\ Len(ms) = 1 /\ ms[1] = TurnRecord(n)
  BY GoodRecord
<1> HIDE DEF ms
<1>2. \A k \in 1 .. Len(ms) : k = 1
  BY <1>1
<1>3. 1 \in 1 .. Len(ms)
  BY <1>1
<1>4. \A k \in 1 .. Len(ms) : ms[k] = TurnRecord(n) /\ ms[k].type = "turn_record" /\ Inert(ms[k])
  BY <1>1, <1>2, GoodRecord
<1> QED
  BY <1>1, <1>3, <1>4 DEF ms

LEMMA InvalidAnswer ==
    ASSUME Inv, pending = <<>>, pc \in {"call", "tool"}, UNCHANGED External,
           asked' = IF pc = "call" THEN asked + 1 ELSE asked,
           NEW d \in GoodEntries, IsResult(d) \/ d.kind = "error", d.turn = turn,
           Invalid(<<d>>, <<TurnRecord(turn)>>)
    PROVE  Inv'
<1>1. pc \in Live /\ turn \in 0 .. MaxTurns /\ invalid \in 0 .. MaxInvalid - 1
      /\ reasks \in 0 .. MaxReasks /\ effects \subseteq Calls /\ ran \in [Effects -> Nat]
  BY DEF Live, Inv, Shapes, Held
<1>2. d.kind # "action"
  BY DEF IsResult
<1>3. CASE Finish(Log(<<d>>, <<TurnRecord(turn)>>))
  BY <1>1, <1>2, <1>3, OneRecord, FinishesOne
<1>4. CASE /\ invalid + 1 < MaxInvalid
           /\ Write(<<d>>, <<TurnRecord(turn)>>) /\ NextTurn
           /\ invalid' = invalid + 1
           /\ UNCHANGED <<effects, reasks>>
  <2>1. invalid' \in 0 .. MaxInvalid - 1
    BY <1>1, <1>4, BoundsAssumption
  <2>2. UNCHANGED <<caller, file, torn, attempts, ran>>
    BY DEF External
  <2>3. \A k \in 1 .. Len(<<TurnRecord(turn)>>) :
           /\ <<TurnRecord(turn)>>[k].type # "session_meta"
           /\ <<TurnRecord(turn)>>[k].type # "effect_committed"
    BY <1>1, OneRecord
  <2> QED
    BY <1>1, <1>4, <2>1, <2>2, <2>3, OneRecord, AnswersOne
<1> QED
  BY <1>3, <1>4 DEF Invalid

\* Where an entry of this turn can be written.
LEMMA InTurn ==
    ASSUME Inv, pc \in {"gate", "call", "tool", "exec"}
    PROVE  /\ turn \in 0 .. MaxTurns /\ NoCall \in Calls \cup {NoCall}
           /\ {"task", "context", "steer", "action", "finish", "error", "done", "failed", "unstarted",
               "unknown", "handoff", "blank"} \subseteq Kinds
  BY DEF Inv, Shapes, Held, Kinds

LEMMA InvalidOutputKeeps == ASSUME Inv, InvalidOutput PROVE Inv'
<1>1. pc = "call" /\ pending = <<>> /\ asked' = asked + 1 /\ UNCHANGED External
      /\ Invalid(<<Entry("error", turn, NoCall)>>, <<TurnRecord(turn)>>)
  BY DEF InvalidOutput, Call, Running
<1>2. Entry("error", turn, NoCall) \in GoodEntries
      /\ Entry("error", turn, NoCall).kind = "error" /\ Entry("error", turn, NoCall).turn = turn
  BY <1>1, InTurn, GoodEntry
<1> QED
  BY <1>1, <1>2, InvalidAnswer

LEMMA UnknownToolKeeps == ASSUME Inv, UnknownTool PROVE Inv'
<1> DEFINE d == Entry("action", turn, NoCall)
           e == Entry("error", turn, NoCall)
<1>1. pc = "call" /\ pending = <<>> /\ asked' = asked + 1 /\ UNCHANGED External
      /\ Invalid(<<d, e>>, <<TurnRecord(turn)>>)
  BY DEF UnknownTool, Call, Running
<1>2. /\ d \in GoodEntries /\ e \in GoodEntries /\ d.turn = turn /\ e.turn = turn
      /\ e.kind = "error" /\ turn \in 0 .. MaxTurns
  BY <1>1, InTurn, GoodEntry
<1> HIDE DEF d, e
<1>3. CASE Finish(Log(<<d, e>>, <<TurnRecord(turn)>>))
  BY <1>1, <1>2, <1>3, OneRecord, FinishesTwo
<1>4. CASE /\ invalid + 1 < MaxInvalid
           /\ Write(<<d, e>>, <<TurnRecord(turn)>>) /\ NextTurn
           /\ invalid' = invalid + 1
           /\ UNCHANGED <<effects, reasks>>
  <2>1. invalid' \in 0 .. MaxInvalid - 1 /\ reasks' \in 0 .. MaxReasks
    BY <1>4, BoundsAssumption DEF Inv, Shapes, Held
  <2>2. UNCHANGED <<caller, file, torn, attempts, ran>>
    BY <1>1 DEF External
  <2> QED
    BY <1>1, <1>2, <1>4, <2>1, <2>2, AnswersTwo
<1> QED
  BY <1>1, <1>3, <1>4 DEF Invalid

LEMMA FinishAcceptedKeeps == ASSUME Inv, FinishAccepted PROVE Inv'
<1> DEFINE d == Entry("finish", turn, NoCall)
<1>1. pc = "call" /\ pending = <<>> /\ asked' = asked + 1 /\ UNCHANGED External
      /\ Finish(Log(<<d>>, <<TurnRecord(turn)>>)) /\ pc \in Live
  BY DEF FinishAccepted, Call, Running, Live
<1>2. d \in GoodEntries /\ d.kind # "action" /\ turn \in 0 .. MaxTurns
  BY <1>1, InTurn, GoodEntry
<1> HIDE DEF d
<1> QED
  BY <1>1, <1>2, OneRecord, FinishesOne

LEMMA FinishRejectedKeeps == ASSUME Inv, FinishRejected PROVE Inv'
<1> DEFINE d == Entry("finish", turn, NoCall)
           e == Entry("error", turn, NoCall)
<1>1. pc = "call" /\ pending = <<>> /\ asked' = asked + 1 /\ UNCHANGED External /\ pc \in Live
  BY DEF FinishRejected, Call, Running, Live
<1>2. /\ d \in GoodEntries /\ e \in GoodEntries /\ d.turn = turn /\ e.turn = turn
      /\ e.kind = "error" /\ d.kind # "action" /\ turn \in 0 .. MaxTurns
  BY <1>1, InTurn, GoodEntry
<1>3. CASE Finish(Log(<<d>>, <<>>))
  <2> HIDE DEF d
  <2>1. <<>> \in Seq(GoodLines) /\ \A k \in 1 .. Len(<<>>) : FALSE
    BY EmptySeq
  <2> QED
    BY <1>1, <1>2, <1>3, <2>1, FinishesOne
<1>4. CASE /\ reasks + 1 <= MaxReasks
           /\ Write(<<d, e>>, <<TurnRecord(turn)>>)
           /\ NextTurn
           /\ reasks' = reasks + 1
           /\ UNCHANGED <<effects, invalid>>
  <2> HIDE DEF d, e
  <2>1. invalid' \in 0 .. MaxInvalid - 1 /\ reasks' \in 0 .. MaxReasks
    BY <1>4, BoundsAssumption DEF Inv, Shapes, Held
  <2>2. UNCHANGED <<caller, file, torn, attempts, ran>>
    BY <1>1 DEF External
  <2> QED
    BY <1>1, <1>2, <1>4, <2>1, <2>2, AnswersTwo
<1> QED
  BY <1>3, <1>4 DEF FinishRejected

LEMMA BadArgsKeeps == ASSUME Inv, BadArgs PROVE Inv'
<1> DEFINE d == Entry("failed", turn, call)
<1>1. pc = "tool" /\ pending = <<>> /\ asked' = asked /\ UNCHANGED External
      /\ Invalid(<<d>>, <<TurnRecord(turn)>>)
  BY DEF BadArgs, Tools, Running
<1>2. call \in Calls
  BY <1>1 DEF Inv, Shapes, Held, InTool
<1>3. d \in GoodEntries /\ d.kind = "failed" /\ d.turn = turn
  BY <1>1, <1>2, InTurn, GoodEntry
<1> HIDE DEF d
<1>4. IsResult(d)
  BY <1>3 DEF IsResult
<1> QED
  BY <1>1, <1>3, <1>4, InvalidAnswer

\* The result of a tool call, of whatever kind.
LEMMA ResultKeeps ==
    ASSUME Inv, pending = <<>>, pc \in InTool, UNCHANGED <<caller, file, torn, attempts, asked>>,
           NextTurn, effects \subseteq effects', effects' \subseteq Calls,
           invalid' \in 0 .. MaxInvalid - 1, reasks' = reasks, ran' \in [Effects -> Nat],
           NEW kind \in {"done", "failed"},
           NEW ms \in Seq(GoodLines), \A k \in 1 .. Len(ms) : Inert(ms[k]),
           \E k \in 1 .. Len(ms) : ms[k] = TurnRecord(turn),
           \A k \in 1 .. Len(ms) :
               /\ ms[k].type # "session_meta"
               /\ ms[k].type = "effect_committed" => caller = "refine" /\ ms[k].entry.call \in effects',
           Write(<<Entry(kind, turn, call)>>, ms)
    PROVE  Inv'
<1> DEFINE d == Entry(kind, turn, call)
<1>1. call \in Calls /\ pc \in {"tool", "exec"} /\ reasks' \in 0 .. MaxReasks /\ asked' = asked
  BY DEF Inv, Shapes, Held, InTool
<1>2. d \in GoodEntries /\ d.kind = kind /\ d.turn = turn
  BY <1>1, InTurn, GoodEntry
<1> HIDE DEF d
<1>3. IsResult(d)
  BY <1>2 DEF IsResult
<1>4. Write(<<d>>, ms)
  BY DEF d
<1> QED
  BY <1>1, <1>2, <1>3, <1>4, AnswersOne

LEMMA DeniedKeeps == ASSUME Inv, Denied PROVE Inv'
<1>1. /\ pc = "tool" /\ pending = <<>> /\ UNCHANGED <<caller, file, torn, attempts, ran, asked>>
      /\ Write(<<Entry("failed", turn, call)>>, <<TurnRecord(turn)>>) /\ NextTurn
      /\ UNCHANGED <<effects, invalid, reasks>> /\ pc \in InTool
  BY DEF Denied, Tools, Running, External, InTool
<1>2. turn \in 0 .. MaxTurns /\ effects' \subseteq Calls /\ ran' \in [Effects -> Nat]
      /\ invalid' \in 0 .. MaxInvalid - 1
  BY <1>1 DEF Inv, Shapes, Held
<1>3. \A k \in 1 .. Len(<<TurnRecord(turn)>>) :
         /\ <<TurnRecord(turn)>>[k].type # "session_meta"
         /\ <<TurnRecord(turn)>>[k].type # "effect_committed"
  BY <1>2, OneRecord
<1> QED
  BY <1>1, <1>2, <1>3, OneRecord, ResultKeeps

LEMMA ReplayKeeps == ASSUME Inv, Replay PROVE Inv'
<1>1. /\ pc = "tool" /\ pending = <<>> /\ UNCHANGED <<caller, file, torn, attempts, ran, asked>>
      /\ Write(<<Entry("done", turn, call)>>, <<TurnRecord(turn)>>) /\ NextTurn
      /\ invalid' = 0 /\ UNCHANGED <<effects, reasks>> /\ pc \in InTool
  BY DEF Replay, Tools, Running, External, InTool
<1>2. turn \in 0 .. MaxTurns /\ effects' \subseteq Calls /\ ran' \in [Effects -> Nat]
      /\ invalid' \in 0 .. MaxInvalid - 1
  BY <1>1, BoundsAssumption DEF Inv, Shapes, Held
<1>3. \A k \in 1 .. Len(<<TurnRecord(turn)>>) :
         /\ <<TurnRecord(turn)>>[k].type # "session_meta"
         /\ <<TurnRecord(turn)>>[k].type # "effect_committed"
  BY <1>2, OneRecord
<1> QED
  BY <1>1, <1>2, <1>3, OneRecord, ResultKeeps

LEMMA ToolFailsKeeps == ASSUME Inv, ToolFails PROVE Inv'
<1> DEFINE l == Line("finished", Entry("context", turn, call))
           ms == <<l, TurnRecord(turn)>>
<1>1. /\ pc = "exec" /\ pending = <<>> /\ UNCHANGED <<caller, file, torn, attempts, ran, asked>>
      /\ Write(<<Entry("failed", turn, call)>>, ms) /\ NextTurn
      /\ UNCHANGED <<effects, invalid, reasks>> /\ pc \in InTool
  BY DEF ToolFails, Running, External, InTool
<1>2. turn \in 0 .. MaxTurns /\ effects' \subseteq Calls /\ ran' \in [Effects -> Nat]
      /\ invalid' \in 0 .. MaxInvalid - 1 /\ call \in Calls
  BY <1>1 DEF Inv, Shapes, Held
<1>3. l \in GoodLines /\ Inert(l) /\ l.type = "finished"
  <2>1. Entry("context", turn, call) \in GoodEntries /\ Entry("context", turn, call).call = call
    BY <1>1, <1>2, InTurn, GoodEntry
  <2> QED
    BY <1>2, <2>1, GoodMark
<1> HIDE DEF l
<1>4. /\ TurnRecord(turn) \in GoodLines /\ Inert(TurnRecord(turn))
      /\ TurnRecord(turn).type = "turn_record"
  BY <1>2, GoodRecord
<1>5. ms \in Seq(GoodLines) /\ Len(ms) = 2 /\ ms[1] = l /\ ms[2] = TurnRecord(turn)
  BY <1>3, <1>4
<1> HIDE DEF ms
<1>6. \A k \in 1 .. Len(ms) : k = 1 \/ k = 2
  BY <1>5
<1>7. 2 \in 1 .. Len(ms)
  BY <1>5
<1> QED
  BY <1>1, <1>2, <1>3, <1>4, <1>5, <1>6, <1>7, ResultKeeps

LEMMA ToolSucceedsKeeps == ASSUME Inv, ToolSucceeds PROVE Inv'
<1> DEFINE l == Line("finished", Entry("context", turn, call))
           c == Line("effect_committed", Entry("context", turn, call))
           ms == (IF call \in Effects THEN <<c>> ELSE <<>>) \o <<l, TurnRecord(turn)>>
<1>1. /\ pc = "exec" /\ pending = <<>> /\ UNCHANGED <<caller, file, torn, attempts, asked>>
      /\ Write(<<Entry("done", turn, call)>>, ms) /\ NextTurn
      /\ UNCHANGED <<invalid, reasks>> /\ pc \in InTool
      /\ effects' = IF call \in Effects THEN effects \cup {call} ELSE effects
      /\ ran' = IF call \in Effects THEN [ran EXCEPT ![call] = @ + 1] ELSE ran
  BY DEF ToolSucceeds, Running, InTool
<1>2. turn \in 0 .. MaxTurns /\ effects \subseteq Calls /\ ran \in [Effects -> Nat]
      /\ invalid' \in 0 .. MaxInvalid - 1 /\ call \in Calls
  BY <1>1 DEF Inv, Shapes, Held
<1>3. effects \subseteq effects' /\ effects' \subseteq Calls /\ ran' \in [Effects -> Nat]
  BY <1>1, <1>2
<1>4. Entry("context", turn, call) \in GoodEntries /\ Entry("context", turn, call).call = call
  BY <1>1, <1>2, InTurn, GoodEntry
<1>5. l \in GoodLines /\ Inert(l) /\ l.type = "finished"
  BY <1>2, <1>4, GoodMark
<1>6. call \in Effects => c \in GoodLines /\ Inert(c) /\ c.type = "effect_committed" /\ c.entry.call = call
  BY <1>4, GoodMark
<1>7. /\ TurnRecord(turn) \in GoodLines /\ Inert(TurnRecord(turn))
      /\ TurnRecord(turn).type = "turn_record"
  BY <1>2, GoodRecord
<1>8. call \in Effects => caller = "refine" /\ call \in effects'
  BY <1>1 DEF Inv, Ledger, Shapes, Stored, Callers
<1> HIDE DEF l, c
<1>9. CASE call \in Effects
  <2>0. ms = <<c>> \o <<l, TurnRecord(turn)>>
    BY <1>9
  <2> HIDE DEF ms
  <2>1. <<c>> \in Seq(GoodLines) /\ <<l, TurnRecord(turn)>> \in Seq(GoodLines)
    BY <1>5, <1>6, <1>7, <1>9
  <2>2. ms \in Seq(GoodLines) /\ Len(ms) = 3 /\ ms[1] = c /\ ms[2] = l /\ ms[3] = TurnRecord(turn)
    BY <2>0, <2>1, ConcatProperties
  <2>3. \A k \in 1 .. Len(ms) : k = 1 \/ k = 2 \/ k = 3
    BY <2>2
  <2>4. 3 \in 1 .. Len(ms)
    BY <2>2
  <2>5. /\ \A k \in 1 .. Len(ms) : Inert(ms[k])
        /\ \E k \in 1 .. Len(ms) : ms[k] = TurnRecord(turn)
        /\ \A k \in 1 .. Len(ms) :
              /\ ms[k].type # "session_meta"
              /\ ms[k].type = "effect_committed" => caller = "refine" /\ ms[k].entry.call \in effects'
    BY <1>5, <1>6, <1>7, <1>8, <1>9, <2>2, <2>3, <2>4
  <2> QED
    BY <1>1, <1>2, <1>3, <2>2, <2>5, ResultKeeps
<1>10. CASE call \notin Effects
  <2>1. ms = <<l, TurnRecord(turn)>>
    BY <1>10
  <2> HIDE DEF ms
  <2>2. ms \in Seq(GoodLines) /\ Len(ms) = 2 /\ ms[1] = l /\ ms[2] = TurnRecord(turn)
    BY <1>5, <1>7, <2>1
  <2>3. \A k \in 1 .. Len(ms) : k = 1 \/ k = 2
    BY <2>2
  <2>4. 2 \in 1 .. Len(ms)
    BY <2>2
  <2> QED
    BY <1>1, <1>2, <1>3, <1>5, <1>7, <2>2, <2>3, <2>4, ResultKeeps
<1> QED
  BY <1>9, <1>10

LEMMA EndingKeeps ==
    ASSUME Inv, OutOfTurns \/ StopAtTop \/ BudgetSpent \/ CallFails \/ AbortBeforeTool
    PROVE  Inv'
<1>1. /\ pending = <<>> /\ pc \in Live /\ UNCHANGED External /\ Finish(<<>>)
      /\ asked' = asked \/ (pc = "call" /\ asked' = asked + 1)
  BY DEF OutOfTurns, StopAtTop, BudgetSpent, CallFails, AbortBeforeTool, Running, Call, Tools, Live
<1> QED
  BY <1>1, FinishesAtOnce

-----------------------------------------------------------------------------
(* The steps within a turn *)

\* Lines that leave the transcript alone.
LEMMA GoesOnQuietly ==
    ASSUME Inv, pending = <<>>, pc \in Live, pc' \in {"gate", "call", "tool", "exec"},
           UNCHANGED <<caller, file, torn, attempts, turn, effects, reasks, ran, asked, transcript, call>>,
           pc' \in Asking => pc \in Asking, pc' \in InTool => pc \in InTool, turn <= MaxTurns,
           invalid' \in 0 .. MaxInvalid - 1,
           pc' = "exec" => call \notin Effects \cap effects,
           NEW p \in Seq(GoodLines), pending' = p, \A k \in 1 .. Len(p) : Inert(p[k]),
           \A k \in 1 .. Len(p) : p[k].type \notin {"session_meta", "effect_committed"}
    PROVE  Inv'
<1>1. /\ file.items \in Seq(GoodEntries) /\ Trail(file.items) /\ Closed(file.items)
      /\ Mirrors => Alike(file.items, transcript)
  BY Settled DEF Live
<1>2. PICK m : Played(FALSE, file.items, p, m) /\ \A k \in 0 .. Len(p) : m[k] = file.items
  BY <1>1, PlayNone
<1>3. Trails(p, m) /\ m[Len(p)] = file.items
  <2>1. Len(p) \in 0 .. Len(p)
    BY LenProperties
  <2> QED
    BY <1>1, <1>2, <2>1 DEF Trails
<1>4. /\ transcript' \in Seq(GoodEntries) /\ Closed(transcript)
      /\ call' \in Calls \cup {NoCall} /\ (pc' \in InTool => call' \in Calls)
  BY DEF Inv, Shapes, Held, Answers
<1>5. caller = "conversation" => call' \notin Effects
  BY DEF Inv, Ledger
<1>6. /\ (pc' \in Asking => AllAnswered(transcript') /\ AllAnswered(m[Len(p)]))
      /\ (pc' \in InTool => OpenOnly(transcript', turn) /\ OpenOnly(m[Len(p)], turn))
  BY <1>1, <1>3, <1>4 DEF Closed
<1>7. Mirrors => Alike(m[Len(p)], transcript')
  BY <1>1, <1>3
<1> QED
  BY <1>2, <1>3, <1>4, <1>5, <1>6, <1>7, GoesOn

LEMMA NoCompactKeeps == ASSUME Inv, NoCompact PROVE Inv'
<1>1. /\ pc = "gate" /\ pending = <<>> /\ pc' = "call" /\ pending' = <<>>
      /\ UNCHANGED <<caller, file, torn, attempts, turn, effects, invalid, reasks, ran, asked, transcript, call>>
  BY DEF NoCompact, Running, External, mem
<1>2. turn <= MaxTurns /\ invalid' \in 0 .. MaxInvalid - 1
  BY <1>1 DEF Inv, Shapes, Held
<1>3. <<>> \in Seq(GoodLines) /\ \A k \in 1 .. Len(<<>>) : FALSE
  BY EmptySeq
<1>4. pc \in Live /\ pc \in Asking /\ pc' \in {"gate", "call", "tool", "exec"} /\ pc' \notin InTool
  BY <1>1 DEF Live, Asking, InTool
<1> QED
  BY <1>1, <1>2, <1>3, <1>4, GoesOnQuietly

LEMMA StartToolKeeps == ASSUME Inv, StartTool PROVE Inv'
<1> DEFINE l == Line("started", Entry("context", turn, call))
           p == <<l>>
<1>1. /\ pc = "tool" /\ pending = <<>> /\ pc' = "exec" /\ invalid' = 0
      /\ call \notin Effects \cap effects /\ Write(<<>>, p)
      /\ UNCHANGED <<caller, file, torn, attempts, turn, effects, reasks, ran, asked, call>>
  BY DEF StartTool, Tools, Running, External
<1>2. turn \in 0 .. MaxTurns /\ call \in Calls /\ transcript \in Seq(GoodEntries)
  BY <1>1 DEF Inv, Shapes, Held, InTool
<1>3. l \in GoodLines /\ Inert(l) /\ l.type = "started"
  <2>1. Entry("context", turn, call) \in GoodEntries /\ Entry("context", turn, call).call = call
    BY <1>1, <1>2, InTurn, GoodEntry
  <2> QED
    BY <1>2, <2>1, GoodMark
<1> HIDE DEF l
<1>4. p \in Seq(GoodLines) /\ Len(p) = 1 /\ p[1] = l
  BY <1>3
<1>5. pending' = p /\ transcript' = transcript
  <2>1. transcript \o <<>> = transcript
    BY <1>2, ConcatEmptySeq
  <2> QED
    BY <1>1, <1>4, <2>1, LogNone DEF Write
<1> HIDE DEF p
<1>6. \A k \in 1 .. Len(p) : k = 1
  BY <1>4
<1>7. \A k \in 1 .. Len(p) : Inert(p[k]) /\ p[k].type \notin {"session_meta", "effect_committed"}
  BY <1>3, <1>4, <1>6
<1>8. pc \in Live /\ pc \in InTool /\ pc' \in {"gate", "call", "tool", "exec"} /\ pc' \notin Asking
      /\ turn <= MaxTurns /\ invalid' \in 0 .. MaxInvalid - 1
  BY <1>1, <1>2, BoundsAssumption DEF Live, Asking, InTool
<1> QED
  BY <1>1, <1>4, <1>5, <1>7, <1>8, GoesOnQuietly

LEMMA BeginTurnKeeps == ASSUME Inv, BeginTurn PROVE Inv'
<1> DEFINE d == Entry("steer", 0, NoCall)
           ms == <<TurnRecord(turn)>>
           p == Log(<<d>>, ms)
<1>1. /\ pc = "loop" /\ pending = <<>> /\ turn <= MaxTurns /\ pc' = "gate"
      /\ Write(<<>>, <<>>) \/ Write(<<d>>, ms)
      /\ UNCHANGED <<caller, file, torn, attempts, turn, effects, invalid, reasks, ran, asked, call>>
  BY DEF BeginTurn, Running, External
<1>2. /\ pc \in Live /\ pc \in Asking /\ pc' \in {"gate", "call", "tool", "exec"}
      /\ pc' \in Asking /\ pc' \notin InTool /\ pc' # "exec"
  BY <1>1 DEF Live, Asking, InTool
<1>3. turn \in 0 .. MaxTurns /\ transcript \in Seq(GoodEntries) /\ invalid' \in 0 .. MaxInvalid - 1
      /\ call' \in Calls \cup {NoCall} /\ Closed(transcript)
  BY <1>1 DEF Inv, Shapes, Held, Answers
<1>4. CASE Write(<<>>, <<>>)
  <2>1. <<>> \in Seq(GoodLines) /\ \A k \in 1 .. Len(<<>>) : FALSE
    BY EmptySeq
  <2>2. pending' = <<>> /\ transcript' = transcript
    <3>1. transcript \o <<>> = transcript
      BY <1>3, ConcatEmptySeq
    <3> QED
      BY <1>4, <2>1, <3>1, LogNone DEF Write
  <2> QED
    BY <1>1, <1>2, <1>3, <2>1, <2>2, GoesOnQuietly
<1>5. CASE Write(<<d>>, ms)
  <2>1. d \in GoodEntries /\ d.kind # "action"
    BY GoodEntry, BoundsAssumption DEF Kinds
  <2> HIDE DEF d
  <2>2. /\ ms \in Seq(GoodLines)
        /\ \A k \in 1 .. Len(ms) : ms[k].type = "turn_record" /\ Inert(ms[k])
    BY <1>3, OneRecord
  <2> HIDE DEF ms
  <2>3. PICK m : /\ p \in Seq(GoodLines) /\ Played(FALSE, file.items, p, m)
                 /\ m[Len(p)] = Append(file.items, d)
                 /\ Trail(Append(file.items, d)) => Trails(p, m)
                 /\ transcript \o <<d>> = Append(transcript, d)
                 /\ Append(transcript, d) \in Seq(GoodEntries)
                 /\ Mirrors => Alike(m[Len(p)], transcript \o <<d>>)
                 /\ \A k \in 1 .. Len(p) : p[k] = Line("item", d) \/ \E j \in 1 .. Len(ms) : p[k] = ms[j]
    BY <1>1, <1>2, <2>1, <2>2, WriteOne
  <2>4. pending' = p /\ transcript' = Append(transcript, d)
    BY <1>5, <2>3 DEF Write
  <2> HIDE DEF p
  <2>5. AllAnswered(Append(file.items, d)) /\ AllAnswered(Append(transcript, d))
    <3>1. file.items \in Seq(GoodEntries) /\ Closed(file.items)
      BY <1>1, Settled
    <3>2. AllAnswered(file.items) /\ AllAnswered(transcript)
      BY <1>2, <1>3, <3>1 DEF Closed
    <3> QED
      BY <1>3, <2>1, <3>1, <3>2, AppendOther
  <2>6. Trails(p, m)
    BY <2>3, <2>5, AnsweredTrails
  <2>7. /\ (pc' \in Asking => AllAnswered(transcript') /\ AllAnswered(m[Len(p)]))
        /\ (pc' \in InTool => OpenOnly(transcript', turn) /\ OpenOnly(m[Len(p)], turn))
    BY <1>2, <2>3, <2>4, <2>5
  <2>8. \A k \in 1 .. Len(p) : p[k].type \notin {"session_meta", "effect_committed"}
    BY <2>1, <2>2, <2>3, GoodItem
  <2>9. transcript' \in Seq(GoodEntries) /\ (Mirrors => Alike(m[Len(p)], transcript'))
    BY <2>3, <2>4
  <2>10. caller = "conversation" => call' \notin Effects
    BY <1>1 DEF Inv, Ledger
  <2> QED
    BY <1>1, <1>2, <1>3, <2>3, <2>4, <2>6, <2>7, <2>8, <2>9, <2>10, GoesOn
<1> QED
  BY <1>1, <1>4, <1>5

LEMMA UseToolKeeps == ASSUME Inv, UseTool PROVE Inv'
<1>1. /\ pc = "call" /\ pending = <<>> /\ pc' = "tool" /\ asked' = asked + 1
      /\ UNCHANGED <<caller, file, torn, attempts, turn, effects, invalid, reasks, ran>>
  BY DEF UseTool, Call, Running, External
<1>2. PICK c \in IF caller = "refine" THEN Calls ELSE Reads :
         call' = c /\ Write(<<Entry("action", turn, c)>>, <<>>)
  BY DEF UseTool
<1> DEFINE d == Entry("action", turn, c)
           p == Log(<<d>>, <<>>)
<1>3. c \in Calls /\ (caller = "conversation" => c \notin Effects)
  BY <1>2, CallsAssumption DEF Calls
<1>4. /\ pc \in Live /\ pc \in Asking /\ pc' \in {"gate", "call", "tool", "exec"}
      /\ pc' \notin Asking /\ pc' \in InTool /\ pc' # "exec"
  BY <1>1 DEF Live, Asking, InTool
<1>5. turn <= MaxTurns /\ transcript \in Seq(GoodEntries) /\ invalid' \in 0 .. MaxInvalid - 1
      /\ Closed(transcript)
  BY <1>1 DEF Inv, Shapes, Held, Answers
<1>6. d \in GoodEntries /\ d.kind = "action" /\ d.turn = turn
  BY <1>1, <1>3, InTurn, GoodEntry
<1>7. Write(<<d>>, <<>>)
  BY <1>2
<1> HIDE DEF d
<1>8. <<>> \in Seq(GoodLines) /\ \A k \in 1 .. Len(<<>>) : FALSE
  BY EmptySeq
<1>9. PICK m : /\ p \in Seq(GoodLines) /\ Played(FALSE, file.items, p, m)
               /\ m[Len(p)] = Append(file.items, d)
               /\ Trail(Append(file.items, d)) => Trails(p, m)
               /\ transcript \o <<d>> = Append(transcript, d)
               /\ Append(transcript, d) \in Seq(GoodEntries)
               /\ Mirrors => Alike(m[Len(p)], transcript \o <<d>>)
               /\ \A k \in 1 .. Len(p) : p[k] = Line("item", d) \/ \E j \in 1 .. Len(<<>>) : p[k] = <<>>[j]
  BY <1>1, <1>4, <1>6, <1>8, WriteOne
<1>10. pending' = p /\ transcript' = Append(transcript, d)
  BY <1>7, <1>9 DEF Write
<1> HIDE DEF p
<1>11. /\ Trail(Append(file.items, d))
       /\ OpenOnly(Append(file.items, d), turn) /\ OpenOnly(Append(transcript, d), turn)
  <2>1. file.items \in Seq(GoodEntries) /\ Closed(file.items)
    BY <1>1, Settled
  <2>2. AllAnswered(file.items) /\ AllAnswered(transcript)
    BY <1>4, <1>5, <2>1 DEF Closed
  <2> QED
    BY <1>5, <1>6, <2>1, <2>2, AppendAction
<1>12. /\ (pc' \in Asking => AllAnswered(transcript') /\ AllAnswered(m[Len(p)]))
       /\ (pc' \in InTool => OpenOnly(transcript', turn) /\ OpenOnly(m[Len(p)], turn))
  BY <1>4, <1>9, <1>10, <1>11
<1>13. \A k \in 1 .. Len(p) : p[k].type \notin {"session_meta", "effect_committed"}
  BY <1>6, <1>8, <1>9, GoodItem
<1>14. transcript' \in Seq(GoodEntries) /\ (Mirrors => Alike(m[Len(p)], transcript'))
  BY <1>9, <1>10
<1>15. call' \in Calls /\ (caller = "conversation" => call' \notin Effects)
  BY <1>2, <1>3
<1> QED
  BY <1>1, <1>4, <1>5, <1>9, <1>10, <1>11, <1>12, <1>13, <1>14, <1>15, GoesOn

-----------------------------------------------------------------------------
(* Compaction *)

\* Entries that are no actions, in front.
LEMMA PutBefore ==
    ASSUME NEW h \in Seq(GoodEntries), NEW t \in Seq(GoodEntries), AllAnswered(t),
           \A i \in 1 .. Len(h) : h[i].kind # "action"
    PROVE  h \o t \in Seq(GoodEntries) /\ AllAnswered(h \o t)
<1> DEFINE r == h \o t
<1>1. /\ r \in Seq(GoodEntries) /\ Len(r) = Len(h) + Len(t) /\ Len(h) \in Nat /\ Len(t) \in Nat
      /\ \A i \in 1 .. Len(h) + Len(t) : r[i] = IF i <= Len(h) THEN h[i] ELSE t[i - Len(h)]
  BY ConcatProperties, LenProperties
<1> HIDE DEF r
<1>2. ASSUME NEW i \in 1 .. Len(r), r[i].kind = "action"
      PROVE  Answered(r, i)
  <2>1. i - Len(h) \in 1 .. Len(t) /\ r[i] = t[i - Len(h)]
    <3>1. CASE i <= Len(h)
      BY <1>1, <1>2, <3>1
    <3>2. CASE ~(i <= Len(h))
      BY <1>1, <3>2
    <3> QED
      BY <3>1, <3>2
  <2>2. PICK j \in 1 .. Len(t) : /\ j > i - Len(h)
                                 /\ IsResult(t[j]) \/ t[j].kind = "error"
                                 /\ t[j].turn = t[i - Len(h)].turn
    BY <1>2, <2>1 DEF AllAnswered, Answered
  <2>3. j + Len(h) \in 1 .. Len(r) /\ j + Len(h) > i /\ ~(j + Len(h) <= Len(h)) /\ (j + Len(h)) - Len(h) = j
    BY <1>1, <2>2
  <2>4. r[j + Len(h)] = t[j]
    BY <1>1, <2>3
  <2> QED
    BY <2>1, <2>2, <2>3, <2>4 DEF Answered
<1>3. AllAnswered(r)
  BY <1>2 DEF AllAnswered
<1> QED
  BY <1>1, <1>3 DEF r

\* The latest entries.
LEMMA KeepLatest ==
    ASSUME NEW s \in Seq(GoodEntries), AllAnswered(s), NEW n \in 0 .. Len(s)
    PROVE  /\ SubSeq(s, Len(s) + 1 - n, Len(s)) \in Seq(GoodEntries)
           /\ AllAnswered(SubSeq(s, Len(s) + 1 - n, Len(s)))
<1> DEFINE t == SubSeq(s, Len(s) + 1 - n, Len(s))
<1>0. Len(s) \in Nat
  BY LenProperties
<1>1. t \in Seq(GoodEntries) /\ Len(t) = n /\ \A i \in 1 .. n : t[i] = s[i + (Len(s) - n)]
  <2>1. Len(s) + 1 - n \in Int /\ Len(s) \in Int
    BY <1>0
  <2>2. \A i \in Len(s) + 1 - n .. Len(s) : s[i] \in GoodEntries
    BY <1>0, ElementOfSeq
  <2>3. /\ t \in Seq(GoodEntries)
        /\ Len(t) = IF Len(s) + 1 - n <= Len(s) THEN Len(s) - (Len(s) + 1 - n) + 1 ELSE 0
        /\ \A i \in 1 .. Len(s) - (Len(s) + 1 - n) + 1 : t[i] = s[(Len(s) + 1 - n) + i - 1]
    BY <2>1, <2>2, SubSeqProperties
  <2> HIDE DEF t
  <2>4. Len(t) = n /\ Len(s) - (Len(s) + 1 - n) + 1 = n
    BY <1>0, <2>3
  <2>5. \A i \in 1 .. n : (Len(s) + 1 - n) + i - 1 = i + (Len(s) - n)
    BY <1>0
  <2> QED
    BY <2>3, <2>4, <2>5
<1> HIDE DEF t
<1>2. ASSUME NEW i \in 1 .. Len(t), t[i].kind = "action"
      PROVE  Answered(t, i)
  <2> DEFINE b == Len(s) - n
  <2>1. b \in Nat /\ i + b \in 1 .. Len(s) /\ t[i] = s[i + b] /\ i \in Nat
    BY <1>0, <1>1
  <2>2. PICK j \in 1 .. Len(s) : /\ j > i + b
                                 /\ IsResult(s[j]) \/ s[j].kind = "error"
                                 /\ s[j].turn = s[i + b].turn
    BY <1>2, <2>1 DEF AllAnswered, Answered
  <2>3. j - b \in 1 .. Len(t) /\ j - b > i /\ (j - b) + b = j
    BY <1>0, <1>1, <2>1, <2>2
  <2>4. t[j - b] = s[j]
    BY <1>1, <2>3
  <2> HIDE DEF b
  <2> QED
    BY <2>1, <2>2, <2>3, <2>4 DEF Answered
<1>3. AllAnswered(t)
  BY <1>2 DEF AllAnswered
<1> QED
  BY <1>1, <1>3 DEF t

LEMMA BaselineIsClosed ==
    ASSUME Inv, pc = "gate", NEW kept \in Baselines
    PROVE  /\ kept \in Seq(GoodEntries) /\ AllAnswered(kept)
           /\ kept # <<>> /\ kept[1].kind = "task"
<1>1. transcript \in Seq(GoodEntries) /\ AllAnswered(transcript) /\ Len(transcript) \in Nat
  <2>1. transcript \in Seq(GoodEntries) /\ Closed(transcript)
    BY DEF Inv, Shapes, Held, Answers
  <2> QED
    BY <2>1, LenProperties DEF Closed, Asking
<1>2. PICK n \in 0 .. Len(transcript), handoff \in BOOLEAN : kept = Baseline(handoff, n)
  <2>1. CASE kept = Baseline(FALSE, 0)
    <3>1. 0 \in 0 .. Len(transcript) /\ FALSE \in BOOLEAN
      BY <1>1
    <3> QED
      BY <2>1, <3>1, Zenon
  <2>2. CASE kept # Baseline(FALSE, 0)
    <3>1. PICK n \in 0 .. (IF Len(transcript) < KeepLast THEN Len(transcript) ELSE KeepLast) :
             kept = Baseline(TRUE, n)
      BY <2>2 DEF Baselines
    <3>2. n \in 0 .. Len(transcript)
      BY <1>1, BoundsAssumption
    <3> QED
      BY <3>1, <3>2
  <2> QED
    BY <2>1, <2>2
<1> DEFINE a == Entry("task", 0, NoCall)
           b == Entry("handoff", 0, NoCall)
           g == IF handoff THEN <<b>> ELSE <<>>
           h == <<a>> \o g
           c == Microcompact(transcript)
           t == SubSeq(c, Len(transcript) + 1 - n, Len(transcript))
<1>3. a \in GoodEntries /\ a.kind = "task" /\ b \in GoodEntries /\ b.kind = "handoff"
  BY GoodEntry, BoundsAssumption DEF Kinds
<1>4. t \in Seq(GoodEntries) /\ AllAnswered(t)
  <2>1. c \in Seq(GoodEntries) /\ Len(c) = Len(transcript) /\ AllAnswered(c)
    BY <1>1, MicrocompactKeeps
  <2> HIDE DEF c
  <2> QED
    BY <2>1, KeepLatest
<1>5. kept = h \o t
  BY <1>2 DEF Baseline
<1> HIDE DEF t, a, b
<1>6. g \in Seq(GoodEntries) /\ Len(g) \in 0 .. 1 /\ \A i \in 1 .. Len(g) : g[i] = b
  BY <1>3
<1> HIDE DEF g
<1>7. /\ h \in Seq(GoodEntries) /\ Len(h) = 1 + Len(g) /\ h[1] = a
      /\ \A i \in 1 .. Len(h) : h[i] = a \/ h[i] = b
  <2>1. <<a>> \in Seq(GoodEntries) /\ Len(<<a>>) = 1 /\ <<a>>[1] = a
    BY <1>3
  <2>2. /\ h \in Seq(GoodEntries) /\ Len(h) = 1 + Len(g)
        /\ \A i \in 1 .. 1 + Len(g) : h[i] = IF i <= 1 THEN <<a>>[i] ELSE g[i - 1]
    BY <1>6, <2>1, ConcatProperties
  <2> HIDE DEF h
  <2>3. h[1] = a
    BY <1>6, <2>1, <2>2
  <2>4. ASSUME NEW i \in 1 .. Len(h), i # 1 PROVE h[i] = b
    <3>1. i - 1 \in 1 .. Len(g) /\ ~(i <= 1) /\ i \in 1 .. 1 + Len(g)
      BY <1>6, <2>2, <2>4
    <3> QED
      BY <1>6, <2>2, <3>1
  <2> QED
    BY <2>2, <2>3, <2>4
<1> HIDE DEF h
<1>8. kept \in Seq(GoodEntries) /\ AllAnswered(kept)
  BY <1>3, <1>4, <1>5, <1>7, PutBefore
<1>9. Len(kept) = Len(h) + Len(t) /\ kept[1] = h[1] /\ Len(kept) # 0
  <2>1. Len(t) \in Nat /\ Len(g) \in Nat
    BY <1>4, <1>6, LenProperties
  <2>2. /\ Len(kept) = Len(h) + Len(t)
        /\ \A i \in 1 .. Len(h) + Len(t) : kept[i] = IF i <= Len(h) THEN h[i] ELSE t[i - Len(h)]
    <3>1. /\ Len(h \o t) = Len(h) + Len(t)
          /\ \A i \in 1 .. Len(h) + Len(t) : (h \o t)[i] = IF i <= Len(h) THEN h[i] ELSE t[i - Len(h)]
      <4>1. h \in Seq(GoodEntries) /\ t \in Seq(GoodEntries)
        BY <1>4, <1>7
      <4> QED
        BY <4>1, ConcatProperties
    <3> QED
      BY <1>5, <3>1, Zenon
  <2>3. 1 \in 1 .. Len(h) + Len(t) /\ 1 <= Len(h) /\ Len(h) + Len(t) # 0
    BY <1>7, <2>1
  <2> QED
    BY <2>2, <2>3
<1> QED
  BY <1>3, <1>7, <1>8, <1>9, EmptySeq

LEMMA CompactKeeps == ASSUME Inv, Compact PROVE Inv'
<1>1. pc = "gate" /\ pending = <<>> /\ UNCHANGED <<External, asked>> /\ pc \in Live
      /\ UNCHANGED <<caller, file, torn, attempts, ran, asked>>
  BY DEF Compact, Running, External, Live
<1>2. PICK kept \in Baselines :
         \/ /\ pending' = <<Compacted(kept), TurnRecord(turn)>>
            /\ transcript' = kept
            /\ pc' = "call"
            /\ UNCHANGED <<turn, effects, invalid, reasks, call>>
         \/ Finish(<<Compacted(kept), TurnRecord(turn)>>)
  BY DEF Compact
<1> DEFINE l == Compacted(kept)
           p == <<l, TurnRecord(turn)>>
<1>3. kept \in Seq(GoodEntries) /\ AllAnswered(kept) /\ kept # <<>> /\ kept[1].kind = "task"
  BY <1>1, BaselineIsClosed
<1>4. l \in GoodLines /\ l.type = "compacted" /\ l.kept = kept
  <2>1. Entry("context", 0, NoCall) \in GoodEntries
    BY GoodEntry, BoundsAssumption DEF Kinds
  <2> QED
    BY <1>3, <2>1 DEF Compacted, GoodLines
<1> HIDE DEF l
<1>5. turn \in 0 .. MaxTurns /\ TurnRecord(turn) \in GoodLines /\ Inert(TurnRecord(turn))
      /\ TurnRecord(turn).type = "turn_record"
  BY <1>1, InTurn, GoodRecord
<1>6. p \in Seq(GoodLines) /\ Len(p) = 2 /\ p[1] = l /\ p[2] = TurnRecord(turn)
  BY <1>4, <1>5
<1> HIDE DEF p
<1>7. \A k \in 1 .. Len(p) : k = 1 \/ k = 2
  BY <1>6
<1>8. \A k \in 2 .. Len(p) : k = 2
  BY <1>6
<1>9. /\ file.items \in Seq(GoodEntries) /\ Trail(file.items)
  BY Settled, <1>1
<1>10. PICK m : /\ Played(FALSE, file.items, p, m) /\ m[Len(p)] = kept
                /\ \A k \in 0 .. Len(p) : m[k] \in {file.items, kept}
  <2>1. Len(p) >= 1
    BY <1>6
  <2>2. \A k \in 2 .. Len(p) : Inert(p[k])
    BY <1>5, <1>6, <1>8
  <2> QED
    BY <1>4, <1>6, <1>9, <2>1, <2>2, PlayBase
<1>11. Trails(p, m)
  BY <1>3, <1>9, <1>10, AnsweredTrails DEF Trails
<1>12. \A k \in 1 .. Len(p) : p[k].type \notin {"session_meta", "effect_committed"}
  BY <1>4, <1>5, <1>6, <1>7
<1>13. CASE /\ pending' = p
            /\ transcript' = kept
            /\ pc' = "call"
            /\ UNCHANGED <<turn, effects, invalid, reasks, call>>
  <2>1. pc \in Asking /\ pc' \in Asking /\ pc' \notin InTool /\ pc' # "exec"
        /\ pc' \in {"gate", "call", "tool", "exec"}
    BY <1>1, <1>13 DEF Asking, InTool
  <2>2. turn <= MaxTurns /\ invalid' \in 0 .. MaxInvalid - 1 /\ call' \in Calls \cup {NoCall}
    BY <1>1, <1>13 DEF Inv, Shapes, Held
  <2>3. caller = "conversation" => call' \notin Effects
    BY <1>13 DEF Inv, Ledger
  <2>4. Alike(m[Len(p)], transcript')
    BY <1>10, <1>13, AlikeSame
  <2> QED
    BY <1>1, <1>3, <1>6, <1>10, <1>11, <1>12, <1>13, <2>1, <2>2, <2>3, <2>4, GoesOn
<1>14. CASE Finish(p)
  BY <1>1, <1>6, <1>10, <1>11, <1>12, <1>14, Finishes
<1> QED
  BY <1>2, <1>13, <1>14 DEF p, l

LEMMA MicroCompactKeeps == ASSUME Inv, MicroCompact PROVE Inv'
<1>1. /\ pc = "gate" /\ pending = <<>> /\ pc' = "call" /\ pending' = <<>>
      /\ transcript' = Microcompact(transcript)
      /\ UNCHANGED <<caller, file, torn, attempts, turn, effects, invalid, reasks, ran, asked, call>>
  BY DEF MicroCompact, Running, External
<1>2. /\ turn <= MaxTurns /\ invalid' \in 0 .. MaxInvalid - 1 /\ call' \in Calls \cup {NoCall}
      /\ transcript \in Seq(GoodEntries) /\ Closed(transcript)
  BY <1>1 DEF Inv, Shapes, Held, Answers
<1>3. <<>> \in Seq(GoodLines) /\ Len(<<>>) = 0 /\ \A k \in 1 .. Len(<<>>) : FALSE
  BY EmptySeq
<1>4. /\ pc \in Live /\ pc \in Asking /\ pc' \in {"gate", "call", "tool", "exec"}
      /\ pc' \notin InTool /\ pc' # "exec"
  BY <1>1 DEF Live, Asking, InTool
<1>5. /\ file.items \in Seq(GoodEntries) /\ Trail(file.items) /\ Closed(file.items)
      /\ Mirrors => Alike(file.items, transcript)
  BY <1>1, <1>4, Settled DEF Live
<1>6. AllAnswered(transcript) /\ AllAnswered(file.items)
  BY <1>2, <1>4, <1>5 DEF Closed
<1>7. /\ transcript' \in Seq(GoodEntries) /\ AllAnswered(transcript')
      /\ Mirrors => Alike(file.items, transcript')
  BY <1>1, <1>2, <1>5, <1>6, MicrocompactKeeps
<1>8. PICK m : Played(FALSE, file.items, <<>>, m) /\ \A k \in 0 .. Len(<<>>) : m[k] = file.items
  BY <1>5, PlayEmpty
<1>9. Trails(<<>>, m) /\ m[Len(<<>>)] = file.items
  BY <1>3, <1>5, <1>8 DEF Trails
<1>10. caller = "conversation" => call' \notin Effects
  BY <1>1 DEF Inv, Ledger
<1>11. Mirrors => Alike(m[Len(<<>>)], transcript')
  BY <1>7, <1>9
<1> QED
  BY <1>1, <1>2, <1>3, <1>4, <1>6, <1>7, <1>8, <1>9, <1>10, <1>11, GoesOn

-----------------------------------------------------------------------------
(* A session begins, or goes on *)

LEMMA Begins ==
    ASSUME Inv, NewAttempt, turn' \in Nat \ {0}, effects' \subseteq Calls, file.effects \subseteq effects',
           asked' \in Nat, asked' <= PriorTurns + attempts', asked' + 2 <= turn' + attempts',
           asked' < MaxTurns + attempts', PriorTurns >= turn' - 1,
           NEW p \in Seq(GoodLines), pending' = p, Len(p) >= 1, p[1].type \in {"resumed", "item"},
           caller = "refine" /\ torn => p[1].type = "resumed",
           \A k \in 1 .. Len(p) : p[k].type \notin {"effect_committed", "compacted"},
           caller = "refine" => \A k \in 1 .. Len(p) : p[k].type = "session_meta" => ~file.base,
           transcript' \in Seq(GoodEntries), AllAnswered(transcript'),
           NEW m, Played(torn, file.items, p, m), Trails(p, m), AllAnswered(m[Len(p)]),
           caller = "refine" /\ (file.base => file.meta) => m[Len(p)] = transcript'
    PROVE  Inv'
<1>1. /\ pending = <<>> /\ pc = "idle" /\ attempts' = attempts + 1 /\ pc' = "loop"
      /\ invalid' = 0 /\ reasks' = 0 /\ call' = NoCall /\ UNCHANGED <<caller, file, torn, ran>>
  BY DEF NewAttempt, Running
<1>2. attempts \in Nat /\ PriorTurns' = PriorTurns
  BY <1>1 DEF Inv, Shapes, Stored, PriorTurns
<1>3. Shapes'
  <2>1. Stored'
    BY <1>1, <1>2 DEF Inv, Shapes, Stored
  <2>2. ran' \in [Effects -> Nat]
    BY <1>1 DEF Inv, Shapes, Held
  <2>3. Held'
    BY <1>1, <2>2, BoundsAssumption DEF Held, Live, InTool
  <2> QED
    BY <2>1, <2>3 DEF Shapes
<1>4. Fragments'
  <2>1. p # <<>> /\ attempts' # 0
    BY <1>1, <1>2
  <2> QED
    BY <1>1, <2>1 DEF Fragments
<1>5. Ledger'
  <2>1. call' \notin Effects
    BY <1>1, CallsAssumption DEF Calls
  <2> QED
    BY <1>1, <2>1 DEF Inv, Ledger
<1>6. Turns'
  BY <1>1, <1>2 DEF Turns, TurnBudgetHolds, Asking, InTool
<1>7. Answers'
  <2>1. Mirrors' => caller = "refine" /\ (file.base => file.meta)
    BY <1>1 DEF Mirrors
  <2>2. Closed(transcript)' /\ Closed(m[Len(p)])'
    BY <1>1 DEF Closed, Asking, InTool
  <2>3. Mirrors' => Alike(m[Len(p)], transcript')
    BY <2>1, AlikeSame
  <2> QED
    BY <1>1, <2>2, <2>3 DEF Answers
<1> QED
  BY <1>3, <1>4, <1>5, <1>6, <1>7 DEF Inv

\* What the file reconstructs to: its entries, without the task when that is lost.
LEMMA Reconstructed ==
    ASSUME Stored
    PROVE  LET s == ReconstructTranscript(file) IN
              /\ file.items \in Seq(GoodEntries)
              /\ s \in Seq(GoodEntries) /\ Len(s) = Len(file.items) /\ Len(s) \in Nat
              /\ (file.base => file.meta) => s = file.items
              /\ s = <<>> => file.items = <<>>
              /\ \A i \in 1 .. Len(s) : \/ s[i] = file.items[i]
                                        \/ s[i].kind = "blank" /\ file.items[i].kind = "task"
<1> DEFINE items == file.items
           s == ReconstructTranscript(file)
           b == Entry("blank", 0, NoCall)
<1>1. items \in Seq(GoodEntries) /\ Len(items) \in Nat
  <2>1. items \in Seq(GoodEntries)
    BY DEF Stored, GoodFiles
  <2> QED
    BY <2>1, LenProperties
<1>2. CASE file.base /\ ~file.meta /\ items # <<>>
  <2>1. s = <<b>> \o Tail(items)
    BY <1>2 DEF ReconstructTranscript
  <2>2. b \in GoodEntries /\ b.kind = "blank"
    BY GoodEntry, BoundsAssumption DEF Kinds
  <2>3. items[1].kind = "task"
    BY <1>2 DEF Stored
  <2> HIDE DEF s, b, items
  <2>4. /\ Tail(items) \in Seq(GoodEntries) /\ Len(Tail(items)) = Len(items) - 1
        /\ \A i \in 1 .. Len(Tail(items)) : Tail(items)[i] = items[i + 1]
        /\ Len(items) \in Nat \ {0}
    BY <1>1, <1>2, HeadTailProperties, EmptySeq
  <2>5. <<b>> \in Seq(GoodEntries) /\ Len(<<b>>) = 1 /\ <<b>>[1] = b
    BY <2>2
  <2> DEFINE t == Tail(items)
             h == <<b>>
  <2> HIDE DEF t, h
  <2>6. /\ s \in Seq(GoodEntries) /\ Len(s) = Len(h) + Len(t)
        /\ \A i \in 1 .. Len(h) + Len(t) : s[i] = IF i <= Len(h) THEN h[i] ELSE t[i - Len(h)]
    BY <2>1, <2>4, <2>5, ConcatProperties DEF t, h
  <2>7. Len(s) = Len(items) /\ s[1] = b /\ Len(h) = 1 /\ Len(t) = Len(items) - 1
    BY <2>4, <2>5, <2>6 DEF t, h
  <2>8. ASSUME NEW i \in 1 .. Len(s), i # 1 PROVE s[i] = items[i]
    <3>1. i \in 1 .. Len(h) + Len(t) /\ ~(i <= Len(h)) /\ i - 1 \in 1 .. Len(t) /\ (i - 1) + 1 = i
      BY <2>4, <2>6, <2>7, <2>8
    <3>2. s[i] = t[i - 1]
      BY <2>6, <2>7, <3>1
    <3> QED
      BY <2>4, <3>1, <3>2 DEF t
  <2>9. \A i \in 1 .. Len(s) : s[i] = items[i] \/ (s[i].kind = "blank" /\ items[i].kind = "task")
    BY <2>2, <2>3, <2>7, <2>8
  <2>10. s # <<>>
    BY <2>4, <2>7
  <2> QED
    BY <1>1, <1>2, <2>6, <2>7, <2>9, <2>10 DEF s, items
<1>3. CASE ~(file.base /\ ~file.meta /\ items # <<>>)
  <2>1. s = items
    BY <1>3 DEF ReconstructTranscript
  <2> QED
    BY <1>1, <2>1
<1> QED
  BY <1>2, <1>3

\* Two transcripts that differ in their task only.
LEMMA SameActions ==
    ASSUME NEW r \in Seq(GoodEntries), NEW s \in Seq(GoodEntries), Len(r) = Len(s),
           \A i \in 1 .. Len(s) : \/ s[i] = r[i]
                                  \/ s[i].kind \in {"blank", "task"} /\ r[i].kind \in {"blank", "task"},
           NEW t
    PROVE  /\ Trail(r) => Trail(s)
           /\ AllAnswered(r) => AllAnswered(s)
           /\ OpenOnly(r, t) => OpenOnly(s, t)
<1>1. ASSUME NEW i \in 1 .. Len(s), s[i].kind = "action"
      PROVE  s[i] = r[i] /\ (Answered(r, i) => Answered(s, i))
  <2>1. s[i] = r[i]
    BY <1>1
  <2>2. ASSUME Answered(r, i) PROVE Answered(s, i)
    <3>1. PICK j \in 1 .. Len(r) : /\ j > i
                                   /\ IsResult(r[j]) \/ r[j].kind = "error"
                                   /\ r[j].turn = r[i].turn
      BY <2>2 DEF Answered
    <3>2. r[j].kind \notin {"blank", "task"}
      BY <3>1 DEF IsResult
    <3>3. s[j] = r[j]
      BY <3>2
    <3> QED
      BY <2>1, <3>1, <3>3 DEF Answered
  <2> QED
    BY <2>1, <2>2
<1>2. ASSUME NEW i \in 1 .. Len(s), s[i].kind = "action" PROVE r[i].kind = "action"
  BY <1>1, <1>2
<1>3. AllAnswered(r) => AllAnswered(s)
  BY <1>1, <1>2 DEF AllAnswered
<1>4. OpenOnly(r, t) => OpenOnly(s, t)
  BY <1>1, <1>2 DEF OpenOnly
<1>5. Trail(r) => Trail(s)
  BY <1>1, <1>2 DEF Trail
<1> QED
  BY <1>3, <1>4, <1>5

\* The last action is open, or all are answered.
LEMMA OpenOrAnswered ==
    ASSUME NEW s \in Seq(GoodEntries), Trail(s)
    PROVE  /\ OpenAction(s) = {} => AllAnswered(s)
           /\ \A i \in OpenAction(s) : i \in 1 .. Len(s) /\ OpenOnly(s, s[i].turn)
<1>0. DOMAIN s = 1 .. Len(s) /\ Len(s) \in Nat
  BY LenProperties
<1>1. ASSUME OpenAction(s) = {}, NEW i \in 1 .. Len(s), s[i].kind = "action"
      PROVE  Answered(s, i)
  <2> SUFFICES ASSUME \A j \in 1 .. Len(s) : s[j].kind = "action" => j <= i
               PROVE  Answered(s, i)
    BY <1>1 DEF Trail
  <2>1. PICK j \in 1 .. Len(s) : j > i /\ IsResult(s[j]) /\ s[j].turn = s[i].turn
    BY <1>0, <1>1 DEF OpenAction
  <2> QED
    BY <2>1 DEF Answered
<1>2. ASSUME NEW i \in OpenAction(s)
      PROVE  i \in 1 .. Len(s) /\ OpenOnly(s, s[i].turn)
  <2>1. i \in 1 .. Len(s) /\ s[i].kind = "action" /\ \A j \in 1 .. Len(s) : s[j].kind = "action" => j <= i
    BY <1>0, <1>2 DEF OpenAction
  <2>2. ASSUME NEW k \in 1 .. Len(s), s[k].kind = "action", ~Answered(s, k) PROVE k = i
    <3>1. i <= k /\ k <= i
      BY <2>1, <2>2 DEF Trail
    <3> QED
      BY <1>0, <2>1, <3>1
  <2> QED
    BY <2>1, <2>2 DEF OpenOnly
<1> QED
  BY <1>1, <1>2 DEF AllAnswered

\* The line of a resumed session, the repair, and its record.
LEMMA PlayRepair ==
    ASSUME NEW lost \in BOOLEAN, NEW items \in Seq(GoodEntries), NEW e \in GoodEntries,
           NEW p \in Seq(GoodLines), Len(p) = 3, Inert(p[1]), p[2] = Line("item", e), Inert(p[3])
    PROVE  \E m : /\ Played(lost, items, p, m) /\ m[Len(p)] = Append(items, e)
                  /\ \A k \in 0 .. Len(p) : m[k] \in {items, Append(items, e)}
<1> DEFINE r == Append(items, e)
           m == [k \in 0 .. Len(p) |-> IF k <= 1 THEN items ELSE r]
<1>1. r \in Seq(GoodEntries)
  BY Appending
<1>2. Applied(items, p[1]) = items /\ Applied(items, p[2]) = r /\ Applied(r, p[3]) = r
  BY DEF Applied, Inert, Line
<1> HIDE DEF r
<1>3. /\ m \in [0 .. Len(p) -> Seq(GoodEntries)] /\ m[0] = items /\ m[1] = items
      /\ m[2] = r /\ m[3] = r /\ \A k \in 0 .. Len(p) : m[k] \in {items, r}
  BY <1>1
<1> HIDE DEF m
<1>4. ASSUME NEW k \in 1 .. Len(p)
      PROVE  m[k] = IF lost /\ k = 1 THEN m[k - 1] ELSE Applied(m[k - 1], p[k])
  <2>1. CASE k = 1
    BY <1>2, <1>3, <2>1
  <2>2. CASE k = 2
    BY <1>2, <1>3, <2>2
  <2>3. CASE k = 3
    BY <1>2, <1>3, <2>3
  <2> QED
    BY <2>1, <2>2, <2>3
<1>5. Played(lost, items, p, m)
  BY <1>3, <1>4 DEF Played
<1> QED
  BY <1>3, <1>5 DEF r

LEMMA StartFreshKeeps == ASSUME Inv, StartFresh PROVE Inv'
<1> DEFINE d == Entry("task", 0, NoCall)
           e == Entry("context", 0, NoCall)
           l == Line("session_meta", e)
           p == Log(<<d, e>>, <<l>>)
           q == IF torn THEN file.items ELSE Append(file.items, d)
<1>1. /\ NewAttempt /\ turn' = 1 /\ effects' = {} /\ asked' = 0
      /\ transcript' = <<d, e>> /\ pending' = p
      /\ pending = <<>> /\ attempts' = attempts + 1
      /\ IF caller = "refine" THEN attempts = 0 ELSE ~Resumable /\ ~file.ended
  BY DEF StartFresh, NewAttempt, Running
<1>2. /\ Stored /\ file \in GoodFiles /\ torn \in BOOLEAN /\ attempts \in Nat /\ PriorTurns \in Nat
      /\ caller \in {"conversation", "refine"}
  BY <1>1, Settled DEF Inv, Shapes, Stored, Callers
<1>3. caller = "refine" => file = EmptyFile /\ torn = FALSE
  BY <1>1 DEF Inv, Fragments
<1>4. file.items = <<>>
  <2>1. CASE caller = "refine"
    BY <1>3, <2>1 DEF EmptyFile
  <2>2. CASE caller # "refine"
    <3>1. ~file.any \/ ReconstructTranscript(file) = <<>>
      BY <1>1, <2>2 DEF Resumable
    <3> QED
      BY <1>2, <3>1, Reconstructed DEF Stored
  <2> QED
    BY <2>1, <2>2
<1>5. file.effects = {}
  <2>1. CASE caller = "refine"
    BY <1>3, <2>1 DEF EmptyFile
  <2>2. CASE caller = "conversation"
    BY <2>2 DEF Inv, Ledger
  <2> QED
    BY <1>2, <2>1, <2>2
<1>6. caller = "refine" => ~file.base
  BY <1>3 DEF EmptyFile
<1>7. d \in GoodEntries /\ d.kind = "task" /\ e \in GoodEntries /\ e.kind = "context"
  BY GoodEntry, BoundsAssumption DEF Kinds
<1>8. l \in GoodLines /\ Inert(l) /\ l.type = "session_meta"
  BY <1>7, GoodMark
<1> HIDE DEF d, e, l
<1>9. <<l>> \in Seq(GoodLines) /\ Len(<<l>>) = 1 /\ <<l>>[1] = l
  BY <1>8
<1>10. /\ p \in Seq(GoodLines) /\ Len(p) = 3 /\ p[1] = Line("item", d) /\ p[2] = Line("item", e)
       /\ p[3] = l
  <2>1. /\ p \in Seq(GoodLines) /\ Len(p) = Len(<<l>>) + 2
        /\ p[1] = Line("item", d) /\ p[2] = Line("item", e)
        /\ \A k \in 1 .. Len(<<l>>) : p[k + 2] = <<l>>[k]
    BY <1>7, <1>9, LogTwo
  <2> HIDE DEF p
  <2> QED
    BY <1>9, <2>1
<1> HIDE DEF p
<1>11. p[1].type = "item" /\ p[2].type = "item" /\ p[3].type = "session_meta"
  BY <1>7, <1>8, <1>10, GoodItem
<1>12. \A k \in 1 .. Len(p) : k = 1 \/ k = 2 \/ k = 3
  BY <1>10
<1>13. PICK m : /\ Played(torn, file.items, p, m) /\ m[Len(p)] = Append(q, e)
                /\ \A k \in 0 .. Len(p) : m[k] \in {file.items, q, Append(q, e)}
  <2>1. Len(p) >= 2
    BY <1>10
  <2>2. \A k \in 3 .. Len(p) : Inert(p[k])
    <3>1. \A k \in 3 .. Len(p) : k = 3
      BY <1>10
    <3> QED
      BY <1>8, <1>10, <3>1
  <2>3. file.items \in Seq(GoodEntries)
    BY <1>2 DEF GoodFiles
  <2> QED
    BY <1>2, <1>7, <1>10, <2>1, <2>2, <2>3, PlayTwo, ZenonT(20)
<1>14. AllAnswered(<<>>) /\ <<>> \in Seq(GoodEntries)
  BY EmptySeq DEF AllAnswered
<1>15. AllAnswered(q) /\ q \in Seq(GoodEntries)
  <2>1. Append(<<>>, d) \in Seq(GoodEntries) /\ AllAnswered(Append(<<>>, d))
    BY <1>7, <1>14, Appending, AppendOther
  <2> QED
    BY <1>4, <1>14, <2>1
<1>16. torn = FALSE => q = Append(<<>>, d)
  BY <1>4
<1> HIDE DEF q
<1>17. AllAnswered(Append(q, e))
  BY <1>7, <1>15, AppendOther
<1>18. Trails(p, m) /\ AllAnswered(m[Len(p)])
  <2>1. Trail(file.items) /\ Trail(q) /\ Trail(Append(q, e))
    BY <1>4, <1>14, <1>15, <1>17, AnsweredTrails
  <2> QED
    BY <1>13, <1>17, <2>1 DEF Trails
<1>19. <<d, e>> = Append(Append(<<>>, d), e)
  OBVIOUS
<1>20. transcript' \in Seq(GoodEntries) /\ AllAnswered(transcript')
  <2>1. Append(<<>>, d) \in Seq(GoodEntries) /\ AllAnswered(Append(<<>>, d))
    BY <1>7, <1>14, Appending, AppendOther
  <2>2. Append(Append(<<>>, d), e) \in Seq(GoodEntries) /\ AllAnswered(Append(Append(<<>>, d), e))
    BY <1>7, <2>1, Appending, AppendOther
  <2> QED
    BY <1>1, <1>19, <2>2
<1>21. caller = "refine" => m[Len(p)] = transcript'
  BY <1>1, <1>3, <1>13, <1>16, <1>19
<1>22. /\ turn' \in Nat \ {0} /\ asked' \in Nat /\ asked' <= PriorTurns + attempts'
       /\ asked' + 2 <= turn' + attempts' /\ asked' < MaxTurns + attempts' /\ PriorTurns >= turn' - 1
  BY <1>1, <1>2, BoundsAssumption
<1>23. /\ effects' \subseteq Calls /\ file.effects \subseteq effects'
  BY <1>1, <1>5
<1>24. /\ Len(p) >= 1 /\ p[1].type \in {"resumed", "item"}
       /\ caller = "refine" /\ torn => p[1].type = "resumed"
       /\ \A k \in 1 .. Len(p) : p[k].type \notin {"effect_committed", "compacted"}
  BY <1>3, <1>10, <1>11, <1>12
<1> QED
  BY <1>1, <1>6, <1>10, <1>13, <1>18, <1>20, <1>21, <1>22, <1>23, <1>24, Begins

LEMMA ResumeKeeps == ASSUME Inv, Resume PROVE Inv'
<1> DEFINE items == file.items
           s == ReconstructTranscript(file)
<1>1. /\ NewAttempt /\ turn' = PriorTurns + 1 /\ effects' = CommittedEffects(file) /\ asked' = asked
      /\ pending = <<>> /\ attempts' = attempts + 1
  BY DEF Resume, NewAttempt, Running
<1>2. \/ OpenAction(s) = {} /\ pending' = <<Resumed>> /\ transcript' = s
      \/ \E i \in OpenAction(s) :
            /\ pending' = <<Resumed, Line("item", Repair(s[i])), TurnRecord(s[i].turn)>>
            /\ transcript' = Append(s, Repair(s[i]))
  BY DEF Resume
<1>3. /\ Stored /\ torn \in BOOLEAN /\ attempts \in Nat /\ PriorTurns \in Nat /\ Trail(items)
      /\ asked \in Nat /\ asked <= PriorTurns + attempts /\ asked < MaxTurns + attempts
      /\ file.effects \subseteq Effects
  BY <1>1, Settled DEF Inv, Shapes, Stored, Held, Turns, TurnBudgetHolds, GoodFiles
<1>4. /\ items \in Seq(GoodEntries)
      /\ s \in Seq(GoodEntries) /\ Len(s) = Len(items) /\ Len(s) \in Nat
      /\ (file.base => file.meta) => s = items
      /\ \A i \in 1 .. Len(s) : s[i] = items[i] \/ (s[i].kind = "blank" /\ items[i].kind = "task")
  BY <1>3, Reconstructed
<1>5. effects' \subseteq Calls /\ file.effects \subseteq effects'
  <2>1. DoneCalls(s) \subseteq Calls
    <3>1. DOMAIN s = 1 .. Len(s)
      BY <1>4, LenProperties
    <3>2. \A i \in 1 .. Len(s) : s[i].kind = "done" => s[i].call \in Calls
      BY <1>4, ElementOfSeq DEF GoodEntries
    <3> HIDE DEF s
    <3> QED
      BY <3>1, <3>2 DEF DoneCalls
  <2> QED
    BY <1>1, <1>3, <2>1 DEF CommittedEffects, Calls
<1>6. /\ turn' \in Nat \ {0} /\ asked' \in Nat /\ asked' <= PriorTurns + attempts'
      /\ asked' + 2 <= turn' + attempts' /\ asked' < MaxTurns + attempts' /\ PriorTurns >= turn' - 1
  BY <1>1, <1>3, BoundsAssumption
<1> HIDE DEF s
<1>7. /\ \A i \in 1 .. Len(s) : \/ s[i] = items[i]
                                \/ s[i].kind \in {"blank", "task"} /\ items[i].kind \in {"blank", "task"}
      /\ \A i \in 1 .. Len(items) : \/ items[i] = s[i]
                                    \/ items[i].kind \in {"blank", "task"} /\ s[i].kind \in {"blank", "task"}
  BY <1>4
<1> HIDE DEF items
<1>8. Trail(s)
  BY <1>3, <1>4, <1>7, SameActions
<1>9. CASE OpenAction(s) = {} /\ pending' = <<Resumed>> /\ transcript' = s
  <2> DEFINE p == <<Resumed>>
  <2>1. p \in Seq(GoodLines) /\ Len(p) = 1 /\ p[1] = Resumed
    BY GoodEnds
  <2> HIDE DEF p
  <2>2. \A k \in 1 .. Len(p) : k = 1
    BY <2>1
  <2>3. AllAnswered(s)
    BY <1>4, <1>8, <1>9, OpenOrAnswered
  <2>4. AllAnswered(items)
    BY <1>4, <1>7, <2>3, SameActions
  <2>5. PICK m : Played(torn, items, p, m) /\ \A k \in 0 .. Len(p) : m[k] = items
    BY <1>3, <1>4, <2>1, <2>2, GoodEnds, PlayNone
  <2>6. Trails(p, m) /\ m[Len(p)] = items
    <3>1. Len(p) \in 0 .. Len(p)
      BY <2>1
    <3> QED
      BY <1>3, <2>5, <3>1 DEF Trails
  <2>7. caller = "refine" /\ (file.base => file.meta) => m[Len(p)] = transcript'
    BY <1>4, <1>9, <2>6
  <2>8. /\ Len(p) >= 1 /\ p[1].type = "resumed"
        /\ \A k \in 1 .. Len(p) : p[k].type = "resumed"
    BY <2>1, <2>2, GoodEnds
  <2>9. pending' = p /\ transcript' \in Seq(GoodEntries) /\ AllAnswered(transcript')
        /\ AllAnswered(m[Len(p)]) /\ Played(torn, file.items, p, m)
    BY <1>4, <1>9, <2>3, <2>4, <2>5, <2>6 DEF p, items
  <2> QED
    BY <1>1, <1>5, <1>6, <2>1, <2>6, <2>7, <2>8, <2>9, Begins
<1>10. ASSUME NEW i \in OpenAction(s),
              pending' = <<Resumed, Line("item", Repair(s[i])), TurnRecord(s[i].turn)>>,
              transcript' = Append(s, Repair(s[i]))
       PROVE  Inv'
  <2> DEFINE e == Repair(s[i])
             p == <<Resumed, Line("item", e), TurnRecord(s[i].turn)>>
  <2>1. i \in 1 .. Len(s) /\ OpenOnly(s, s[i].turn)
    BY <1>4, <1>8, <1>10, OpenOrAnswered
  <2>2. s[i].turn \in 0 .. MaxTurns /\ s[i].call \in Calls \cup {NoCall}
    BY <1>4, <2>1, ElementOfSeq DEF GoodEntries, Entries
  <2>3. e \in GoodEntries /\ e.kind \in {"unknown", "unstarted"} /\ e.turn = s[i].turn
    <3>1. Disposition(file, s[i]) \in {"unknown", "unstarted"}
      BY DEF Disposition
    <3> QED
      BY <2>2, <3>1, GoodEntry DEF Repair, Kinds
  <2>4. IsResult(e)
    BY <2>3 DEF IsResult
  <2>5. TurnRecord(s[i].turn) \in GoodLines /\ Inert(TurnRecord(s[i].turn))
        /\ TurnRecord(s[i].turn).type = "turn_record"
    BY <2>2, GoodRecord
  <2> HIDE DEF e
  <2>6. /\ p \in Seq(GoodLines) /\ Len(p) = 3 /\ p[1] = Resumed /\ p[2] = Line("item", e)
        /\ p[3] = TurnRecord(s[i].turn)
    BY <2>3, <2>5, GoodEnds, GoodItem
  <2> HIDE DEF p
  <2>7. \A k \in 1 .. Len(p) : k = 1 \/ k = 2 \/ k = 3
    BY <2>6
  <2>8. OpenOnly(items, s[i].turn)
    BY <1>4, <1>7, <2>1, SameActions
  <2>9. AllAnswered(Append(s, e)) /\ AllAnswered(Append(items, e)) /\ Append(s, e) \in Seq(GoodEntries)
    BY <1>4, <2>1, <2>3, <2>4, <2>8, AppendAnswer, Appending
  <2>10. PICK m : /\ Played(torn, items, p, m) /\ m[Len(p)] = Append(items, e)
                  /\ \A k \in 0 .. Len(p) : m[k] \in {items, Append(items, e)}
    <3>1. Inert(p[1]) /\ Inert(p[3]) /\ p[2] = Line("item", e) /\ Len(p) = 3 /\ p \in Seq(GoodLines)
      BY <2>5, <2>6, GoodEnds
    <3>2. torn \in BOOLEAN /\ items \in Seq(GoodEntries) /\ e \in GoodEntries
      BY <1>3, <1>4, <2>3
    <3> QED
      BY <3>1, <3>2, PlayRepair
  <2>11. Trails(p, m)
    BY <1>3, <2>9, <2>10, AnsweredTrails DEF Trails
  <2>12. /\ Len(p) >= 1 /\ p[1].type = "resumed"
         /\ \A k \in 1 .. Len(p) : p[k].type \in {"resumed", "item", "turn_record"}
    BY <2>3, <2>5, <2>6, <2>7, GoodEnds, GoodItem
  <2>13. pending' = p /\ transcript' = Append(s, e)
    BY <1>10 DEF p, e
  <2>14. /\ transcript' \in Seq(GoodEntries) /\ AllAnswered(transcript') /\ AllAnswered(m[Len(p)])
         /\ caller = "refine" /\ (file.base => file.meta) => m[Len(p)] = transcript'
    BY <1>4, <2>9, <2>10, <2>13
  <2>15. Played(torn, file.items, p, m)
    BY <2>10 DEF items
  <2> QED
    BY <1>1, <1>5, <1>6, <2>6, <2>11, <2>12, <2>13, <2>14, <2>15, Begins
<1> QED
  BY <1>2, <1>9, <1>10

-----------------------------------------------------------------------------
(* The disk and the crash *)

LEMMA CrashKeeps == ASSUME Inv, Crash PROVE Inv'
<1>1. /\ pending' = <<>> /\ pc' = "idle" /\ transcript' = <<>> /\ turn' = 0 /\ effects' = {}
      /\ invalid' = 0 /\ reasks' = 0 /\ call' = NoCall
      /\ UNCHANGED <<caller, file, attempts, asked, ran>>
  BY DEF Crash, Forget
<1>2. torn' \in BOOLEAN /\ attempts # 0
  BY DEF Crash, Inv, Shapes, Stored, Fragments
<1>3. <<>> \in Seq(GoodLines) /\ Len(<<>>) = 0 /\ <<>> \in Seq(GoodEntries) /\ \A k \in 1 .. Len(<<>>) : FALSE
  BY EmptySeq
<1>4. Shapes'
  <2>1. Stored'
    BY <1>1, <1>2 DEF Inv, Shapes, Stored
  <2>2. asked' \in Nat /\ ran' \in [Effects -> Nat]
    BY <1>1 DEF Inv, Shapes, Held
  <2>3. Held'
    BY <1>1, <1>3, <2>2, BoundsAssumption DEF Held, InTool
  <2> QED
    BY <2>1, <2>3 DEF Shapes
<1>5. Fragments'
  BY <1>1, <1>2, <1>3 DEF Fragments
<1>6. Ledger'
  <2>1. call' \notin Effects
    BY <1>1, CallsAssumption DEF Calls
  <2> QED
    BY <1>1, <1>3, <2>1 DEF Inv, Ledger
<1>7. Turns'
  BY <1>1 DEF Inv, Turns, TurnBudgetHolds, PriorTurns, Asking, InTool
<1>8. Answers'
  <2>1. file.items \in Seq(GoodEntries)
    BY DEF Inv, Shapes, Stored, GoodFiles
  <2>2. Trail(file.items)
    <3>1. PICK m : Played(torn, file.items, pending, m) /\ Trails(pending, m)
      BY DEF Inv, Answers
    <3>2. 0 \in 0 .. Len(pending)
      BY LenProperties DEF Inv, Shapes, Held
    <3> QED
      BY <3>1, <3>2 DEF Played, Trails
  <2>0. PICK lost \in BOOLEAN : torn' = lost
    BY <1>2
  <2>3. PICK m : Played(lost, file.items, <<>>, m) /\ \A k \in 0 .. Len(<<>>) : m[k] = file.items
    BY <2>1, PlayEmpty
  <2>4. Trails(<<>>, m)
    BY <2>2, <2>3 DEF Trails
  <2>5. ~Mirrors' /\ \A x : Closed(x)'
    BY <1>1 DEF Mirrors, Closed, Asking, InTool
  <2> QED
    BY <1>1, <2>0, <2>3, <2>4, <2>5 DEF Answers
<1> QED
  BY <1>4, <1>5, <1>6, <1>7, <1>8 DEF Inv

\* What the file holds once the next line is on disk.
LEMMA FlushedFile ==
    ASSUME Inv, Flush
    PROVE  /\ pending[1] \in GoodLines /\ Len(pending) \in Nat \ {0} /\ Head(pending) = pending[1]
           /\ Tail(pending) \in Seq(GoodLines) /\ Len(Tail(pending)) = Len(pending) - 1
           /\ \A k \in 1 .. Len(Tail(pending)) :
                 k + 1 \in 1 .. Len(pending) /\ Tail(pending)[k] = pending[k + 1]
           /\ file' \in GoodFiles
           /\ file'.items = IF torn THEN file.items ELSE Applied(file.items, pending[1])
           /\ torn \/ pending[1].type # "compacted" => file'.base = file.base
           /\ file.base => file'.base
           /\ torn \/ pending[1].type # "session_meta" => file'.meta = file.meta
           /\ torn \/ file'.any
<1>1. /\ pending # <<>> /\ pending \in Seq(GoodLines) /\ file \in GoodFiles /\ torn \in BOOLEAN
      /\ file' = IF torn THEN file ELSE Appended(file, Head(pending))
  BY DEF Flush, Inv, Shapes, Stored, Held
<1>2. /\ pending[1] \in GoodLines /\ Len(pending) \in Nat \ {0} /\ Head(pending) = pending[1]
      /\ Tail(pending) \in Seq(GoodLines) /\ Len(Tail(pending)) = Len(pending) - 1
      /\ \A k \in 1 .. Len(Tail(pending)) : Tail(pending)[k] = pending[k + 1]
  BY <1>1, HeadTailProperties, EmptySeq, ElementOfSeq
<1>3. \A k \in 1 .. Len(Tail(pending)) : k + 1 \in 1 .. Len(pending)
  BY <1>2
<1> DEFINE l == pending[1]
<1>4. file.meta \in BOOLEAN /\ file.base \in BOOLEAN /\ file.any \in BOOLEAN
  BY <1>1 DEF GoodFiles
<1>5. CASE torn
  BY <1>1, <1>2, <1>3, <1>4, <1>5
<1>6. CASE ~torn
  <2>1. file' = Appended(file, l)
    BY <1>1, <1>2, <1>6
  <2>2. Appended(file, l).meta = (file.meta \/ l.type = "session_meta")
    BY <1>1, <1>2, AppendedRest
  <2>3. /\ Appended(file, l) \in GoodFiles /\ Appended(file, l).items = Applied(file.items, l)
        /\ Appended(file, l).base = (file.base \/ l.type = "compacted")
        /\ Appended(file, l).any = TRUE
    <3>1. CASE Inert(l)
      <4>1. Applied(file.items, l) = file.items /\ l.type # "compacted"
        BY <3>1 DEF Applied, Inert
      <4> QED
        BY <1>1, <1>2, <1>4, <3>1, <4>1, AppendedMarks
    <3>2. CASE ~Inert(l)
      BY <1>1, <1>2, <3>2, AppendedEntry
    <3> QED
      BY <3>1, <3>2
  <2>4. l.type # "compacted" => file'.base = file.base
    BY <1>4, <2>1, <2>3
  <2>5. l.type # "session_meta" => file'.meta = file.meta
    BY <1>4, <2>1, <2>2
  <2>6. (file.base => file'.base) /\ file'.any
    BY <1>4, <2>1, <2>3
  <2>7. file' \in GoodFiles /\ file'.items = Applied(file.items, l)
    BY <2>1, <2>3
  <2> QED
    BY <1>2, <1>3, <1>6, <2>4, <2>5, <2>6, <2>7
<1> QED
  BY <1>5, <1>6

LEMMA FlushKeeps == ASSUME Inv, Flush PROVE Inv'
<1> DEFINE l == pending[1]
           q == Tail(pending)
<1>1. /\ pending # <<>> /\ pending \in Seq(GoodLines) /\ file \in GoodFiles /\ torn \in BOOLEAN
      /\ file' = (IF torn THEN file ELSE Appended(file, Head(pending))) /\ torn' = FALSE /\ pending' = q
      /\ UNCHANGED <<caller, pc, transcript, turn, effects, invalid, reasks, call, attempts, asked, ran>>
  BY DEF Flush, Inv, Shapes, Stored, Held, mem
<1>2. /\ l \in GoodLines /\ Len(pending) \in Nat \ {0} /\ Head(pending) = l
      /\ q \in Seq(GoodLines) /\ Len(q) = Len(pending) - 1
      /\ \A k \in 1 .. Len(q) : k + 1 \in 1 .. Len(pending) /\ q[k] = pending[k + 1]
      /\ 1 \in 1 .. Len(pending)
  BY FlushedFile
<1>3. /\ file' \in GoodFiles
      /\ file'.items = IF torn THEN file.items ELSE Applied(file.items, l)
      /\ torn \/ l.type # "compacted" => file'.base = file.base
      /\ file.base => file'.base
      /\ torn \/ l.type # "session_meta" => file'.meta = file.meta
      /\ torn \/ file'.any
  BY FlushedFile
<1>4. torn => file' = file /\ l.type \in {"resumed", "item"}
  BY <1>1 DEF Inv, Fragments
<1>5. ~torn => file' = Appended(file, l)
  BY <1>1, <1>2
<1> HIDE DEF q
<1>6. Shapes'
  <2>1. /\ file.base => file.items # <<>> /\ file.items[1].kind = "task"
        /\ ~file.any => file.items = <<>>
        /\ caller \in Callers /\ attempts \in Nat /\ file.items \in Seq(GoodEntries)
    BY DEF Inv, Shapes, Stored, GoodFiles
  <2>2. file'.base => file'.items # <<>> /\ file'.items[1].kind = "task"
    <3>1. CASE torn \/ Inert(l)
      <4>1. file'.items = file.items /\ file'.base = file.base
        <5>1. Inert(l) => Applied(file.items, l) = file.items /\ l.type # "compacted"
          BY DEF Inert, Applied
        <5> QED
          BY <1>3, <3>1, <5>1
      <4> QED
        BY <2>1, <4>1
    <3>2. CASE ~torn /\ l.type = "item"
      <4>1. file'.items = Append(file.items, l.entry) /\ file'.base = file.base /\ l.entry \in GoodEntries
        <5>1. Applied(file.items, l) = Append(file.items, l.entry) /\ l.type # "compacted"
          BY <3>2 DEF Applied
        <5>2. l.entry \in GoodEntries
          BY <1>2 DEF GoodLines
        <5> QED
          BY <1>3, <3>2, <5>1, <5>2
      <4>2. file.items # <<>> => /\ Append(file.items, l.entry) # <<>>
                                 /\ Append(file.items, l.entry)[1] = file.items[1]
        BY <2>1, <4>1, AppendProperties, EmptySeq
      <4> QED
        BY <2>1, <4>1, <4>2
    <3>3. CASE ~torn /\ l.type = "compacted"
      <4>1. file'.items = l.kept /\ l.kept # <<>> /\ l.kept[1].kind = "task"
        BY <1>2, <1>3, <3>3 DEF Applied, GoodLines
      <4> QED
        BY <4>1
    <3> QED
      BY <3>1, <3>2, <3>3 DEF Inert
  <2>3. ~file'.any => file'.items = <<>>
    BY <1>3, <1>4, <2>1
  <2>4. Stored'
    BY <1>1, <1>3, <2>1, <2>2, <2>3 DEF Stored
  <2>5. Held'
    BY <1>1, <1>2 DEF Inv, Shapes, Held
  <2> QED
    BY <2>4, <2>5 DEF Shapes
<1>7. Fragments'
  <2>1. attempts' # 0
    BY <1>1 DEF Inv, Fragments
  <2>2. ASSUME caller' = "refine", NEW k \in 1 .. Len(q), q[k].type = "session_meta"
        PROVE  ~file'.base /\ \A j \in 1 .. Len(q) : q[j].type # "compacted"
    <3>1. ~file.base /\ \A j \in 1 .. Len(pending) : pending[j].type # "compacted"
      BY <1>1, <1>2, <2>2 DEF Inv, Fragments
    <3> QED
      BY <1>2, <1>3, <3>1
  <2> QED
    BY <1>1, <2>1, <2>2 DEF Fragments
<1>8. Ledger'
  <2>1. file'.effects = IF l.type = "effect_committed" THEN file.effects \cup {l.entry.call} ELSE file.effects
    BY <1>1, <1>2, <1>4, <1>5, AppendedRest
  <2>2. l.type = "effect_committed" => caller = "refine" /\ pc # "idle" /\ l.entry.call \in effects
    BY <1>2 DEF Inv, Ledger
  <2>3. \A k \in 1 .. Len(q) : q[k].type = "effect_committed" =>
            caller = "refine" /\ pc # "idle" /\ q[k].entry.call \in effects
    BY <1>2 DEF Inv, Ledger
  <2> QED
    BY <1>1, <2>1, <2>2, <2>3 DEF Inv, Ledger
<1>9. Turns'
  <2>1. /\ file.records \in Nat /\ file.lastTurn \in Nat /\ turn \in Nat /\ asked \in Nat /\ attempts \in Nat
        /\ l.entry.turn \in Nat /\ PriorTurns \in Nat
    BY <1>1, <1>2, BoundsAssumption DEF Inv, Shapes, Stored, Held, GoodFiles, GoodLines, GoodEntries,
       Entries, PriorTurns
  <2>2. /\ file'.records = IF l.type = "turn_record" THEN file.records + 1 ELSE file.records
        /\ file'.lastTurn = IF l.type = "turn_record" THEN MaxOf(file.lastTurn, l.entry.turn)
                            ELSE file.lastTurn
    BY <1>1, <1>2, <1>4, <1>5, AppendedRest, ZenonT(20)
  <2>3. PriorTurns' \in Nat /\ PriorTurns' >= PriorTurns
    BY <1>1, <2>1, <2>2 DEF PriorTurns, MaxOf
  <2>4. ASSUME pc # "idle"
        PROVE  \/ PriorTurns' >= turn - 1
               \/ RecordDue' /\ PriorTurns' >= turn - 2
    <3>1. CASE PriorTurns >= turn - 1
      BY <2>1, <2>3, <3>1
    <3>2. CASE RecordDue /\ PriorTurns >= turn - 2
      <4>1. PICK k \in 1 .. Len(pending) :
               pending[k].type = "turn_record" /\ pending[k].entry.turn >= turn - 1
        BY <3>2 DEF RecordDue
      <4>2. CASE k = 1
        <5>1. PriorTurns' >= turn - 1
          BY <1>1, <2>1, <2>2, <3>2, <4>1, <4>2 DEF PriorTurns, MaxOf
        <5> QED
          BY <5>1
      <4>3. CASE k # 1
        <5>1. k - 1 \in 1 .. Len(q) /\ (k - 1) + 1 = k
          BY <1>2, <4>3
        <5>2. q[k - 1] = pending[k]
          BY <1>2, <5>1
        <5>3. RecordDue'
          BY <1>1, <4>1, <5>1, <5>2 DEF RecordDue
        <5> QED
          BY <2>1, <2>3, <3>2, <5>3
      <4> QED
        BY <4>2, <4>3
    <3> QED
      BY <2>4, <3>1, <3>2 DEF Inv, Turns
  <2>5. asked <= PriorTurns' + attempts
    BY <2>1, <2>3 DEF Inv, Turns
  <2> QED
    BY <1>1, <2>4, <2>5 DEF Inv, Turns, TurnBudgetHolds
<1>10. Answers'
  <2>1. PICK m : /\ Played(torn, file.items, pending, m) /\ Trails(pending, m)
                 /\ Closed(m[Len(pending)])
                 /\ Mirrors => Alike(m[Len(pending)], transcript)
    BY DEF Inv, Answers
  <2>2. PICK r : r = m[Len(pending)]
    OBVIOUS
  <2>3. PICK n : Played(FALSE, file'.items, q, n) /\ n[Len(q)] = r /\ Trails(q, n)
    <3>1. m[0] = file.items /\ m[1] = IF torn THEN m[0] ELSE Applied(m[0], pending[1])
      BY <1>2, <2>1 DEF Played
    <3>2. m[1] = file'.items
      BY <1>3, <3>1
    <3>3. pending # <<>> /\ pending \in Seq(GoodLines) /\ Played(torn, file.items, pending, m)
      BY <1>1, <2>1
    <3>4. PICK n : /\ Played(FALSE, m[1], Tail(pending), n) /\ n[Len(Tail(pending))] = m[Len(pending)]
                   /\ Trails(pending, m) => Trails(Tail(pending), n)
      BY <3>3, PlayOn
    <3> QED
      BY <2>1, <2>2, <3>2, <3>4 DEF q
  <2>4. Mirrors' => Mirrors
    <3>1. ASSUME Mirrors', file.base, ~torn, l.type = "session_meta" PROVE FALSE
      BY <1>1, <1>2, <3>1 DEF Inv, Fragments, Mirrors
    <3>2. file.base \in BOOLEAN /\ file.meta \in BOOLEAN
      BY <1>1 DEF GoodFiles
    <3> QED
      BY <1>1, <1>3, <3>1, <3>2 DEF Mirrors
  <2>5. Closed(r)' /\ Closed(transcript)'
    <3>1. Closed(r) /\ Closed(transcript)
      BY <2>1, <2>2 DEF Inv, Answers
    <3> QED
      BY <1>1, <3>1 DEF Closed
  <2>6. Mirrors' => Alike(r, transcript')
    BY <1>1, <2>1, <2>2, <2>4
  <2>7. PICK p : p = q
    OBVIOUS
  <2>8. Played(FALSE, file'.items, p, n) /\ Trails(p, n) /\ n[Len(p)] = r /\ pending' = p
    BY <1>1, <2>3, <2>7
  <2>9. Closed(n[Len(p)])'
    BY <2>5, <2>8
  <2> QED
    BY <1>1, <2>5, <2>6, <2>8, <2>9 DEF Answers
<1> QED
  BY <1>6, <1>7, <1>8, <1>9, <1>10 DEF Inv

-----------------------------------------------------------------------------
(* The invariant *)

LEMMA Initially == Init => Inv
<1> SUFFICES ASSUME Init PROVE Inv
  OBVIOUS
<1>1. /\ caller \in Callers /\ file = EmptyFile /\ torn = FALSE /\ pending = <<>> /\ pc = "idle"
      /\ transcript = <<>> /\ turn = 0 /\ effects = {} /\ invalid = 0 /\ reasks = 0 /\ call = NoCall
      /\ attempts = 0 /\ asked = 0 /\ ran = [c \in Effects |-> 0]
  BY DEF Init
<1>2. <<>> \in Seq(GoodLines) /\ Len(<<>>) = 0 /\ <<>> \in Seq(GoodEntries) /\ \A k \in 1 .. Len(<<>>) : FALSE
  BY EmptySeq
<1>3. EmptyFile \in GoodFiles /\ EmptyFile.base = FALSE /\ EmptyFile.items = <<>>
      /\ EmptyFile.effects = {} /\ EmptyFile.records = 0 /\ EmptyFile.lastTurn = 0
  BY <1>2 DEF EmptyFile, GoodFiles
<1>4. Shapes
  <2>1. Stored
    BY <1>1, <1>3 DEF Stored
  <2>2. Held
    BY <1>1, <1>2, BoundsAssumption DEF Held, InTool
  <2> QED
    BY <2>1, <2>2 DEF Shapes
<1>5. Fragments
  BY <1>1, <1>2 DEF Fragments
<1>6. Ledger
  <2>1. call \notin Effects
    BY <1>1, CallsAssumption DEF Calls
  <2> QED
    BY <1>1, <1>2, <1>3, <2>1 DEF Ledger
<1>7. Turns
  BY <1>1, <1>3, BoundsAssumption DEF Turns, TurnBudgetHolds, PriorTurns, Asking, InTool
<1>8. Answers
  <2>1. PICK m : Played(torn, <<>>, <<>>, m) /\ \A k \in 0 .. Len(<<>>) : m[k] = <<>>
    BY <1>2, PlayEmpty
  <2>2. Trails(<<>>, m)
    <3>1. Trail(<<>>)
      BY <1>2 DEF Trail
    <3> QED
      BY <2>1, <3>1 DEF Trails
  <2>3. ~Mirrors /\ \A x : Closed(x)
    BY <1>1 DEF Mirrors, Closed, Asking, InTool
  <2> QED
    BY <1>1, <1>3, <2>1, <2>2, <2>3 DEF Answers
<1> QED
  BY <1>4, <1>5, <1>6, <1>7, <1>8 DEF Inv

LEMMA StutterKeeps == ASSUME Inv, UNCHANGED vars PROVE Inv'
<1>1. UNCHANGED <<caller, file, torn, pending, pc, transcript, turn, effects, invalid, reasks, call,
                  attempts, asked, ran>>
  BY DEF vars, mem
<1>2. Shapes'
  BY <1>1 DEF Inv, Shapes, Stored, Held
<1>3. Fragments' /\ Ledger'
  BY <1>1 DEF Inv, Fragments, Ledger
<1>4. Turns'
  BY <1>1 DEF Inv, Turns, TurnBudgetHolds, PriorTurns, RecordDue
<1>5. Answers'
  BY <1>1 DEF Inv, Answers, Closed, Mirrors
<1> QED
  BY <1>2, <1>3, <1>4, <1>5 DEF Inv

LEMMA StepKeeps == Inv /\ [Next]_vars => Inv'
<1> SUFFICES ASSUME Inv, [Next]_vars PROVE Inv'
  OBVIOUS
<1>1. CASE StartFresh
  BY <1>1, StartFreshKeeps
<1>2. CASE Resume
  BY <1>2, ResumeKeeps
<1>3. CASE Loop
  <2>1. CASE OutOfTurns \/ StopAtTop \/ BudgetSpent \/ CallFails \/ AbortBeforeTool
    BY <2>1, EndingKeeps
  <2>2. CASE BeginTurn
    BY <2>2, BeginTurnKeeps
  <2>3. CASE Compact
    BY <2>3, CompactKeeps
  <2>4. CASE NoCompact
    BY <2>4, NoCompactKeeps
  <2>17. CASE MicroCompact
    BY <2>17, MicroCompactKeeps
  <2>5. CASE InvalidOutput
    BY <2>5, InvalidOutputKeeps
  <2>6. CASE UnknownTool
    BY <2>6, UnknownToolKeeps
  <2>7. CASE FinishAccepted
    BY <2>7, FinishAcceptedKeeps
  <2>8. CASE FinishRejected
    BY <2>8, FinishRejectedKeeps
  <2>9. CASE UseTool
    BY <2>9, UseToolKeeps
  <2>10. CASE Denied
    BY <2>10, DeniedKeeps
  <2>11. CASE BadArgs
    BY <2>11, BadArgsKeeps
  <2>12. CASE Replay
    BY <2>12, ReplayKeeps
  <2>13. CASE StartTool
    BY <2>13, StartToolKeeps
  <2>14. CASE ToolSucceeds
    BY <2>14, ToolSucceedsKeeps
  <2>15. CASE ToolFails
    BY <2>15, ToolFailsKeeps
  <2>16. CASE Flush
    BY <2>16, FlushKeeps
  <2> QED
    BY <1>3, <2>1, <2>2, <2>3, <2>4, <2>5, <2>6, <2>7, <2>8, <2>9, <2>10, <2>11, <2>12, <2>13,
       <2>14, <2>15, <2>16, <2>17 DEF Loop
<1>4. CASE Crash
  BY <1>4, CrashKeeps
<1>5. CASE UNCHANGED vars
  BY <1>5, StutterKeeps
<1> QED
  BY <1>1, <1>2, <1>3, <1>4, <1>5 DEF Next

LEMMA Invariance == Spec => []Inv
  BY Initially, StepKeeps, PTL DEF Spec

-----------------------------------------------------------------------------
(* The theorems *)

LEMMA GoodIsTyped ==
    /\ GoodEntries \subseteq Entries /\ Seq(GoodEntries) \subseteq Seq(Entries)
    /\ GoodLines \subseteq Lines /\ Seq(GoodLines) \subseteq Seq(Lines)
    /\ GoodFiles \subseteq Files
<1>1. GoodEntries \subseteq Entries
  BY DEF GoodEntries
<1>2. Seq(GoodEntries) \subseteq Seq(Entries)
  BY <1>1
<1>3. GoodLines \subseteq Lines
  BY <1>1, <1>2 DEF GoodLines, Lines
<1>4. Seq(GoodLines) \subseteq Seq(Lines)
  BY <1>3
<1>5. GoodFiles \subseteq Files
  BY <1>2 DEF GoodFiles, Files, Keys
<1> QED
  BY <1>1, <1>2, <1>3, <1>4, <1>5

(* Every variable keeps its type, whatever the calls, the limits and the   *)
(* crashes; a turn number in the file or in the transcript never exceeds   *)
(* maxTurns (loop.ts:263).                                                 *)
THEOREM TypeCorrect == Spec => []TypeOK
<1>1. Inv => TypeOK
  <2> SUFFICES ASSUME Inv PROVE TypeOK
    OBVIOUS
  <2>1. file \in Files /\ pending \in Seq(Lines) /\ transcript \in Seq(Entries)
    BY GoodIsTyped DEF Inv, Shapes, Stored, Held
  <2> QED
    BY <2>1 DEF Inv, Shapes, Stored, Held, TypeOK, Live
<1> QED
  BY <1>1, Invariance, PTL

(* An effect with an effect_committed line is never run again: every line  *)
(* that commits an effect is in the ledger of the memory that wrote it,    *)
(* and a resume reads the ledger back from the file (loop.ts:555-592).     *)
THEOREM CommittedOnce == Spec => CommittedNeverRerun
<1>1. Inv /\ [Next]_vars => [CommittedNotRun]_vars
  <2> SUFFICES ASSUME Inv, Next PROVE CommittedNotRun
    BY DEF vars
  <2>1. CASE ToolSucceeds
    <3>1. /\ pc = "exec" /\ ran' = IF call \in Effects THEN [ran EXCEPT ![call] = @ + 1] ELSE ran
      BY <2>1 DEF ToolSucceeds, Running
    <3>2. call \in Effects => call \notin file.effects
      BY <3>1 DEF Inv, Ledger
    <3>3. ran \in [Effects -> Nat] /\ file.effects \subseteq Effects
      BY DEF Inv, Shapes, Stored, Held, GoodFiles
    <3> QED
      BY <3>1, <3>2, <3>3 DEF CommittedNotRun
  <2>2. CASE ~ToolSucceeds
    <3>1. ran' = ran
      BY <2>2 DEF Next, Loop, StartFresh, Resume, NewAttempt, Crash, Flush, OutOfTurns, StopAtTop,
         BudgetSpent, CallFails, AbortBeforeTool, BeginTurn, Compact, MicroCompact, NoCompact,
         InvalidOutput, UnknownTool, FinishAccepted, FinishRejected, UseTool, Denied, BadArgs, Replay, StartTool,
         ToolFails, Call, Tools, External
    <3> QED
      BY <3>1 DEF CommittedNotRun
  <2> QED
    BY <2>1, <2>2
<1> QED
  BY <1>1, Invariance, PTL DEF Spec, CommittedNeverRerun

(* Interrupting and resuming a session gives it back at most the turn that *)
(* was cut off (conversation-agent.ts:127, refine.ts:350).                 *)
THEOREM TurnBudget == Spec => []TurnBudgetHolds
<1>1. Inv => TurnBudgetHolds
  BY DEF Inv, Turns
<1> QED
  BY <1>1, Invariance, PTL

(* Whenever the lines of a step are on disk, the rollout of a refinement   *)
(* reconstructs to the transcript in memory, entry by entry, but for       *)
(* results that micro-compaction cut in memory only (loop.ts:189,          *)
(* loop.ts:361-363).                                                       *)
THEOREM RolloutAgrees == Spec => []RolloutMatchesMemory
<1>1. Inv => RolloutMatchesMemory
  <2> SUFFICES ASSUME Inv, caller = "refine", pc # "idle", pending = <<>>, file.base => file.meta
               PROVE  Alike(ReconstructTranscript(file), transcript)
    BY DEF RolloutMatchesMemory, OnDisk
  <2>1. ReconstructTranscript(file) = file.items
    BY DEF ReconstructTranscript
  <2>2. Alike(file.items, transcript)
    BY Settled DEF Mirrors
  <2> QED
    BY <2>1, <2>2
<1> QED
  BY <1>1, Invariance, PTL

(* The model is never shown a tool action without an answer, after a       *)
(* compaction, a crash at any line and the repair of a resume included     *)
(* (rollout.ts:15-16, loop.ts:205-219).                                    *)
THEOREM ActionsAnswered == Spec => []ActionsAreAnswered
<1>1. Inv => ActionsAreAnswered
  <2> SUFFICES ASSUME Inv, pc \in {"loop", "gate", "call"},
                      NEW i \in DOMAIN transcript, transcript[i].kind = "action"
               PROVE  \E j \in DOMAIN transcript :
                         /\ j > i
                         /\ IsResult(transcript[j]) \/ transcript[j].kind = "error"
                         /\ transcript[j].turn = transcript[i].turn
    BY DEF ActionsAreAnswered
  <2>1. DOMAIN transcript = 1 .. Len(transcript)
    BY LenProperties DEF Inv, Shapes, Held
  <2>2. AllAnswered(transcript)
    BY DEF Inv, Answers, Closed, Asking
  <2> QED
    BY <2>1, <2>2 DEF AllAnswered, Answered
<1> QED
  BY <1>1, Invariance, PTL
=============================================================================
