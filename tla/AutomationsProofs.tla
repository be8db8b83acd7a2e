------------------------- MODULE AutomationsProofs -------------------------
(***************************************************************************)
(* Theorems about Automations, for any processes, automations, runs and    *)
(* bounds.                                                                 *)
(*                                                                         *)
(* TypeOK is not inductive: rows are written back from copies that passes  *)
(* and requests made of them, so the copies have to be sound too.          *)
(***************************************************************************)
EXTENDS Automations, SequenceTheorems, FiniteSetTheorems, TLAPS

-----------------------------------------------------------------------------
(* Lists of run ids.                                                       *)

\* Appending ids that are not in a list, each once, repeats none.
LEMMA AppendedOnce ==
    ASSUME NEW S, NEW s \in Seq(S), NEW t \in Seq(S), NoRepeats(s), NoRepeats(t),
           \A i \in DOMAIN t : t[i] \notin Elems(s)
    PROVE  s \o t \in Seq(S) /\ NoRepeats(s \o t)
<1>1. PICK u : u = s \o t OBVIOUS
<1>2. /\ u \in Seq(S) /\ Len(u) = Len(s) + Len(t)
      /\ \A i \in 1 .. Len(s) + Len(t) : u[i] = IF i <= Len(s) THEN s[i] ELSE t[i - Len(s)]
  BY <1>1, ConcatProperties
<1>3. /\ Len(s) \in Nat /\ Len(t) \in Nat /\ DOMAIN s = 1 .. Len(s) /\ DOMAIN t = 1 .. Len(t)
      /\ DOMAIN u = 1 .. Len(s) + Len(t)
  BY <1>2, LenProperties
<1>4. ASSUME NEW i \in DOMAIN u, NEW j \in DOMAIN u, u[i] = u[j], i <= Len(s), j > Len(s)
      PROVE  FALSE
  <2>1. i \in DOMAIN s /\ j - Len(s) \in DOMAIN t /\ s[i] = t[j - Len(s)]
    BY <1>2, <1>3, <1>4
  <2> QED BY <2>1 DEF Elems
<1>5. ASSUME NEW i \in DOMAIN u, NEW j \in DOMAIN u, u[i] = u[j] PROVE i = j
  <2>1. CASE i <= Len(s) /\ j <= Len(s)
    BY <2>1, <1>2, <1>3, <1>5 DEF NoRepeats
  <2>2. CASE i > Len(s) /\ j > Len(s)
    <3>1. i - Len(s) \in DOMAIN t /\ j - Len(s) \in DOMAIN t /\ t[i - Len(s)] = t[j - Len(s)]
      BY <2>2, <1>2, <1>3, <1>5
    <3>2. i - Len(s) = j - Len(s) BY <3>1 DEF NoRepeats
    <3> QED BY <3>2, <1>3
  <2>3. CASE i <= Len(s) /\ j > Len(s) BY <2>3, <1>4, <1>5
  <2>4. CASE j <= Len(s) /\ i > Len(s) BY <2>4, <1>4, <1>5
  <2> QED BY <2>1, <2>2, <2>3, <2>4, <1>3
<1> QED BY <1>1, <1>2, <1>5 DEF NoRepeats

\* The last n ids of a list without repeats are at most n and do not repeat.
LEMMA LastOfBounded ==
    ASSUME NEW S, NEW s \in Seq(S), NEW n \in Nat, NoRepeats(s)
    PROVE  LastOf(s, n) \in Seq(S) /\ Len(LastOf(s, n)) <= n /\ NoRepeats(LastOf(s, n))
<1>1. Len(s) \in Nat /\ DOMAIN s = 1 .. Len(s) BY LenProperties
<1>2. CASE Len(s) <= n BY <1>1, <1>2 DEF LastOf
<1>3. CASE ~(Len(s) <= n)
  <2>1. PICK m : m = Len(s) - n + 1 OBVIOUS
  <2>2. m \in 1 .. Len(s) + 1 BY <1>1, <1>3, <2>1
  <2>3. PICK u : u = SubSeq(s, m, Len(s)) OBVIOUS
  <2>4. \A i \in m .. Len(s) : s[i] \in S BY <1>1, <2>2, ElementOfSeq
  <2>5. u \in Seq(S) /\ Len(u) = n /\ (\A i \in 1 .. n : u[i] = s[m + i - 1])
    BY <1>1, <1>3, <2>1, <2>2, <2>3, <2>4, SubSeqProperties
  <2>6. DOMAIN u = 1 .. n BY <2>5, LenProperties
  <2>7. NoRepeats(u)
    <3>1. SUFFICES ASSUME NEW i \in 1 .. n, NEW j \in 1 .. n, u[i] = u[j] PROVE i = j
      BY <2>6 DEF NoRepeats
    <3>2. m + i - 1 \in DOMAIN s /\ m + j - 1 \in DOMAIN s BY <1>1, <1>3, <2>1
    <3>3. s[m + i - 1] = s[m + j - 1] BY <2>5, <3>1
    <3>4. m + i - 1 = m + j - 1 BY <3>2, <3>3 DEF NoRepeats
    <3> QED BY <3>4, <2>2, <1>1
  <2>8. LastOf(s, n) = u BY <1>3, <2>1, <2>3 DEF LastOf
  <2> QED BY <2>5, <2>7, <2>8
<1> QED BY <1>2, <1>3

\* Runs listed with the newest first are a list of them without repeats.
LEMMA ListsOfRuns ==
    ASSUME NEW S, S \subseteq Runs, NEW s \in NewestFirst(S)
    PROVE  s \in Seq(S) /\ NoRepeats(s) /\ \A i \in DOMAIN s : s[i] \in S
<1>1. Cardinality(S) \in Nat
  <2>1. IsFiniteSet(Runs) BY BoundsAssumption, FS_Interval DEF Runs
  <2> QED BY <2>1, FS_Subset, FS_CardinalityType
<1>2. /\ s \in [1 .. Cardinality(S) -> S]
      /\ \A i, j \in DOMAIN s : i < j => s[i] > s[j]
  BY DEF NewestFirst
<1>3. s \in Seq(S) BY <1>1, <1>2, SeqDef
<1>4. ASSUME NEW i \in DOMAIN s, NEW j \in DOMAIN s, s[i] = s[j] PROVE i = j
  <2>1. i \in Nat /\ j \in Nat BY <1>1, <1>2
  <2>2. s[i] \in Nat /\ s[j] \in Nat
    <3>1. s[i] \in Runs /\ s[j] \in Runs BY <1>2
    <3> QED BY <3>1, BoundsAssumption DEF Runs
  <2>3. ~(i < j) /\ ~(j < i) BY <1>2, <1>4, <2>2
  <2> QED BY <2>1, <2>3
<1>5. NoRepeats(s) BY <1>4 DEF NoRepeats
<1> QED BY <1>2, <1>3, <1>5

-----------------------------------------------------------------------------
(* The inductive invariant.                                                *)

\* A row, or a copy of one.
Sound(r) == r \in Rows /\ Len(r.notified) <= MaxNotified /\ NoRepeats(r.notified)

\* The rows and the clock.
Stored ==
    /\ row \in [Autos -> Rows] /\ \A a \in Autos : Sound(row[a])
    /\ open \in BOOLEAN
    /\ run \in [Runs -> {"none", "active", "completed", "deleted"}]
    /\ now \in 1 .. MaxTime /\ disturbed \in 0 .. MaxDisturbances
    /\ announced \in [OnCompletion -> [Runs -> 0 .. 2]]

Places == [auto : Autos, snapshot : Rows]
Passes == [pc : {"idle", "loop", "turn"}, left : Seq(Places), at : 0 .. MaxTime,
           auto : Autos \cup {None}, snapshot : Rows, new : SUBSET Runs]

\* A pass in its loop has a place before it, one in a turn the automation it
\* fired, and the copies it holds are sound.
PassSound(t) ==
    /\ t \in Passes
    /\ \A i \in DOMAIN t.left : Sound(t.left[i].snapshot)
    /\ Sound(t.snapshot)
    /\ t.pc = "loop" => t.left # <<>>
    /\ t.pc = "turn" => t.auto \in Autos

Passing ==
    /\ proc \in [Procs -> Passes]
    /\ \A p \in Procs : PassSound(proc[p])

Patching ==
    /\ patch \in [auto : Autos \cup {None}, snapshot : Rows]
    /\ Sound(patch.snapshot)
    /\ patch # NoPatch => patch.auto \in Autos

Inv == Stored /\ Passing /\ Patching

\* A deleted row and a new one are sound.
LEMMA NoRowSound == Sound(NoRow) /\ Sound(NewRow)
<1>1. <<>> \in Seq(Runs) /\ Len(<<>>) = 0 /\ DOMAIN <<>> = {} BY EmptySeq
<1>2. NoRow \in Rows /\ NewRow \in Rows BY <1>1, BoundsAssumption DEF NoRow, NewRow, Rows
<1>3. NoRow.notified = <<>> /\ NewRow.notified = <<>> BY DEF NoRow, NewRow
<1> QED BY <1>1, <1>2, <1>3, BoundsAssumption DEF Sound, NoRepeats

\* A process without a pass is sound.
LEMMA IdleSound == PassSound(Idle) /\ Idle.left = <<>>
<1>1. <<>> \in Seq(Places) /\ DOMAIN <<>> = {} BY EmptySeq
<1>2. NoRow \in Rows BY NoRowSound DEF Sound
<1>3. Idle \in Passes BY <1>1, <1>2, BoundsAssumption DEF Idle, Passes, None
<1>4. /\ Idle.left = <<>> /\ Idle.snapshot = NoRow /\ Idle.pc = "idle"
  BY DEF Idle
<1> QED BY <1>1, <1>3, <1>4, NoRowSound DEF PassSound

\* A row stamped with a time and the last of its ids and new ones is sound.
LEMMA MarkedSound ==
    ASSUME NEW f, Sound(f), NEW c, Sound(c), NEW new, new \subseteq Runs,
           NEW at \in 0 .. MaxTime, NEW r \in MarkFired(f, c, new, at)
    PROVE  Sound(r) /\ (f.exists => r.enabled = f.enabled)
<1>1. PICK b : b = IF f.exists THEN f ELSE c OBVIOUS
<1>2. Sound(b) BY <1>1
<1>3. PICK s \in NewestFirst(new \ Elems(b.notified)) :
        r = [b EXCEPT !.last = at, !.notified = LastOf(@ \o s, MaxNotified)]
  BY <1>1 DEF MarkFired
<1>4. new \ Elems(b.notified) \subseteq Runs OBVIOUS
<1>5. /\ s \in Seq(new \ Elems(b.notified)) /\ NoRepeats(s)
      /\ \A i \in DOMAIN s : s[i] \in new \ Elems(b.notified)
  BY <1>3, <1>4, ListsOfRuns
<1>6. s \in Seq(Runs) /\ b.notified \in Seq(Runs) /\ b \in Rows /\ NoRepeats(b.notified)
  BY <1>2, <1>5 DEF Sound, Rows
<1>7. \A i \in DOMAIN s : s[i] \notin Elems(b.notified) BY <1>5
<1>8. b.notified \o s \in Seq(Runs) /\ NoRepeats(b.notified \o s)
  BY <1>5, <1>6, <1>7, AppendedOnce
<1>9. PICK l : l = LastOf(b.notified \o s, MaxNotified) OBVIOUS
<1>10. l \in Seq(Runs) /\ Len(l) <= MaxNotified /\ NoRepeats(l)
  BY <1>8, <1>9, LastOfBounded, BoundsAssumption
<1>11. r = [b EXCEPT !.last = at, !.notified = l] BY <1>3, <1>9
<1>12. r \in Rows /\ r.notified = l /\ r.enabled = b.enabled
  BY <1>6, <1>10, <1>11 DEF Rows
<1> QED BY <1>1, <1>10, <1>12 DEF Sound

\* The rest of a pass: its tail, or nothing.
LEMMA ContinueSound ==
    ASSUME NEW p \in Procs, PassSound(proc[p]), NEW left \in Seq(Places),
           \A i \in DOMAIN left : Sound(left[i].snapshot)
    PROVE  PassSound(Continue(p, left))
<1>1. PICK t : t = Continue(p, left) OBVIOUS
<1>2. CASE left = <<>> BY <1>2, IdleSound DEF Continue
<1>3. CASE left # <<>>
  <2>1. Continue(p, left) = [Idle EXCEPT !.pc = "loop", !.left = left, !.at = proc[p].at]
    BY <1>3 DEF Continue
  <2>2. t = [Idle EXCEPT !.pc = "loop", !.left = left, !.at = proc[p].at] BY <1>1, <2>1
  <2>3. Idle \in Passes /\ proc[p].at \in 0 .. MaxTime BY IdleSound DEF PassSound, Passes
  <2>4. t \in Passes /\ t.pc = "loop" /\ t.left = left /\ t.snapshot = Idle.snapshot
    BY <2>2, <2>3 DEF Passes
  <2> QED BY <1>1, <1>3, <2>4, IdleSound DEF PassSound
<1> QED BY <1>2, <1>3

\* A pass in its loop takes a sound place off its list and leaves sound ones.
LEMMA TailSound ==
    ASSUME NEW p \in Procs, PassSound(proc[p]), Working(p)
    PROVE  /\ Head(proc[p].left) \in Places /\ Sound(Head(proc[p].left).snapshot)
           /\ Remaining(p) \in Seq(Places)
           /\ \A i \in DOMAIN Remaining(p) : Sound(Remaining(p)[i].snapshot)
<1>1. proc[p].left \in Seq(Places) /\ proc[p].left # <<>>
  BY DEF PassSound, Passes, Working
<1>2. PICK l : l = proc[p].left OBVIOUS
<1>3. l \in Seq(Places) /\ l # <<>> /\ \A i \in DOMAIN l : Sound(l[i].snapshot)
  BY <1>1, <1>2 DEF PassSound
<1>4. /\ Tail(l) \in Seq(Places) /\ Len(Tail(l)) = Len(l) - 1 /\ Head(l) = l[1]
      /\ Head(l) \in Places /\ \A i \in 1 .. Len(Tail(l)) : Tail(l)[i] = l[i + 1]
  BY <1>3, HeadTailProperties
<1>5. Len(l) \in Nat \ {0} /\ DOMAIN l = 1 .. Len(l) /\ DOMAIN Tail(l) = 1 .. Len(Tail(l))
  BY <1>3, <1>4, LenProperties, EmptySeq
<1>6. 1 \in DOMAIN l /\ \A i \in DOMAIN Tail(l) : i + 1 \in DOMAIN l BY <1>4, <1>5
<1>7. Sound(Head(l).snapshot) BY <1>3, <1>4, <1>6
<1>8. \A i \in DOMAIN Tail(l) : Sound(Tail(l)[i].snapshot) BY <1>3, <1>4, <1>5, <1>6
<1> QED BY <1>2, <1>4, <1>7, <1>8 DEF Remaining

-----------------------------------------------------------------------------
(* The steps.                                                              *)

\* The invariant holds of fresh rows and idle processes.
LEMMA InitInv == Init => Inv
<1> SUFFICES ASSUME Init PROVE Inv OBVIOUS
<1>1. Stored
  <2>1. row \in [Autos -> Rows] /\ \A a \in Autos : Sound(row[a])
    BY NoRowSound DEF Init, Sound
  <2>2. 1 \in 1 .. MaxTime /\ 0 \in 0 .. MaxDisturbances BY BoundsAssumption
  <2> QED BY <2>1, <2>2 DEF Init, Stored
<1>2. Passing BY IdleSound DEF Init, Passing, PassSound
<1>3. Patching
  <2>1. NoPatch \in [auto : Autos \cup {None}, snapshot : Rows] /\ NoPatch.snapshot = NoRow
    BY NoRowSound DEF NoPatch, Sound
  <2> QED BY <2>1, NoRowSound DEF Init, Patching
<1> QED BY <1>1, <1>2, <1>3 DEF Inv

\* Writing one sound row, or stamping one, keeps the rows sound.
LEMMA RowWritten ==
    ASSUME row \in [Autos -> Rows], \A a \in Autos : Sound(row[a]),
           NEW b \in Autos, NEW r, Sound(r), row' = [row EXCEPT ![b] = r]
    PROVE  row' \in [Autos -> Rows] /\ \A a \in Autos : Sound(row'[a])
<1>1. r \in Rows BY DEF Sound
<1> QED BY <1>1

\* The claim writes the time of the pass into a row.
LEMMA Stamped ==
    ASSUME NEW r, Sound(r), NEW at \in 0 .. MaxTime
    PROVE  Sound([r EXCEPT !.last = at])
<1>1. r \in Rows BY DEF Sound
<1>2. [r EXCEPT !.last = at] \in Rows /\ [r EXCEPT !.last = at].notified = r.notified
  BY <1>1 DEF Rows
<1> QED BY <1>2 DEF Sound

\* A row written with its switch on or off stays sound.
LEMMA Switched ==
    ASSUME NEW r, Sound(r)
    PROVE  \A on \in BOOLEAN : Sound([r EXCEPT !.enabled = on])
<1> SUFFICES ASSUME NEW on \in BOOLEAN PROVE Sound([r EXCEPT !.enabled = on]) OBVIOUS
<1>1. r \in Rows BY DEF Sound
<1>2. [r EXCEPT !.enabled = on] \in Rows /\ [r EXCEPT !.enabled = on].notified = r.notified
  BY <1>1 DEF Rows
<1> QED BY <1>2 DEF Sound

\* Replacing the pass of one process by a sound one keeps all of them sound.
LEMMA PassReplaced ==
    ASSUME Passing, NEW p \in Procs, NEW t, PassSound(t), proc' = [proc EXCEPT ![p] = t]
    PROVE  Passing'
<1>1. t \in Passes BY DEF PassSound
<1>2. proc' \in [Procs -> Passes] BY <1>1 DEF Passing
<1>3. \A q \in Procs : proc'[q] = IF q = p THEN t ELSE proc[q] BY DEF Passing
<1>4. \A q \in Procs : PassSound(proc'[q]) BY <1>3 DEF Passing
<1> QED BY <1>2, <1>4 DEF Passing, PassSound, Passes, Sound, Rows, Places

\* The copies a pass makes are sound because the rows are.
LEMMA StartTickInv == ASSUME Inv, NEW p \in Procs, StartTick(p) PROVE Inv'
<1>1. Stored' BY DEF Inv, Stored, StartTick, Sound, Rows
<1>2. Patching' BY DEF Inv, Patching, StartTick
<1>3. PICK l : l = [i \in DOMAIN Listed |-> [auto |-> Listed[i], snapshot |-> row[Listed[i]]]]
  OBVIOUS
<1>4. /\ Listed \in Seq(Autos) /\ {Listed[i] : i \in DOMAIN Listed} = Autos
      /\ Len(Listed) \in Nat /\ DOMAIN Listed = 1 .. Len(Listed)
  BY AutosAssumption, LenProperties
<1>5. \A i \in DOMAIN Listed : Listed[i] \in Autos BY <1>4
<1>6. \A i \in DOMAIN Listed : [auto |-> Listed[i], snapshot |-> row[Listed[i]]] \in Places
  BY <1>5 DEF Inv, Stored, Places
<1>7. l \in [1 .. Len(Listed) -> Places] BY <1>3, <1>4, <1>6
<1>8. l \in Seq(Places) BY <1>4, <1>7, SeqDef
<1>9. DOMAIN l = DOMAIN Listed BY <1>3
<1>10. \A i \in DOMAIN l : l[i].snapshot = row[Listed[i]] BY <1>3, <1>9
<1>11. \A i \in DOMAIN l : Sound(l[i].snapshot) BY <1>5, <1>9, <1>10 DEF Inv, Stored
<1>12. l # <<>>
  <2>1. PICK a \in Autos : row[a].exists BY DEF StartTick
  <2>2. DOMAIN l # {} BY <2>1, <1>4, <1>9
  <2> QED BY <2>2, EmptySeq
<1>13. PICK t : t = [Idle EXCEPT !.pc = "loop", !.at = now, !.left = l] OBVIOUS
<1>14. Idle \in Passes /\ now \in 0 .. MaxTime BY IdleSound DEF PassSound, Inv, Stored
<1>15. t \in Passes /\ t.pc = "loop" /\ t.left = l /\ t.snapshot = Idle.snapshot
  BY <1>8, <1>13, <1>14 DEF Passes
<1>16. PassSound(t) BY <1>11, <1>12, <1>15, IdleSound DEF PassSound
<1>17. proc' = [proc EXCEPT ![p] = t] BY <1>3, <1>13 DEF StartTick
<1>18. Passing' BY <1>16, <1>17, PassReplaced DEF Inv
<1> QED BY <1>1, <1>2, <1>18 DEF Inv

\* A place that is passed over.
LEMMA SkipInv == ASSUME Inv, NEW p \in Procs, Skip(p) PROVE Inv'
<1>1. Stored' BY DEF Inv, Stored, Skip, Sound, Rows
<1>2. Patching' BY DEF Inv, Patching, Skip
<1>3. PassSound(proc[p]) /\ Working(p) BY DEF Inv, Passing, Skip
<1>4. PassSound(Continue(p, Remaining(p))) BY <1>3, TailSound, ContinueSound
<1>5. proc' = [proc EXCEPT ![p] = Continue(p, Remaining(p))] BY DEF Skip
<1>6. Passing' BY <1>4, <1>5, PassReplaced DEF Inv
<1> QED BY <1>1, <1>2, <1>6 DEF Inv

\* The claim, written by Fire and by a crash behind it.
LEMMA Claimed ==
    ASSUME Inv, NEW p \in Procs, Working(p),
           row' = [row EXCEPT ![Head(proc[p].left).auto].last = proc[p].at]
    PROVE  row' \in [Autos -> Rows] /\ \A a \in Autos : Sound(row'[a])
<1>1. PassSound(proc[p]) BY DEF Inv, Passing
<1>2. PICK h : h = Head(proc[p].left) OBVIOUS
<1>3. h.auto \in Autos /\ proc[p].at \in 0 .. MaxTime
  BY <1>1, <1>2, TailSound DEF Places, PassSound, Passes
<1>4. /\ row \in [Autos -> Rows] /\ \A a \in Autos : Sound(row[a]) BY DEF Inv, Stored
<1>5. PICK r : r = [row[h.auto] EXCEPT !.last = proc[p].at] OBVIOUS
<1>6. Sound(r) BY <1>3, <1>4, <1>5, Stamped
<1>7. row' = [row EXCEPT ![h.auto] = r] BY <1>2, <1>5
<1> QED BY <1>3, <1>4, <1>6, <1>7, RowWritten

\* The claim and the notice of a due automation.
LEMMA FireInv == ASSUME Inv, NEW p \in Procs, Fire(p) PROVE Inv'
<1>1. PassSound(proc[p]) /\ Working(p) BY DEF Inv, Passing, Fire
<1>2. PICK h : h = Head(proc[p].left) OBVIOUS
<1>3. PICK new : new = NewsOf(h.auto, h.snapshot) OBVIOUS
<1>4. /\ h \in Places /\ Sound(h.snapshot) /\ Remaining(p) \in Seq(Places)
      /\ \A i \in DOMAIN Remaining(p) : Sound(Remaining(p)[i].snapshot)
  BY <1>1, <1>2, TailSound
<1>5. /\ row' = [row EXCEPT ![h.auto].last = proc[p].at]
      /\ announced' = Announce(h.auto, new)
      /\ proc' = [proc EXCEPT ![p] = [@ EXCEPT !.pc = "turn", !.left = Remaining(p),
                                               !.auto = h.auto, !.snapshot = h.snapshot,
                                               !.new = new]]
      /\ UNCHANGED <<open, run, now, patch, disturbed>>
  BY <1>2, <1>3 DEF Fire
<1>6. row' \in [Autos -> Rows] /\ \A a \in Autos : Sound(row'[a])
  BY <1>1, <1>2, <1>5, Claimed
<1>7. new \subseteq Runs BY <1>3 DEF NewsOf, News, Completed
<1>8. announced' \in [OnCompletion -> [Runs -> 0 .. 2]]
  <2>1. h.auto \in Autos /\ announced \in [OnCompletion -> [Runs -> 0 .. 2]]
    BY <1>4 DEF Places, Inv, Stored
  <2>2. CASE h.auto \in Schedules BY <2>1, <2>2, <1>5 DEF Announce
  <2>3. CASE h.auto \notin Schedules
    <3>1. h.auto \in OnCompletion BY <2>1, <2>3 DEF Autos
    <3>2. PICK f : f = [r \in Runs |-> IF r \in new /\ announced[h.auto][r] < 2 THEN announced[h.auto][r] + 1
                                       ELSE announced[h.auto][r]]
      OBVIOUS
    <3>3. f \in [Runs -> 0 .. 2] BY <2>1, <3>1, <3>2
    <3>4. announced' = [announced EXCEPT ![h.auto] = f] BY <1>5, <2>1, <2>3, <3>1, <3>2 DEF Announce
    <3> QED BY <2>1, <3>3, <3>4
  <2> QED BY <2>2, <2>3
<1>9. Stored' BY <1>5, <1>6, <1>8 DEF Inv, Stored, Sound, Rows
<1>10. Patching' BY <1>5 DEF Inv, Patching
<1>11. PICK t : t = [proc[p] EXCEPT !.pc = "turn", !.left = Remaining(p), !.auto = h.auto,
                                    !.snapshot = h.snapshot, !.new = new]
  OBVIOUS
<1>12. proc[p] \in Passes /\ h.auto \in Autos /\ h.snapshot \in Rows
  BY <1>1, <1>4 DEF PassSound, Places
<1>13. /\ t \in Passes /\ t.pc = "turn" /\ t.left = Remaining(p) /\ t.snapshot = h.snapshot
       /\ t.new = new /\ t.auto = h.auto
  BY <1>4, <1>7, <1>11, <1>12 DEF Passes
<1>14. PassSound(t) BY <1>4, <1>7, <1>12, <1>13 DEF PassSound
<1>15. proc' = [proc EXCEPT ![p] = t] BY <1>5, <1>11 DEF Inv, Passing
<1>16. Passing' BY <1>14, <1>15, PassReplaced DEF Inv
<1> QED BY <1>9, <1>10, <1>16 DEF Inv

\* A copy written back with the switch off.
LEMMA FireNowhereInv == ASSUME Inv, NEW p \in Procs, FireNowhere(p) PROVE Inv'
<1>1. PassSound(proc[p]) /\ Working(p) BY DEF Inv, Passing, FireNowhere
<1>2. PICK h : h = Head(proc[p].left) OBVIOUS
<1>3. /\ row' = [row EXCEPT ![h.auto] = [h.snapshot EXCEPT !.enabled = FALSE]]
      /\ proc' = [proc EXCEPT ![p] = Continue(p, Remaining(p))]
      /\ UNCHANGED <<open, run, now, patch, disturbed, announced>>
  BY <1>2 DEF FireNowhere
<1>4. h.auto \in Autos /\ Sound(h.snapshot) BY <1>1, <1>2, TailSound DEF Places
<1>5. PICK r : r = [h.snapshot EXCEPT !.enabled = FALSE] OBVIOUS
<1>6. Sound(r) BY <1>4, <1>5, Switched, Zenon
<1>7. row' \in [Autos -> Rows] /\ \A a \in Autos : Sound(row'[a])
  BY <1>3, <1>4, <1>5, <1>6, RowWritten DEF Inv, Stored
<1>8. Stored' BY <1>3, <1>7 DEF Inv, Stored, Sound, Rows
<1>9. Patching' BY <1>3 DEF Inv, Patching
<1>10. PassSound(Continue(p, Remaining(p))) BY <1>1, TailSound, ContinueSound
<1>11. Passing' BY <1>3, <1>10, PassReplaced DEF Inv
<1> QED BY <1>8, <1>9, <1>11 DEF Inv

\* The row a turn leaves behind: the one that is there, stamped, if it is there.
LEMMA TurnMarks ==
    ASSUME Inv, NEW p \in Procs, TurnEnds(p)
    PROVE  \E b \in Autos, r \in Rows : /\ row' = [row EXCEPT ![b] = r] /\ Sound(r)
                                        /\ row[b].exists => r.enabled = row[b].enabled
<1>1. PICK t : t = proc[p] OBVIOUS
<1>2. PassSound(t) /\ t.pc = "turn" BY <1>1 DEF Inv, Passing, TurnEnds
<1>3. PICK r \in MarkFired(row[t.auto], t.snapshot, t.new, t.at) : row' = [row EXCEPT ![t.auto] = r]
  BY <1>1 DEF TurnEnds
<1>4. /\ t.auto \in Autos /\ Sound(t.snapshot) /\ t.new \subseteq Runs
      /\ t.at \in 0 .. MaxTime
  BY <1>2 DEF PassSound, Passes
<1>5. Sound(row[t.auto]) BY <1>4 DEF Inv, Stored
<1>6. Sound(r) /\ (row[t.auto].exists => r.enabled = row[t.auto].enabled)
  BY <1>3, <1>4, <1>5, MarkedSound
<1> QED BY <1>3, <1>4, <1>6 DEF Sound

\* markFired writes a sound row, fresh or brought back.
LEMMA TurnEndsInv == ASSUME Inv, NEW p \in Procs, TurnEnds(p) PROVE Inv'
<1>1. PICK b \in Autos, r \in Rows : row' = [row EXCEPT ![b] = r] /\ Sound(r) BY TurnMarks
<1>2. row' \in [Autos -> Rows] /\ \A a \in Autos : Sound(row'[a])
  BY <1>1, RowWritten DEF Inv, Stored
<1>3. /\ proc' = [proc EXCEPT ![p] = Continue(p, proc[p].left)]
      /\ UNCHANGED <<open, run, now, patch, disturbed, announced>>
  BY DEF TurnEnds
<1>4. Stored' BY <1>2, <1>3 DEF Inv, Stored, Sound, Rows
<1>5. Patching' BY <1>3 DEF Inv, Patching
<1>6. PassSound(proc[p]) BY DEF Inv, Passing
<1>7. proc[p].left \in Seq(Places) /\ \A i \in DOMAIN proc[p].left : Sound(proc[p].left[i].snapshot)
  BY <1>6 DEF PassSound, Passes
<1>8. PassSound(Continue(p, proc[p].left)) BY <1>6, <1>7, ContinueSound
<1>9. Passing' BY <1>3, <1>8, PassReplaced DEF Inv
<1> QED BY <1>4, <1>5, <1>9 DEF Inv

\* A turn that throws ends its pass and writes nothing.
LEMMA TurnThrowsInv == ASSUME Inv, NEW p \in Procs, TurnThrows(p) PROVE Inv'
<1>1. /\ proc' = [proc EXCEPT ![p] = Idle]
      /\ UNCHANGED <<row, open, run, now, patch, disturbed, announced>>
  BY DEF TurnThrows
<1>2. Stored' BY <1>1 DEF Inv, Stored, Sound, Rows
<1>3. Patching' BY <1>1 DEF Inv, Patching
<1>4. Passing' BY <1>1, IdleSound, PassReplaced DEF Inv
<1> QED BY <1>2, <1>3, <1>4 DEF Inv

\* A crash, perhaps behind a claim, drops the copies.
LEMMA CrashInv == ASSUME Inv, NEW p \in Procs, Crash(p) PROVE Inv'
<1>1. row' \in [Autos -> Rows] /\ \A a \in Autos : Sound(row'[a])
  <2>1. CASE UNCHANGED row BY <2>1 DEF Inv, Stored
  <2>2. CASE /\ Working(p)
             /\ row' = [row EXCEPT ![Head(proc[p].left).auto].last = proc[p].at]
    BY <2>2, Claimed
  <2> QED BY <2>1, <2>2 DEF Crash
<1>2. disturbed' \in 0 .. MaxDisturbances BY BoundsAssumption DEF Inv, Stored, Crash
<1>3. UNCHANGED <<open, run, now, announced>> /\ patch' \in {patch, NoPatch}
  BY DEF Crash
<1>4. Stored' BY <1>1, <1>2, <1>3 DEF Inv, Stored, Sound, Rows
<1>5. Patching'
  <2>1. CASE patch' = patch BY <2>1 DEF Inv, Patching
  <2>2. CASE patch' = NoPatch
    <3>1. NoPatch \in [auto : Autos \cup {None}, snapshot : Rows] /\ NoPatch.snapshot = NoRow
      BY NoRowSound DEF NoPatch, Sound
    <3> QED BY <2>2, <3>1, NoRowSound DEF Patching
  <2> QED BY <2>1, <2>2, <1>3
<1>6. proc' = [proc EXCEPT ![p] = Idle] BY DEF Crash
<1>7. Passing' BY <1>6, IdleSound, PassReplaced DEF Inv
<1> QED BY <1>4, <1>5, <1>7 DEF Inv

\* The requests that read, switch off and delete.
LEMMA RequestInv ==
    ASSUME Inv, NEW a \in Autos, PatchRead(a) \/ CancelAutomation(a) \/ DeleteAutomation(a)
    PROVE  Inv'
<1>1. proc' = proc /\ UNCHANGED <<open, run, now, announced>>
  BY DEF PatchRead, CancelAutomation, DeleteAutomation
<1>2. Passing' BY <1>1 DEF Inv, Passing, PassSound, Passes, Places, Sound, Rows
<1>3. disturbed' \in 0 .. MaxDisturbances
  BY BoundsAssumption DEF Inv, Stored, PatchRead, CancelAutomation, DeleteAutomation
<1>4. Sound(row[a]) /\ row \in [Autos -> Rows] /\ \A b \in Autos : Sound(row[b])
  BY DEF Inv, Stored
<1>5. row' \in [Autos -> Rows] /\ \A b \in Autos : Sound(row'[b])
  <2>1. CASE PatchRead(a) BY <2>1, <1>4 DEF PatchRead
  <2>2. CASE CancelAutomation(a)
    <3>1. PICK r : r = [row[a] EXCEPT !.enabled = FALSE] OBVIOUS
    <3>2. Sound(r) BY <3>1, <1>4, Switched, Zenon
    <3>3. row' = [row EXCEPT ![a] = r] BY <2>2, <3>1 DEF CancelAutomation
    <3> QED BY <1>4, <3>2, <3>3, RowWritten
  <2>3. CASE DeleteAutomation(a)
    <3>1. row' = [row EXCEPT ![a] = NoRow] BY <2>3 DEF DeleteAutomation
    <3> QED BY <1>4, <3>1, NoRowSound, RowWritten
  <2> QED BY <2>1, <2>2, <2>3
<1>6. Stored' BY <1>1, <1>3, <1>5 DEF Inv, Stored, Sound, Rows
<1>7. Patching'
  <2>1. CASE PatchRead(a)
    <3>1. patch' = [auto |-> a, snapshot |-> row[a]] BY <2>1 DEF PatchRead
    <3>2. patch'.auto = a /\ patch'.snapshot = row[a] /\ row[a] \in Rows BY <3>1, <1>4
    <3>3. patch' \in [auto : Autos \cup {None}, snapshot : Rows] BY <3>1, <3>2
    <3> QED BY <3>2, <3>3, <1>4 DEF Patching, Sound, Rows
  <2>2. CASE CancelAutomation(a) \/ DeleteAutomation(a)
    BY <2>2 DEF Inv, Patching, CancelAutomation, DeleteAutomation
  <2> QED BY <2>1, <2>2
<1> QED BY <1>2, <1>6, <1>7 DEF Inv

\* PATCH writes back a sound copy.
LEMMA PatchWriteInv == ASSUME Inv, PatchWrite PROVE Inv'
<1>1. PICK on \in BOOLEAN : row' = [row EXCEPT ![patch.auto] = [patch.snapshot EXCEPT !.enabled = on]]
  BY DEF PatchWrite
<1>2. patch.auto \in Autos /\ Sound(patch.snapshot) BY DEF Inv, Patching, PatchWrite
<1>3. PICK r : r = [patch.snapshot EXCEPT !.enabled = on] OBVIOUS
<1>4. Sound(r) BY <1>2, <1>3, Switched, Zenon
<1>5. row' \in [Autos -> Rows] /\ \A b \in Autos : Sound(row'[b])
  BY <1>1, <1>2, <1>3, <1>4, RowWritten DEF Inv, Stored
<1>6. Stored' BY <1>5 DEF Inv, Stored, PatchWrite, Sound, Rows
<1>7. Passing' BY DEF Inv, Passing, PassSound, Passes, Places, Sound, Rows, PatchWrite
<1>8. Patching'
  <2>1. NoPatch \in [auto : Autos \cup {None}, snapshot : Rows] /\ NoPatch.snapshot = NoRow
    BY NoRowSound DEF NoPatch, Sound
  <2> QED BY <2>1, NoRowSound DEF Patching, PatchWrite
<1> QED BY <1>6, <1>7, <1>8 DEF Inv

RunStep == \E r \in Runs : CreateRun(r) \/ CompleteRun(r) \/ ReopenRun(r) \/ DeleteRun(r)

\* The conversation, the clock and the runs.
LEMMA WorldInv ==
    ASSUME Inv, CloseConversation \/ TimePasses \/ RunStep
    PROVE  Inv'
<1>1. UNCHANGED <<row, proc, patch, announced>>
  BY DEF CloseConversation, TimePasses, RunStep, CreateRun, CompleteRun, ReopenRun, DeleteRun
<1>2. Passing' /\ Patching'
  BY <1>1 DEF Inv, Passing, Patching, PassSound, Passes, Places, Sound, Rows
<1>3. open' \in BOOLEAN /\ disturbed' \in 0 .. MaxDisturbances /\ now' \in 1 .. MaxTime
  <2>1. /\ open \in BOOLEAN /\ disturbed \in 0 .. MaxDisturbances /\ now \in 1 .. MaxTime
    BY DEF Inv, Stored
  <2>2. CASE CloseConversation
    <3>1. open' = FALSE /\ now' = now /\ disturbed' = disturbed + 1 /\ disturbed < MaxDisturbances
      BY <2>2 DEF CloseConversation
    <3>2. disturbed' \in 0 .. MaxDisturbances BY <2>1, <3>1, BoundsAssumption
    <3>3. open' \in BOOLEAN BY <3>1
    <3> QED BY <2>1, <3>1, <3>2, <3>3
  <2>3. CASE TimePasses BY <2>1, <2>3, BoundsAssumption DEF TimePasses
  <2>4. CASE RunStep
    BY <2>1, <2>4, BoundsAssumption DEF RunStep, CreateRun, CompleteRun, ReopenRun, DeleteRun
  <2> QED BY <2>2, <2>3, <2>4
<1>4. run' \in [Runs -> {"none", "active", "completed", "deleted"}]
  <2>1. run \in [Runs -> {"none", "active", "completed", "deleted"}] BY DEF Inv, Stored
  <2>2. CASE UNCHANGED run BY <2>1, <2>2
  <2>3. CASE RunStep
    BY <2>1, <2>3 DEF RunStep, CreateRun, CompleteRun, ReopenRun, DeleteRun
  <2> QED BY <2>2, <2>3 DEF CloseConversation, TimePasses
<1>5. Stored' BY <1>1, <1>3, <1>4 DEF Inv, Stored, Sound, Rows
<1> QED BY <1>2, <1>5 DEF Inv

\* Every step keeps the invariant.
LEMMA NextInv == Inv /\ [Next]_vars => Inv'
<1> SUFFICES ASSUME Inv, [Next]_vars PROVE Inv' OBVIOUS
<1>1. CASE UNCHANGED vars
  BY <1>1 DEF vars, Inv, Stored, Passing, Patching, PassSound, Passes, Places, Sound, Rows
<1>2. CASE \E p \in Procs : StartTick(p) \/ Pass(p) \/ Crash(p)
  BY <1>2, StartTickInv, SkipInv, FireInv, FireNowhereInv, TurnEndsInv, TurnThrowsInv, CrashInv DEF Pass
<1>3. CASE \E a \in Autos : PatchRead(a) \/ CancelAutomation(a) \/ DeleteAutomation(a)
  BY <1>3, RequestInv
<1>4. CASE PatchWrite BY <1>4, PatchWriteInv
<1>5. CASE CloseConversation \/ TimePasses \/ RunStep
  BY <1>5, WorldInv
<1> QED BY <1>1, <1>2, <1>3, <1>4, <1>5 DEF Next, RunStep

\* Type correctness, with the remembered run ids within their bound and without
\* repeats, for any passes, stale PATCHes, deletions and crashes.
THEOREM TypeCorrect == Spec => []TypeOK
<1>1. Inv => TypeOK
  BY DEF Inv, Stored, Passing, Patching, Sound, TypeOK, Passes, Places
<1> QED BY <1>1, InitInv, NextInv, PTL DEF Spec

\* Under the invariant no step but the write of a PATCH switches an automation on
\* that is stored and switched off.
LEMMA SwitchStep == Inv /\ [Next]_vars => [OnlyPatchSwitchesOn]_vars
<1> SUFFICES ASSUME Inv, Next, NEW a \in Autos, row[a].exists, ~row[a].enabled, row'[a].enabled
             PROVE  patch.auto = a
  BY DEF OnlyPatchSwitchesOn
<1>1. row \in [Autos -> Rows] /\ row[a] \in Rows BY DEF Inv, Stored
<1>2. ASSUME NEW p \in Procs, Working(p),
             row' = [row EXCEPT ![Head(proc[p].left).auto].last = proc[p].at]
      PROVE  FALSE
  BY <1>1, <1>2 DEF Rows
<1>3. ASSUME NEW p \in Procs, StartTick(p) \/ Skip(p) \/ TurnThrows(p) PROVE FALSE
  BY <1>3 DEF StartTick, Skip, TurnThrows
<1>4. ASSUME NEW p \in Procs, Fire(p) PROVE FALSE
  <2>1. Working(p) /\ row' = [row EXCEPT ![Head(proc[p].left).auto].last = proc[p].at]
    BY <1>4 DEF Fire
  <2> QED BY <2>1, <1>2
<1>5. ASSUME NEW p \in Procs, FireNowhere(p) PROVE FALSE
  <2>1. PassSound(proc[p]) /\ Working(p) BY <1>5 DEF Inv, Passing, FireNowhere
  <2>2. PICK h : h = Head(proc[p].left) OBVIOUS
  <2>3. row' = [row EXCEPT ![h.auto] = [h.snapshot EXCEPT !.enabled = FALSE]]
    BY <1>5, <2>2 DEF FireNowhere
  <2>4. h.auto \in Autos /\ h.snapshot \in Rows BY <2>1, <2>2, TailSound DEF Places, Sound
  <2> QED BY <2>3, <2>4, <1>1 DEF Rows
<1>6. ASSUME NEW p \in Procs, TurnEnds(p) PROVE FALSE
  <2>1. PICK b \in Autos, r \in Rows : /\ row' = [row EXCEPT ![b] = r]
                                       /\ row[b].exists => r.enabled = row[b].enabled
    BY <1>6, TurnMarks
  <2> QED BY <2>1, <1>1
<1>7. ASSUME NEW p \in Procs, Crash(p) PROVE FALSE
  <2>1. UNCHANGED row \/ (/\ Working(p)
                          /\ row' = [row EXCEPT ![Head(proc[p].left).auto].last = proc[p].at])
    BY <1>7 DEF Crash
  <2> QED BY <2>1, <1>2
<1>8. ASSUME NEW b \in Autos, PatchRead(b) \/ CancelAutomation(b) \/ DeleteAutomation(b)
      PROVE  FALSE
  BY <1>1, <1>8 DEF PatchRead, CancelAutomation, DeleteAutomation, NoRow, Rows
<1>9. CASE PatchWrite
  <2>1. PICK r : row' = [row EXCEPT ![patch.auto] = r] BY <1>9 DEF PatchWrite
  <2> QED BY <2>1, <1>1
<1>10. ASSUME CloseConversation \/ TimePasses \/ RunStep PROVE FALSE
  BY <1>10 DEF CloseConversation, TimePasses, RunStep, CreateRun, CompleteRun, ReopenRun, DeleteRun
<1> QED BY <1>3, <1>4, <1>5, <1>6, <1>7, <1>8, <1>9, <1>10 DEF Next, Pass, RunStep

\* What a turn in flight, a switched-off conversation or a crash writes never
\* switches an automation on again.
THEOREM SwitchCorrect == Spec => SwitchedOffStaysOff
<1> QED BY InitInv, NextInv, SwitchStep, PTL DEF Spec, SwitchedOffStaysOff
=============================================================================
