------------------------- MODULE RunLifecycleProofs -------------------------
(***************************************************************************)
(* Proofs about the run lifecycle, for every set of processes, every plan, *)
(* every choice of legs and caps and every bound on the environment.       *)
(*                                                                         *)
(* TypeOK is inductive by itself.  The rest follows from ControlInv: while *)
(* no live executor has outlasted its lease, every process between         *)
(* acquiring and releasing is the live holder; and a process that wrote    *)
(* after losing the lease has no other write pending and will not get the  *)
(* lease back before it leaves.  The steps of a process are first sorted   *)
(* into six forms by what they do to the lease and the program counter,    *)
(* so that the invariant is shown for the forms and not for each action.   *)
(*                                                                         *)
(* The last part is about a run with one process (Procs = {p}), which may  *)
(* crash, stall and be launched again.  SoloInv says what the document     *)
(* must be at each point of the execution (Sound), also of the document    *)
(* that is about to be written at the point where the process goes on.     *)
(***************************************************************************)
EXTENDS RunLifecycle, TLAPS

(* Documents *)

\* A document whose stages of one leg are reopened is a document.
LEMMA ReopenedDoc ==
    ASSUME NEW d \in Doc, NEW leg, NEW from
    PROVE  Reopened(d, leg, from) \in Doc
<1>1. "pending" \in StageStates /\ d.st \in [Stages -> StageStates]
  BY DEF StageStates, Doc
<1>2. [s \in Stages |-> IF s \in leg /\ d.st[s] \in from THEN "pending" ELSE d.st[s]]
         \in [Stages -> StageStates]
  BY <1>1
<1> QED
  BY <1>2 DEF Reopened, Doc

\* A document whose status is changed is a document.
LEMMA StatusDoc ==
    ASSUME NEW d \in Doc, NEW x \in Statuses
    PROVE  [d EXCEPT !.status = x] \in Doc
  BY DEF Doc

\* Setting a document running leaves a document.
LEMMA RunningDoc ==
    ASSUME NEW d \in Doc
    PROVE  Running(d) \in Doc
  BY StatusDoc DEF Running, Statuses

\* A document with one stage record changed is a document.
LEMMA MarkedDoc ==
    ASSUME NEW d \in Doc, NEW s \in Stages, NEW x \in StageStates
    PROVE  Marked(d, s, x) \in Doc
  BY DEF Marked, Doc

\* A document with other flags is a document.
LEMMA FlagsDoc ==
    ASSUME NEW d \in Doc, NEW f \in SUBSET {"cancel", "parking"}
    PROVE  [d EXCEPT !.flags = f] \in Doc
  BY DEF Doc

\* A failed or cancelled stage leaves a document.
LEMMA FailToDoc ==
    ASSUME NEW d \in Doc, NEW s \in Stages, NEW c \in BOOLEAN
    PROVE  FailTo(d, s, c) \in Doc
<1>1. "failed" \in StageStates /\ "cancelled" \in Statuses /\ "partial" \in Statuses
  BY DEF StageStates, Statuses
<1> DEFINE m == Marked(d, s, "failed")
<1>2. m \in Doc
  BY <1>1, MarkedDoc
<1> HIDE DEF m
<1>3. [m EXCEPT !.status = "partial"] \in Doc
  BY <1>1, <1>2, StatusDoc
<1>4. [m EXCEPT !.status = "cancelled", !.flags = @ \ {"cancel"}] \in Doc
  BY <1>1, <1>2 DEF Doc
<1> QED
  BY <1>3, <1>4 DEF FailTo, m

\* A run starts as a document.
LEMMA NewRunDoc == NewRun \in Doc
  BY DEF NewRun, Doc, Statuses, StageStates

\* The idle process has the type of a process.
LEMMA IdleProc == Idle \in Proc
<1>1. ExportStage \in Stages /\ "idle" \in Pcs
  BY ConstantsAssumption DEF Pcs
<1> QED
  BY <1>1, NewRunDoc DEF Idle, Proc

-----------------------------------------------------------------------------
(* Processes *)

\* A jump keeps the processes typed.
LEMMA GotoType ==
    ASSUME proc \in [Procs -> Proc], NEW p \in Procs, NEW pc \in Pcs, Goto(p, pc)
    PROVE  proc' \in [Procs -> Proc]
  BY DEF Goto, Proc

\* The first half of transition() keeps the processes typed.
LEMMA TransitionType ==
    ASSUME proc \in [Procs -> Proc], NEW p \in Procs, NEW me \in Proc, NEW next \in Doc,
           NEW cont \in Pcs, Transition(p, me, next, cont)
    PROVE  proc' \in [Procs -> Proc]
<1>1. "write" \in Pcs /\ "leave" \in Pcs
  BY DEF Pcs
<1>2. [me EXCEPT !.pc = "write", !.next = next, !.cont = cont] \in Proc
  BY <1>1 DEF Proc
<1>3. [me EXCEPT !.pc = "leave"] \in Proc
  BY <1>1 DEF Proc
<1> QED
  BY <1>2, <1>3 DEF Transition

\* One more occurrence of a bounded event stays within its bound.
LEMMA BoundedType ==
    ASSUME TypeOK, NEW e \in Events \ {"any"}, Bounded(e)
    PROVE  /\ used' \in [Events -> Nat] /\ \A f \in Events : used'[f] <= Limit[f]
           /\ \A f \in Events : used'[f] >= used[f]
<1>1. "any" \in Events /\ used \in [Events -> Nat] /\ Limit \in [Events -> Nat]
  BY ConstantsAssumption DEF TypeOK, Events
<1>2. /\ used[e] < Limit[e] /\ used["any"] < Limit["any"]
      /\ used' = [used EXCEPT ![e] = @ + 1, !["any"] = @ + 1]
  BY DEF Bounded
<1>3. \A f \in Events : used[f] <= Limit[f]
  BY DEF TypeOK
<1> HIDE DEF Events
<1> QED
  BY <1>1, <1>2, <1>3

\* A step that changes processes only.
LEMMA ProcOnly ==
    ASSUME TypeOK, proc' \in [Procs -> Proc], UNCHANGED <<run, lease, meta, facts, consent, used>>
    PROVE  TypeOK'
  BY DEF TypeOK, meta, facts

\* The program points, for the leaves that need one of them.
LEMMA PcValues ==
    {"idle", "open", "acquire", "feedback", "epoch", "debt", "held", "parking", "start",
     "walk", "applicable", "handler", "progress", "gate", "regen", "settle", "iterate", "round",
     "complete", "write", "leave", "propose", "put", "dispatch", "dispatched"} \subseteq Pcs
  BY DEF Pcs

-----------------------------------------------------------------------------
(* Types *)

\* What the type invariant says of one process.
LEMMA ProcFacts ==
    ASSUME TypeOK, NEW p \in Procs
    PROVE  /\ proc \in [Procs -> Proc] /\ proc[p] \in Proc /\ run \in Doc
           /\ proc[p].doc \in Doc /\ proc[p].next \in Doc /\ proc[p].cont \in Pcs
           /\ proc[p].stage \in Stages /\ proc[p].leg \subseteq Stages /\ proc[p].late \in Nat
           /\ proc[p].opts \subseteq {"limited", "proposal", "wasCompleted", "exhausted", "disowned"}
           /\ proc[p].pc \in Pcs
  BY DEF TypeOK, Proc

\* The steps of the prelude of an execution keep every variable in its type.
LEMMA PreludeType ==
    ASSUME TypeOK, NEW p \in Procs, Prelude(p)
    PROVE  TypeOK'
<1> USE ConstantsAssumption
<1>0. /\ proc \in [Procs -> Proc] /\ proc[p] \in Proc /\ run \in Doc
      /\ proc[p].doc \in Doc /\ proc[p].next \in Doc /\ proc[p].cont \in Pcs
      /\ proc[p].stage \in Stages /\ proc[p].leg \subseteq Stages /\ proc[p].late \in Nat
      /\ proc[p].opts \subseteq {"limited", "proposal", "wasCompleted", "exhausted", "disowned"}
  BY ProcFacts
<1>1. CASE Write(p)
  <2>1. proc' \in [Procs -> Proc]
    <3> DEFINE n == proc[p].late + IF lease.holder = p THEN 0 ELSE 1
               r == [proc[p] EXCEPT !.pc = proc[p].cont, !.doc = proc[p].next, !.next = NewRun,
                                    !.cont = "idle", !.late = n]
    <3>1. n \in Nat
      BY <1>0
    <3>2. "idle" \in Pcs
      BY PcValues
    <3> HIDE DEF n
    <3>3. r \in Proc
      BY <1>0, <3>1, <3>2, NewRunDoc DEF Proc
    <3>4. proc' = [proc EXCEPT ![p] = r]
      BY <1>0, <1>1 DEF Write, n, Proc
    <3> QED
      BY <1>0, <3>3, <3>4
  <2>2. lease' \in [holder : Procs \cup {Nobody, Gone}, live : {"yes", "no"}]
    BY <1>1 DEF Write, TypeOK
  <2> QED
    BY <1>0, <1>1, <2>1, <2>2 DEF Write, TypeOK, meta, facts
<1>2. CASE Put(p)
  <2>1. [proc[p] EXCEPT !.pc = proc[p].cont, !.next = NewRun, !.cont = "idle"] \in Proc
    BY <1>0, NewRunDoc, PcValues DEF Proc
  <2>2. Late(p) \in Nat
    BY <1>0 DEF Late
  <2>3. [Idle EXCEPT !.late = Late(p)] \in Proc
    BY <2>2, IdleProc DEF Proc
  <2>4. proc' \in [Procs -> Proc]
    BY <1>0, <1>2, <2>1, <2>3 DEF Put
  <2> QED
    BY <1>0, <1>2, <2>4 DEF Put, TypeOK, meta, facts
<1>3. CASE ExecRead(p)
  <2>1. proc' \in [Procs -> Proc]
    BY <1>0, <1>3, PcValues DEF ExecRead, Proc
  <2> QED
    BY <1>3, <2>1, ProcOnly DEF ExecRead
<1>4. CASE ExecAcquire(p)
  <2>1. proc' \in [Procs -> Proc]
    BY <1>0, <1>4, GotoType, PcValues DEF ExecAcquire
  <2>2. lease' \in [holder : Procs \cup {Nobody, Gone}, live : {"yes", "no"}]
    BY <1>4 DEF ExecAcquire, TypeOK
  <2> QED
    BY <1>4, <2>1, <2>2 DEF ExecAcquire, TypeOK, meta, facts
<1>5. CASE DispatchReopen(p)
  <2>1. Running(Reopened(run, proc[p].leg, Terminal \cup {"failed"})) \in Doc
    BY <1>0, ReopenedDoc, RunningDoc
  <2>2. proc' \in [Procs -> Proc]
    BY <1>0, <1>5, <2>1, TransitionType, PcValues DEF DispatchReopen
  <2> QED
    BY <1>5, <2>2, ProcOnly DEF DispatchReopen
<1>6. CASE DispatchLaunch(p)
  <2>1. [Idle EXCEPT !.pc = "open"] \in Proc
    BY IdleProc, PcValues DEF Proc
  <2>2. proc' \in [Procs -> Proc]
    BY <1>0, <1>6, <2>1 DEF DispatchLaunch
  <2>3. lease' \in [holder : Procs \cup {Nobody, Gone}, live : {"yes", "no"}]
    BY <1>6 DEF DispatchLaunch, TypeOK
  <2> QED
    BY <1>6, <2>2, <2>3 DEF DispatchLaunch, TypeOK, meta, facts
<1>7. CASE FeedbackReopen(p)
  <2>1. Running(Reopened(run, FeedbackLeg, Terminal)) \in Doc
    BY <1>0, ReopenedDoc, RunningDoc
  <2>2. Entered(p) \in Proc
    BY <1>0 DEF Entered, Proc
  <2>3. [Entered(p) EXCEPT !.pc = "debt"] \in Proc
    BY <2>2, PcValues DEF Proc
  <2>4. proc' \in [Procs -> Proc]
    BY <1>0, <1>7, <2>1, <2>2, <2>3, TransitionType, PcValues DEF FeedbackReopen
  <2> QED
    BY <1>7, <2>4, ProcOnly DEF FeedbackReopen
<1>8. CASE FeedbackEpoch(p)
  <2>1. proc' \in [Procs -> Proc]
    BY <1>0, <1>8, GotoType, PcValues DEF FeedbackEpoch
  <2> QED
    BY <1>8, <2>1 DEF FeedbackEpoch, TypeOK, meta, facts
<1>9. CASE DebtReopen(p)
  <2>1. Running(Reopened(run, EvidenceLeg, Terminal)) \in Doc
    BY <1>0, ReopenedDoc, RunningDoc
  <2>2. proc' \in [Procs -> Proc]
    BY <1>0, <1>9, <2>1, TransitionType, GotoType, PcValues DEF DebtReopen
  <2> QED
    BY <1>9, <2>2, ProcOnly DEF DebtReopen
<1>10. CASE HeldReopen(p)
  <2> DEFINE heldStages == {s \in Stages : proc[p].doc.st[s] = "held"}
             opts == (proc[p].opts \ {"exhausted"}) \cup IF spent = "yes" THEN {"exhausted"} ELSE {}
             me == [proc[p] EXCEPT !.opts = opts]
  <2>1. opts \subseteq {"limited", "proposal", "wasCompleted", "exhausted", "disowned"}
    BY <1>0 DEF Proc
  <2>2. me \in Proc
    BY <1>0, <2>1 DEF Proc
  <2>3. [me EXCEPT !.pc = "parking"] \in Proc
    BY <2>2, PcValues DEF Proc
  <2>4. Reopened(run, heldStages, StageStates) \in Doc
    BY <1>0, ReopenedDoc
  <2>5. \/ Transition(p, me, Reopened(run, heldStages, StageStates), "parking")
        \/ proc' = [proc EXCEPT ![p] = [me EXCEPT !.pc = "parking"]]
    BY <1>10 DEF HeldReopen
  <2> HIDE DEF me, heldStages
  <2>6. proc' \in [Procs -> Proc]
    BY <1>0, <2>2, <2>3, <2>4, <2>5, TransitionType, PcValues
  <2> QED
    BY <1>10, <2>6, ProcOnly DEF HeldReopen
<1>11. CASE ParkingClear(p)
  <2>1. [run EXCEPT !.flags = @ \ {"parking"}] \in Doc
    BY <1>0 DEF Doc
  <2>2. proc' \in [Procs -> Proc]
    BY <1>0, <1>11, <2>1, TransitionType, GotoType, PcValues DEF ParkingClear
  <2> QED
    BY <1>11, <2>2, ProcOnly DEF ParkingClear
<1>12. CASE StatusRunning(p)
  <2>1. proc' \in [Procs -> Proc]
    BY <1>0, <1>12, RunningDoc, TransitionType, GotoType, PcValues DEF StatusRunning
  <2> QED
    BY <1>12, <2>1, ProcOnly DEF StatusRunning
<1> QED
  BY <1>1, <1>2, <1>3, <1>4, <1>5, <1>6, <1>7, <1>8, <1>9, <1>10, <1>11, <1>12 DEF Prelude

\* The steps of the stage walk keep every variable in its type.
LEMMA WalkType ==
    ASSUME TypeOK, NEW p \in Procs, Walk(p)
    PROVE  TypeOK'
<1> USE ConstantsAssumption
<1>0. /\ proc \in [Procs -> Proc] /\ proc[p] \in Proc /\ run \in Doc
      /\ proc[p].doc \in Doc /\ proc[p].next \in Doc /\ proc[p].cont \in Pcs
      /\ proc[p].stage \in Stages /\ proc[p].leg \subseteq Stages /\ proc[p].late \in Nat
      /\ proc[p].opts \subseteq {"limited", "proposal", "wasCompleted", "exhausted", "disowned"}
  BY ProcFacts
<1>a. {"failed", "running", "done", "skipped", "held", "pending"} \subseteq StageStates
  BY DEF StageStates, Terminal
<1>1. CASE WalkEnd(p)
  <2>1. proc' \in [Procs -> Proc]
    BY <1>0, <1>1, GotoType, PcValues DEF WalkEnd
  <2> QED
    BY <1>1, <2>1, ProcOnly DEF WalkEnd
<1>2. CASE WalkBudgetSkip(p)
  <2>1. PICK i \in 1..Len(Plan) : Transition(p, proc[p], Marked(run, Plan[i], "held"), "walk")
    BY <1>2 DEF WalkBudgetSkip
  <2>2. Plan[i] \in Stages
    BY DEF Stages
  <2>3. Marked(run, Plan[i], "held") \in Doc
    BY <1>0, <1>a, <2>2, MarkedDoc
  <2>4. proc' \in [Procs -> Proc]
    BY <1>0, <2>1, <2>3, TransitionType, PcValues
  <2> QED
    BY <1>2, <2>4, ProcOnly DEF WalkBudgetSkip
<1>3. CASE WalkStart(p)
  <2>1. PICK i \in 1..Len(Plan) :
               Transition(p, [proc[p] EXCEPT !.stage = Plan[i]],
                          [run EXCEPT !.st[Plan[i]] = "running",
                                      !.att[Plan[i]] = proc[p].doc.att[Plan[i]] + 1],
                          "applicable")
    BY <1>3 DEF WalkStart
  <2>2. Plan[i] \in Stages
    BY DEF Stages
  <2> DEFINE n == proc[p].doc.att[Plan[i]] + 1
  <2>3. n \in Nat
    <3>1. proc[p].doc.att \in [Stages -> Nat]
      BY <1>0 DEF Doc
    <3>2. proc[p].doc.att[Plan[i]] \in Nat
      BY <2>2, <3>1
    <3> QED
      BY <3>2
  <2> HIDE DEF n
  <2>4. [run EXCEPT !.st[Plan[i]] = "running", !.att[Plan[i]] = n] \in Doc
    BY <1>0, <1>a, <2>2, <2>3 DEF Doc
  <2>5. [proc[p] EXCEPT !.stage = Plan[i]] \in Proc
    BY <1>0, <2>2 DEF Proc
  <2>6. proc' \in [Procs -> Proc]
    BY <1>0, <2>1, <2>4, <2>5, TransitionType, PcValues DEF n
  <2> QED
    BY <1>3, <2>6, ProcOnly DEF WalkStart
<1>4. CASE NotApplicable(p)
  <2>1. Marked(run, proc[p].stage, "skipped") \in Doc
    BY <1>0, <1>a, MarkedDoc
  <2>2. proc' \in [Procs -> Proc]
    BY <1>0, <1>4, <2>1, TransitionType, GotoType, PcValues DEF NotApplicable
  <2> QED
    BY <1>4, <2>2, ProcOnly DEF NotApplicable
<1>5. CASE HandlerCancelled(p)
  <2>1. FailTo(run, proc[p].stage, TRUE) \in Doc
    BY <1>0, FailToDoc
  <2>2. proc' \in [Procs -> Proc]
    BY <1>0, <1>5, <2>1, TransitionType, GotoType, PcValues DEF HandlerCancelled
  <2> QED
    BY <1>5, <2>2, ProcOnly DEF HandlerCancelled
<1>6. CASE HandlerEnter(p)
  <2>1. proc' \in [Procs -> Proc]
    BY <1>0, <1>6, GotoType, PcValues DEF HandlerEnter
  <2> QED
    BY <1>6, <2>1, ProcOnly DEF HandlerEnter
<1>7. CASE HandlerSpend(p)
  <2>1. proc' \in [Procs -> Proc]
    BY <1>0, <1>7 DEF HandlerSpend, Proc
  <2>2. lease' \in [holder : Procs \cup {Nobody, Gone}, live : {"yes", "no"}]
    BY <1>7 DEF HandlerSpend, TypeOK
  <2>3. used' \in [Events -> Nat] /\ \A e \in Events : used'[e] <= Limit[e]
    BY <1>7, BoundedType DEF HandlerSpend, Events
  <2> QED
    BY <1>7, <2>1, <2>2, <2>3 DEF HandlerSpend, TypeOK, meta
<1>8. CASE HandlerReceipt(p)
  <2>1. lease' \in [holder : Procs \cup {Nobody, Gone}, live : {"yes", "no"}]
    BY <1>8 DEF HandlerReceipt, TypeOK
  <2> QED
    BY <1>8, <2>1 DEF HandlerReceipt, TypeOK, meta, facts
<1>9. CASE HandlerDone(p)
  <2>1. Marked(run, proc[p].stage, "done") \in Doc
    BY <1>0, <1>a, MarkedDoc
  <2>2. proc' \in [Procs -> Proc]
    BY <1>0, <1>9, <2>1, TransitionType, PcValues DEF HandlerDone
  <2>3. ranked' \in {"none", "weak", "strong"}
    BY <1>9 DEF HandlerDone, TypeOK
  <2> QED
    BY <1>9, <2>2, <2>3 DEF HandlerDone, TypeOK, meta
<1>10. CASE HandlerProgress(p)
  <2>1. proc' \in [Procs -> Proc]
    BY <1>0, <1>10, PcValues DEF HandlerProgress, Proc
  <2>2. used' \in [Events -> Nat] /\ \A e \in Events : used'[e] <= Limit[e]
    BY <1>10, BoundedType DEF HandlerProgress, Events
  <2> QED
    BY <1>10, <2>1, <2>2 DEF HandlerProgress, TypeOK, meta, facts
<1>11. CASE ProgressWrite(p)
  <2> DEFINE n == proc[p].late + IF lease.holder = p THEN 0 ELSE 1
             r == [proc[p] EXCEPT !.pc = "handler", !.next = NewRun, !.late = n]
  <2>1. n \in Nat
    BY <1>0
  <2> HIDE DEF n
  <2>2. r \in Proc
    BY <1>0, <2>1, NewRunDoc, PcValues DEF Proc
  <2>3. proc' = [proc EXCEPT ![p] = r]
    BY <1>0, <1>11 DEF ProgressWrite, n, Proc
  <2>4. proc' \in [Procs -> Proc]
    BY <1>0, <2>2, <2>3
  <2> QED
    BY <1>0, <1>11, <2>4 DEF ProgressWrite, TypeOK, meta, facts
<1>12. CASE \E state \in {"skipped", "held"} : HandlerSkip(p, state)
  <2>1. PICK state \in {"skipped", "held"} : HandlerSkip(p, state)
    BY <1>12
  <2>2. Marked(run, proc[p].stage, state) \in Doc
    BY <1>0, <1>a, MarkedDoc
  <2>3. proc' \in [Procs -> Proc]
    BY <1>0, <2>1, <2>2, TransitionType, PcValues DEF HandlerSkip
  <2> QED
    BY <2>1, <2>3, ProcOnly DEF HandlerSkip
<1>13. CASE HandlerFail(p)
  <2>1. FailTo(run, proc[p].stage, FALSE) \in Doc
    BY <1>0, FailToDoc
  <2>2. proc' \in [Procs -> Proc]
    BY <1>0, <1>13, <2>1, TransitionType, PcValues DEF HandlerFail
  <2>3. used' \in [Events -> Nat] /\ \A e \in Events : used'[e] <= Limit[e]
    BY <1>13, BoundedType DEF HandlerFail, Events
  <2> QED
    BY <1>13, <2>2, <2>3 DEF HandlerFail, TypeOK, meta, facts
<1>14. CASE HandlerDisowned(p)
  <2>1. proc' \in [Procs -> Proc]
    BY <1>0, <1>14, GotoType, PcValues DEF HandlerDisowned
  <2> QED
    BY <1>14, <2>1, ProcOnly DEF HandlerDisowned
<1>15. CASE GateRound(p)
  <2>1. proc' \in [Procs -> Proc]
    BY <1>0, <1>15, GotoType, PcValues DEF GateRound
  <2>2. qgRound' \in 1..MaxQualityRounds
    BY <1>15 DEF GateRound, GateOpens, TypeOK
  <2> QED
    BY <1>15, <2>1, <2>2 DEF GateRound, TypeOK, facts
<1>16. CASE GateReopen(p)
  <2>1. Reopened(run, GateLeg, StageStates) \in Doc
    BY <1>0, ReopenedDoc
  <2>2. proc' \in [Procs -> Proc]
    BY <1>0, <1>16, <2>1, TransitionType, GotoType, PcValues DEF GateReopen
  <2> QED
    BY <1>16, <2>2, ProcOnly DEF GateReopen
<1> QED
  BY <1>1, <1>2, <1>3, <1>4, <1>5, <1>6, <1>7, <1>8, <1>9, <1>10, <1>11, <1>12, <1>13, <1>14, <1>15, <1>16 DEF Walk

\* The steps at the end of a pass keep every variable in its type.
LEMMA FinishType ==
    ASSUME TypeOK, NEW p \in Procs, Finish(p)
    PROVE  TypeOK'
<1> USE ConstantsAssumption
<1>0. /\ proc \in [Procs -> Proc] /\ proc[p] \in Proc /\ run \in Doc
      /\ proc[p].doc \in Doc /\ proc[p].next \in Doc /\ proc[p].cont \in Pcs
      /\ proc[p].stage \in Stages /\ proc[p].leg \subseteq Stages /\ proc[p].late \in Nat
      /\ proc[p].opts \subseteq {"limited", "proposal", "wasCompleted", "exhausted", "disowned"}
  BY ProcFacts
<1>a. {"failed", "running", "done", "skipped", "held", "pending"} \subseteq StageStates
  BY DEF StageStates, Terminal
<1>1. CASE Park(p)
  <2>1. [run EXCEPT !.status = "paused", !.flags = @ \ {"parking"}] \in Doc
    BY <1>0 DEF Doc, Statuses
  <2>2. proc' \in [Procs -> Proc]
    BY <1>0, <1>1, <2>1, TransitionType, GotoType, PcValues DEF Park
  <2> QED
    BY <1>1, <2>2, ProcOnly DEF Park
<1>2. CASE PassEnd(p)
  <2>1. proc' \in [Procs -> Proc]
    BY <1>0, <1>2, GotoType, PcValues DEF PassEnd
  <2> QED
    BY <1>2, <2>1, ProcOnly DEF PassEnd
<1>3. CASE IterateContinue(p)
  <2>1. (IF feedback = "fresh" THEN FeedbackLeg ELSE ExperimentLeg) \subseteq Stages
    OBVIOUS
  <2>2. proc' \in [Procs -> Proc]
    BY <1>0, <1>3, <2>1, PcValues DEF IterateContinue, Proc
  <2>3. itRound' \in 1..MaxIterationRounds
    BY <1>3 DEF IterateContinue, MayIterate, TypeOK
  <2> QED
    BY <1>3, <2>2, <2>3 DEF IterateContinue, TypeOK, facts
<1>4. CASE IterateStop(p)
  <2>1. proc' \in [Procs -> Proc]
    BY <1>0, <1>4, GotoType, PcValues DEF IterateStop
  <2> QED
    BY <1>4, <2>1, ProcOnly DEF IterateStop
<1>5. CASE IterateReopen(p)
  <2>1. Reopened(run, proc[p].leg, StageStates) \in Doc
    BY <1>0, ReopenedDoc
  <2>2. [proc[p] EXCEPT !.leg = {}] \in Proc
    BY <1>0 DEF Proc
  <2>3. proc' \in [Procs -> Proc]
    BY <1>0, <1>5, <2>1, <2>2, TransitionType, PcValues DEF IterateReopen
  <2> QED
    BY <1>5, <2>3, ProcOnly DEF IterateReopen
<1>6. CASE Complete(p)
  <2>1. [run EXCEPT !.status = "completed"] \in Doc
    BY <1>0, StatusDoc DEF Statuses
  <2>2. proc' \in [Procs -> Proc]
    BY <1>0, <1>6, <2>1, TransitionType, GotoType, PcValues DEF Complete
  <2> QED
    BY <1>6, <2>2, ProcOnly DEF Complete
<1>7. CASE Leave(p)
  <2>1. Left(p) \in Proc
    BY <1>0, IdleProc, PcValues DEF Left, Proc
  <2>2. proc' \in [Procs -> Proc]
    BY <1>0, <1>7, <2>1 DEF Leave
  <2>3. lease' \in [holder : Procs \cup {Nobody, Gone}, live : {"yes", "no"}]
    BY <1>7 DEF Leave, TypeOK
  <2> QED
    BY <1>7, <2>2, <2>3 DEF Leave, TypeOK, meta, facts
<1>8. CASE Propose(p)
  <2>1. [run EXCEPT !.status = "paused"] \in Doc
    BY <1>0, StatusDoc DEF Statuses
  <2>2. [proc[p] EXCEPT !.pc = "put", !.next = [run EXCEPT !.status = "paused"]] \in Proc
    BY <1>0, <2>1, PcValues DEF Proc
  <2>3. proc' \in [Procs -> Proc]
    BY <1>0, <1>8, <2>2, IdleProc DEF Propose
  <2> QED
    BY <1>8, <2>3, ProcOnly DEF Propose
<1> QED
  BY <1>1, <1>2, <1>3, <1>4, <1>5, <1>6, <1>7, <1>8 DEF Finish

\* The launches and the crash of a process keep every variable in its type.
LEMMA LaunchType ==
    ASSUME TypeOK, NEW p \in Procs,
           \/ UserResume(p) \/ UserLimited(p) \/ Watchdog(p) \/ Crash(p)
           \/ \E leg \in {EvidenceLeg, FeedbackLeg, ExperimentLeg} : Dispatch(p, leg)
    PROVE  TypeOK'
<1> USE ConstantsAssumption
<1>0. /\ proc \in [Procs -> Proc] /\ proc[p] \in Proc /\ run \in Doc
      /\ proc[p].doc \in Doc /\ proc[p].next \in Doc /\ proc[p].cont \in Pcs
      /\ proc[p].stage \in Stages /\ proc[p].leg \subseteq Stages /\ proc[p].late \in Nat
      /\ proc[p].opts \subseteq {"limited", "proposal", "wasCompleted", "exhausted", "disowned"}
  BY ProcFacts
<1>1. CASE UserResume(p)
  <2>1. proc' \in [Procs -> Proc]
    BY <1>0, <1>1, IdleProc, PcValues DEF UserResume, Launch, Proc
  <2>2. used' \in [Events -> Nat] /\ \A e \in Events : used'[e] <= Limit[e]
    BY <1>1, BoundedType DEF UserResume, Events
  <2> QED
    BY <1>1, <2>1, <2>2 DEF UserResume, TypeOK, meta, facts
<1>2. CASE UserLimited(p)
  <2> DEFINE opts == {"limited"} \cup IF p \in Servers THEN {"proposal"} ELSE {}
             tagged == [run EXCEPT !.flags = @ \cup {"parking"}]
             here == [Idle EXCEPT !.pc = "open", !.opts = opts]
             there == [Idle EXCEPT !.pc = "put", !.cont = "open", !.opts = opts, !.next = tagged]
  <2>1. opts \subseteq {"limited", "proposal", "wasCompleted", "exhausted", "disowned"}
    OBVIOUS
  <2>2. tagged \in Doc
    BY <1>0 DEF Doc
  <2>3. proc' = [proc EXCEPT ![p] = here] \/ proc' = [proc EXCEPT ![p] = there]
    BY <1>0, <1>2 DEF UserLimited, Launch
  <2> HIDE DEF opts, tagged
  <2>4. here \in Proc /\ there \in Proc
    BY <2>1, <2>2, IdleProc, PcValues DEF Proc
  <2> HIDE DEF here, there
  <2>5. proc' \in [Procs -> Proc]
    BY <1>0, <2>3, <2>4
  <2>6. used' \in [Events -> Nat] /\ \A e \in Events : used'[e] <= Limit[e]
    BY <1>2, BoundedType DEF UserLimited, Events
  <2> QED
    BY <1>2, <2>5, <2>6 DEF UserLimited, TypeOK, meta, facts
<1>3. CASE Watchdog(p)
  <2>1. proc' \in [Procs -> Proc]
    BY <1>0, <1>3, IdleProc, PcValues DEF Watchdog, Launch, Proc
  <2> QED
    BY <1>3, <2>1, ProcOnly DEF Watchdog
<1>4. CASE Crash(p)
  <2>1. proc' \in [Procs -> Proc]
    BY <1>0, <1>4, IdleProc DEF Crash
  <2>2. lease' \in [holder : Procs \cup {Nobody, Gone}, live : {"yes", "no"}]
    BY <1>4 DEF Crash, TypeOK
  <2>3. used' \in [Events -> Nat] /\ \A e \in Events : used'[e] <= Limit[e]
    BY <1>4, BoundedType DEF Crash, Events
  <2> QED
    BY <1>4, <2>1, <2>2, <2>3 DEF Crash, TypeOK, meta, facts
<1>5. CASE \E leg \in {EvidenceLeg, FeedbackLeg, ExperimentLeg} : Dispatch(p, leg)
  <2>1. PICK leg \in {EvidenceLeg, FeedbackLeg, ExperimentLeg} : Dispatch(p, leg)
    BY <1>5
  <2>2. leg \subseteq Stages
    OBVIOUS
  <2>3. proc' \in [Procs -> Proc]
    BY <1>0, <2>1, <2>2, IdleProc, PcValues DEF Dispatch, Launch, Proc
  <2>4. lease' \in [holder : Procs \cup {Nobody, Gone}, live : {"yes", "no"}]
    BY <2>1 DEF Dispatch, TypeOK
  <2>5. used' \in [Events -> Nat] /\ \A e \in Events : used'[e] <= Limit[e]
    BY <2>1, BoundedType DEF Dispatch, Events
  <2> QED
    BY <2>1, <2>3, <2>4, <2>5 DEF Dispatch, TypeOK, meta, facts
<1> QED
  BY <1>1, <1>2, <1>3, <1>4, <1>5

\* Cancel requests, feedback, evidence, the budget and the clock keep every
\* variable in its type.
LEMMA EnvironmentType ==
    ASSUME TypeOK,
           RequestCancel \/ InjectFeedback \/ SeedEvidence \/ RaiseBudget \/ LeaseExpires \/ Stall
    PROVE  TypeOK'
<1> USE ConstantsAssumption
<1>1. CASE RequestCancel
  <2>1. run' \in Doc
    BY <1>1 DEF RequestCancel, TypeOK, Doc
  <2>2. used' \in [Events -> Nat] /\ \A e \in Events : used'[e] <= Limit[e]
    BY <1>1, BoundedType DEF RequestCancel, Events
  <2> QED
    BY <1>1, <2>1, <2>2 DEF RequestCancel, TypeOK, meta, facts
<1>2. CASE InjectFeedback
  <2>1. used' \in [Events -> Nat] /\ \A e \in Events : used'[e] <= Limit[e]
    BY <1>2, BoundedType DEF InjectFeedback, Events
  <2> QED
    BY <1>2, <2>1 DEF InjectFeedback, TypeOK, meta
<1>3. CASE SeedEvidence
  <2>1. used' \in [Events -> Nat] /\ \A e \in Events : used'[e] <= Limit[e]
    BY <1>3, BoundedType DEF SeedEvidence, Events
  <2> QED
    BY <1>3, <2>1 DEF SeedEvidence, TypeOK, meta
<1>4. CASE RaiseBudget
  <2>1. used' \in [Events -> Nat] /\ \A e \in Events : used'[e] <= Limit[e]
    BY <1>4, BoundedType DEF RaiseBudget, Events
  <2> QED
    BY <1>4, <2>1 DEF RaiseBudget, TypeOK, meta
<1>5. CASE LeaseExpires
  BY <1>5 DEF LeaseExpires, TypeOK, meta, facts
<1>6. CASE Stall
  <2>1. used' \in [Events -> Nat] /\ \A e \in Events : used'[e] <= Limit[e]
    BY <1>6, BoundedType DEF Stall, Events
  <2> QED
    BY <1>6, <2>1 DEF Stall, TypeOK, meta, facts
<1> QED
  BY <1>1, <1>2, <1>3, <1>4, <1>5, <1>6

\* Every step keeps every variable in its type.
LEMMA TypeStep ==
    ASSUME TypeOK, [Next]_vars
    PROVE  TypeOK'
<1>1. CASE \E p \in Procs : Execute(p)
  BY <1>1, PreludeType, WalkType, FinishType DEF Execute
<1>2. CASE \E p \in Procs : \/ UserResume(p) \/ UserLimited(p) \/ Watchdog(p) \/ Crash(p)
                           \/ \E leg \in {EvidenceLeg, FeedbackLeg, ExperimentLeg} : Dispatch(p, leg)
  BY <1>2, LaunchType
<1>3. CASE RequestCancel \/ InjectFeedback \/ SeedEvidence \/ RaiseBudget \/ LeaseExpires \/ Stall
  BY <1>3, EnvironmentType
<1>4. CASE UNCHANGED vars
  BY <1>4 DEF vars, TypeOK
<1> QED
  BY <1>1, <1>2, <1>3, <1>4 DEF Next

\* The initial state has the type.
LEMMA TypeInit == Init => TypeOK
<1> SUFFICES ASSUME Init PROVE TypeOK
  OBVIOUS
<1>1. proc \in [Procs -> Proc]
  BY IdleProc DEF Init
<1> QED
  BY <1>1, NewRunDoc, ConstantsAssumption DEF Init, TypeOK

\* The run document, the lease, the round counters and every process keep
\* their types: in particular the quality and iteration rounds never pass
\* their caps, whatever crashes, resumes and new epochs interrupt them.
THEOREM TypeCorrect == Spec => []TypeOK
<1>1. Init => TypeOK
  BY TypeInit
<1>2. TypeOK /\ [Next]_vars => TypeOK'
  BY TypeStep
<1> QED
  BY <1>1, <1>2, PTL DEF Spec

-----------------------------------------------------------------------------
(* Control *)

\* Where a process is outside the lease, inside it without a pending write, and
\* inside it altogether; and where a transition goes on after its write.
Outside == {"idle", "open", "acquire", "put", "propose"}
Inside == {"feedback", "epoch", "debt", "held", "parking", "start", "walk", "applicable",
           "handler", "gate", "regen", "settle", "iterate", "round", "complete",
           "dispatch", "dispatched"}
Owning == Inside \cup {"write", "progress"}
Conts == {"dispatched", "epoch", "held", "parking", "start", "walk", "applicable", "gate",
          "feedback", "leave"}

\* The control state of one process: its continuation is one of those the code
\* has, its execution has written at most once without the lease and then has
\* neither the lease nor a pending write, and it holds the live lease while it
\* is inside.  A second late write is the one that closes a scope proposal.
Control(p) ==
    /\ proc[p].pc = "write" => proc[p].cont \in Conts
    /\ proc[p].pc = "put" => proc[p].cont \in {"open", "idle"}
    /\ proc[p].pc = "propose" => proc[p].cont = "idle"
    /\ proc[p].late \in {0, 1} \/ (proc[p].late = 2 /\ proc[p].pc = "idle")
    /\ proc[p].late # 0 /\ proc[p].pc \in Inside => lease.holder # p
    /\ proc[p].pc \in {"open", "acquire", "write", "progress"} => proc[p].late = 0
    /\ proc[p].pc = "put" /\ proc[p].cont = "open" => proc[p].late = 0
    /\ used["stall"] = 0 /\ proc[p].pc \in Owning => lease = [holder |-> p, live |-> "yes"]

ControlInv == TypeOK /\ \A p \in Procs : Control(p)

\* The forms that the steps of a process take.  Only process p moves, and no
\* lease is outlasted.
Alone(p) ==
    /\ \A q \in Procs \ {p} : proc'[q] = proc[q]
    /\ used'["stall"] = used["stall"]
Renewed(p) == IF lease.holder = p THEN [lease EXCEPT !.live = "yes"] ELSE lease
Released(p) == IF lease.holder = p THEN [holder |-> Nobody, live |-> "no"] ELSE lease

\* From one point inside to another, or to the exit.
Jump(p) ==
    /\ Alone(p) /\ proc[p].pc \in Inside /\ lease' \in {lease, Renewed(p)}
    /\ proc'[p].late = proc[p].late /\ proc'[p].pc \in Inside \cup {"leave"}
\* The lease was checked and a write is pending.
Checked(p) ==
    /\ Alone(p) /\ proc[p].pc \in Inside /\ lease' = lease /\ lease.holder = p
    /\ proc'[p].late = proc[p].late
    /\ \/ proc'[p].pc = "write" /\ proc'[p].cont \in Conts
       \/ proc'[p].pc = "progress"
\* The pending write.
Stored(p) ==
    /\ Alone(p) /\ proc[p].pc \in {"write", "progress"} /\ lease' \in {lease, Renewed(p)}
    /\ proc'[p].late = proc[p].late + IF lease.holder = p THEN 0 ELSE 1
    /\ proc'[p].pc \in Inside \cup {"leave"}
\* Before the lease is asked for, and after an execution is over.
Approach(p) ==
    /\ Alone(p) /\ proc[p].pc \in Outside /\ lease' = lease
    /\ proc'[p].late \in {0, 1} \/ (proc'[p].late = 2 /\ proc'[p].pc = "idle")
    /\ proc'[p].pc \in Outside \ {"propose"}
    /\ proc'[p].pc \in {"open", "acquire"} => proc'[p].late = 0
    /\ proc'[p].pc = "put" => \/ proc'[p].cont = "open" /\ proc'[p].late = 0
                              \/ proc'[p].cont = "idle"
\* The lease is granted, or refused.
Answered(p) ==
    /\ Alone(p) /\ proc[p].pc \in Outside /\ proc'[p].late = 0
    /\ \/ CanAcquire(p) /\ lease' = [holder |-> p, live |-> "yes"] /\ proc'[p].pc \in Inside
       \/ lease' = lease /\ proc'[p].pc = "leave"
\* The lease is given back.
GivenBack(p) ==
    /\ Alone(p) /\ lease' = Released(p)
    /\ \/ proc'[p].late = 0 /\ proc'[p].pc \in {"idle", "open"}
       \/ /\ proc'[p].late = proc[p].late /\ proc[p].pc # "idle"
          /\ proc'[p].pc = "propose" /\ proc'[p].cont = "idle"

\* An event that is no stall leaves the count of stalls alone.
LEMMA NoStall ==
    ASSUME TypeOK, NEW e \in Events \ {"any", "stall"}, Bounded(e)
    PROVE  used'["stall"] = used["stall"]
<1>1. "stall" \in Events /\ "any" \in Events /\ used \in [Events -> Nat]
  BY DEF TypeOK, Events
<1> QED
  BY <1>1 DEF Bounded

\* A jump inside the lease.
LEMMA GotoShape ==
    ASSUME TypeOK, NEW p \in Procs, NEW pc \in Inside \cup {"leave"}, proc[p].pc \in Inside,
           Goto(p, pc), lease' = lease, used' = used
    PROVE  Jump(p)
<1>1. proc \in [Procs -> Proc] /\ proc[p] \in Proc
  BY ProcFacts
<1> QED
  BY <1>1 DEF Goto, Jump, Alone, Proc

\* The first half of transition() checks the lease or leaves.
LEMMA TransitionShape ==
    ASSUME TypeOK, NEW p \in Procs, NEW me \in Proc, NEW next, NEW cont \in Conts,
           me.late = proc[p].late, proc[p].pc \in Inside,
           Transition(p, me, next, cont), lease' = lease, used'["stall"] = used["stall"]
    PROVE  Jump(p) \/ Checked(p)
<1>1. proc \in [Procs -> Proc] /\ proc[p] \in Proc
  BY ProcFacts
<1>2. CASE lease.holder = p
  <2> DEFINE r == [me EXCEPT !.pc = "write", !.next = next, !.cont = cont]
  <2>1. r.pc = "write" /\ r.cont = cont /\ r.late = me.late
    BY DEF Proc
  <2>2. proc' = [proc EXCEPT ![p] = r]
    BY <1>2 DEF Transition
  <2> HIDE DEF r
  <2>3. Checked(p)
    BY <1>1, <1>2, <2>1, <2>2 DEF Checked, Alone
  <2> QED
    BY <2>3
<1>3. CASE lease.holder # p
  <2> DEFINE r == [me EXCEPT !.pc = "leave"]
  <2>1. r.pc = "leave" /\ r.late = me.late
    BY DEF Proc
  <2>2. proc' = [proc EXCEPT ![p] = r]
    BY <1>3 DEF Transition
  <2> HIDE DEF r
  <2>3. Jump(p)
    BY <1>1, <2>1, <2>2 DEF Jump, Alone
  <2> QED
    BY <2>3
<1> QED
  BY <1>2, <1>3

\* The forms of the steps of the prelude.
LEMMA PreludeShape ==
    ASSUME ControlInv, NEW p \in Procs, Prelude(p)
    PROVE  Jump(p) \/ Checked(p) \/ Stored(p) \/ Approach(p) \/ Answered(p) \/ GivenBack(p)
<1>0. /\ proc \in [Procs -> Proc] /\ proc[p] \in Proc
      /\ proc[p].late \in Nat /\ proc[p].cont \in Pcs
  BY ProcFacts DEF ControlInv
<1>t. TypeOK /\ Control(p)
  BY DEF ControlInv
<1>1. CASE Write(p)
  <2>1. Stored(p)
    BY <1>0, <1>t, <1>1 DEF Write, Stored, Alone, At, Proc, Inside, Outside, Conts, Control, Renewed
  <2> QED
    BY <2>1
<1>2. CASE Put(p)
  <2>0. /\ proc[p].pc = "put" /\ proc[p].cont \in {"open", "idle"} /\ proc[p].late \in {0, 1}
        /\ proc[p].cont = "open" => proc[p].late = 0
    BY <1>t, <1>2 DEF Put, At, Control
  <2>1. Late(p) \in {0, 1, 2}
    BY <2>0 DEF Late
  <2>2. CASE proc[p].cont = "idle"
    <3>1. proc' = [proc EXCEPT ![p] = [Idle EXCEPT !.late = Late(p)]]
      BY <1>2, <2>2 DEF Put
    <3>2. proc'[p].late = Late(p) /\ proc'[p].pc = "idle"
      BY <1>0, <3>1 DEF Idle
    <3>3. Alone(p) /\ lease' = lease
      BY <1>0, <1>2, <3>1 DEF Put, Alone
    <3> QED
      BY <2>0, <2>1, <3>2, <3>3 DEF Approach, Outside
  <2>3. CASE proc[p].cont = "open"
    <3>1. Approach(p)
      BY <1>0, <1>2, <2>0, <2>3 DEF Put, Approach, Alone, Proc, Outside
    <3> QED
      BY <3>1
  <2> QED
    BY <2>0, <2>2, <2>3
<1>3. CASE ExecRead(p)
  <2>1. Approach(p)
    BY <1>0, <1>t, <1>3 DEF ExecRead, Approach, Alone, At, Proc, Outside, Control
  <2> QED
    BY <2>1
<1>4. CASE ExecAcquire(p)
  <2>1. Answered(p)
    BY <1>0, <1>t, <1>4 DEF ExecAcquire, Answered, Alone, At, Proc, Inside, Outside, Goto, Control
  <2> QED
    BY <2>1
<1>5. CASE DispatchReopen(p)
  BY <1>0, <1>t, <1>5, GotoShape, TransitionShape DEF DispatchReopen, At, Inside, Conts
<1>6. CASE DispatchLaunch(p)
  <2>1. GivenBack(p)
    BY <1>0, <1>t, <1>6 DEF DispatchLaunch, GivenBack, Alone, At, Proc, Inside, Outside, Conts, Idle, Released
  <2> QED
    BY <2>1
<1>7. CASE FeedbackReopen(p)
  <2>1. Entered(p) \in Proc /\ Entered(p).late = proc[p].late
    BY <1>0 DEF Entered, Proc
  <2>2. proc[p].pc \in Inside /\ lease' = lease /\ used'["stall"] = used["stall"]
    BY <1>7 DEF FeedbackReopen, At, Inside
  <2>3. CASE FeedbackReopens(p)
    BY <1>t, <1>7, <2>1, <2>2, <2>3, TransitionShape DEF FeedbackReopen, Conts
  <2>4. CASE ~FeedbackReopens(p)
    <3> DEFINE r == [Entered(p) EXCEPT !.pc = "debt"]
    <3>1. r.pc = "debt" /\ r.late = proc[p].late
      BY <2>1 DEF Proc
    <3>2. proc' = [proc EXCEPT ![p] = r]
      BY <1>7, <2>4 DEF FeedbackReopen
    <3> HIDE DEF r
    <3>3. Jump(p)
      BY <1>0, <2>2, <3>1, <3>2 DEF Jump, Alone, Inside
    <3> QED
      BY <3>3
  <2> QED
    BY <2>3, <2>4
<1>8. CASE FeedbackEpoch(p)
  BY <1>t, <1>8, GotoShape DEF FeedbackEpoch, At, Inside
<1>9. CASE DebtReopen(p)
  BY <1>0, <1>t, <1>9, GotoShape, TransitionShape DEF DebtReopen, At, Inside, Conts
<1>10. CASE HeldReopen(p)
  <2> DEFINE held == {s \in Stages : proc[p].doc.st[s] = "held"}
             opts == (proc[p].opts \ {"exhausted"}) \cup IF spent = "yes" THEN {"exhausted"} ELSE {}
             me == [proc[p] EXCEPT !.opts = opts]
             r == [me EXCEPT !.pc = "parking"]
  <2>1. opts \subseteq {"limited", "proposal", "wasCompleted", "exhausted", "disowned"}
    BY <1>0 DEF Proc
  <2>2. \/ Transition(p, me, Reopened(run, held, StageStates), "parking")
        \/ proc' = [proc EXCEPT ![p] = r]
    BY <1>10 DEF HeldReopen
  <2> HIDE DEF opts, held
  <2>3. me \in Proc /\ me.late = proc[p].late
    BY <1>0, <2>1 DEF Proc
  <2> HIDE DEF me
  <2>4. r.pc = "parking" /\ r.late = proc[p].late
    BY <2>3 DEF Proc
  <2> HIDE DEF r
  <2>5. proc[p].pc \in Inside /\ lease' = lease /\ used'["stall"] = used["stall"]
    BY <1>10 DEF HeldReopen, At, Inside
  <2>6. ASSUME proc' = [proc EXCEPT ![p] = r] PROVE Jump(p)
    BY <1>0, <2>4, <2>5, <2>6 DEF Jump, Alone, Inside
  <2> QED
    BY <1>t, <2>2, <2>3, <2>5, <2>6, TransitionShape DEF Conts
<1>11. CASE ParkingClear(p)
  BY <1>0, <1>t, <1>11, GotoShape, TransitionShape DEF ParkingClear, At, Inside, Conts
<1>12. CASE StatusRunning(p)
  BY <1>0, <1>t, <1>12, GotoShape, TransitionShape DEF StatusRunning, At, Inside, Conts
<1> QED
  BY <1>1, <1>2, <1>3, <1>4, <1>5, <1>6, <1>7, <1>8, <1>9, <1>10, <1>11, <1>12 DEF Prelude

\* The forms of the steps of the stage walk.
LEMMA WalkShape ==
    ASSUME ControlInv, NEW p \in Procs, Walk(p)
    PROVE  Jump(p) \/ Checked(p) \/ Stored(p)
<1>0. /\ proc \in [Procs -> Proc] /\ proc[p] \in Proc
      /\ proc[p].late \in Nat /\ proc[p].cont \in Pcs
  BY ProcFacts DEF ControlInv
<1>t. TypeOK /\ Control(p)
  BY DEF ControlInv
<1>1. CASE WalkEnd(p)
  BY <1>t, <1>1, GotoShape DEF WalkEnd, At, Inside
<1>2. CASE WalkBudgetSkip(p)
  BY <1>0, <1>t, <1>2, GotoShape, TransitionShape DEF WalkBudgetSkip, At, Inside, Conts
<1>3. CASE WalkStart(p)
  <2>1. PICK i \in 1..Len(Plan) :
               Transition(p, [proc[p] EXCEPT !.stage = Plan[i]],
                          [run EXCEPT !.st[Plan[i]] = "running",
                                      !.att[Plan[i]] = proc[p].doc.att[Plan[i]] + 1],
                          "applicable")
    BY <1>3 DEF WalkStart
  <2>2. Plan[i] \in Stages
    BY DEF Stages
  <2>3. /\ [proc[p] EXCEPT !.stage = Plan[i]] \in Proc
        /\ [proc[p] EXCEPT !.stage = Plan[i]].late = proc[p].late
    BY <1>0, <2>2 DEF Proc
  <2>4. proc[p].pc \in Inside /\ lease' = lease /\ used'["stall"] = used["stall"]
    BY <1>3 DEF WalkStart, At, Inside
  <2> QED
    BY <1>t, <2>1, <2>3, <2>4, TransitionShape DEF Conts
<1>4. CASE NotApplicable(p)
  BY <1>0, <1>t, <1>4, GotoShape, TransitionShape DEF NotApplicable, At, Inside, Conts
<1>5. CASE HandlerCancelled(p)
  BY <1>0, <1>t, <1>5, GotoShape, TransitionShape DEF HandlerCancelled, At, Inside, Conts
<1>6. CASE HandlerEnter(p)
  BY <1>t, <1>6, GotoShape DEF HandlerEnter, At, Inside
<1>7. CASE HandlerSpend(p)
  <2>1. used'["stall"] = used["stall"]
    BY <1>t, <1>7, NoStall DEF HandlerSpend, Events
  <2>2. Jump(p)
    BY <1>0, <1>7, <2>1 DEF HandlerSpend, Jump, Alone, At, Proc, Inside, Renewed
  <2> QED
    BY <2>2
<1>8. CASE HandlerReceipt(p)
  <2>1. Jump(p)
    BY <1>0, <1>8 DEF HandlerReceipt, Jump, Alone, At, Inside, Renewed
  <2> QED
    BY <2>1
<1>9. CASE HandlerDone(p)
  BY <1>0, <1>t, <1>9, GotoShape, TransitionShape DEF HandlerDone, At, Inside, Conts
<1>10. CASE HandlerProgress(p)
  <2>1. used'["stall"] = used["stall"]
    BY <1>t, <1>10, NoStall DEF HandlerProgress, Events
  <2>2. Checked(p)
    BY <1>0, <1>10, <2>1 DEF HandlerProgress, Checked, Alone, At, Proc, Inside
  <2> QED
    BY <2>2
<1>11. CASE ProgressWrite(p)
  <2>1. Stored(p)
    BY <1>0, <1>t, <1>11 DEF ProgressWrite, Stored, Alone, At, Proc, Inside, Outside, Conts
  <2> QED
    BY <2>1
<1>12. CASE \E state \in {"skipped", "held"} : HandlerSkip(p, state)
  BY <1>0, <1>t, <1>12, GotoShape, TransitionShape DEF HandlerSkip, At, Inside, Conts
<1>13. CASE HandlerFail(p)
  <2>1. used'["stall"] = used["stall"]
    BY <1>t, <1>13, NoStall DEF HandlerFail, Events
  <2> QED
    BY <1>0, <1>t, <1>13, <2>1, TransitionShape DEF HandlerFail, At, Inside, Conts
<1>14. CASE HandlerDisowned(p)
  BY <1>t, <1>14, GotoShape DEF HandlerDisowned, At, Inside
<1>15. CASE GateRound(p)
  BY <1>t, <1>15, GotoShape DEF GateRound, At, Inside
<1>16. CASE GateReopen(p)
  BY <1>0, <1>t, <1>16, GotoShape, TransitionShape DEF GateReopen, At, Inside, Conts
<1> QED
  BY <1>1, <1>2, <1>3, <1>4, <1>5, <1>6, <1>7, <1>8, <1>9, <1>10, <1>11, <1>12, <1>13, <1>14, <1>15, <1>16 DEF Walk

\* The forms of the steps at the end of a pass.
LEMMA FinishShape ==
    ASSUME ControlInv, NEW p \in Procs, Finish(p)
    PROVE  Jump(p) \/ Checked(p) \/ Approach(p) \/ GivenBack(p)
<1>0. /\ proc \in [Procs -> Proc] /\ proc[p] \in Proc
      /\ proc[p].late \in Nat /\ proc[p].cont \in Pcs
  BY ProcFacts DEF ControlInv
<1>t. TypeOK /\ Control(p)
  BY DEF ControlInv
<1>1. CASE Park(p)
  BY <1>0, <1>t, <1>1, GotoShape, TransitionShape DEF Park, At, Inside, Conts
<1>2. CASE PassEnd(p)
  BY <1>t, <1>2, GotoShape DEF PassEnd, At, Inside
<1>3. CASE IterateContinue(p)
  <2>1. Jump(p)
    BY <1>0, <1>t, <1>3 DEF IterateContinue, Jump, Alone, At, Proc, Inside, Outside, Conts
  <2> QED
    BY <2>1
<1>4. CASE IterateStop(p)
  BY <1>t, <1>4, GotoShape DEF IterateStop, At, Inside
<1>5. CASE IterateReopen(p)
  <2>1. [proc[p] EXCEPT !.leg = {}] \in Proc /\ [proc[p] EXCEPT !.leg = {}].late = proc[p].late
    BY <1>0 DEF Proc
  <2> QED
    BY <1>t, <1>5, <2>1, TransitionShape DEF IterateReopen, At, Inside, Conts
<1>6. CASE Complete(p)
  BY <1>0, <1>t, <1>6, GotoShape, TransitionShape DEF Complete, At, Inside, Conts
<1>7. CASE Leave(p)
  <2>1. GivenBack(p)
    BY <1>0, <1>t, <1>7 DEF Leave, Left, GivenBack, Alone, At, Idle, Released
  <2> QED
    BY <2>1
<1>8. CASE Propose(p)
  <2>1. Approach(p)
    <3>0. proc[p].pc = "propose" /\ proc[p].late \in {0, 1} /\ lease' = lease /\ used' = used
      BY <1>t, <1>8 DEF Propose, At, Control
    <3>1. CASE proc' = [proc EXCEPT ![p] = Idle]
      BY <1>0, <3>0, <3>1 DEF Approach, Alone, Outside, Idle
    <3>2. CASE proc' = [proc EXCEPT ![p] = [proc[p] EXCEPT !.pc = "put", !.next = [run EXCEPT !.status = "paused"]]]
      <4>1. proc[p].cont = "idle"
        BY <1>t, <3>0 DEF Control
      <4> QED
        BY <1>0, <3>0, <3>2, <4>1 DEF Approach, Alone, Outside, Proc
    <3> QED
      BY <1>8, <3>1, <3>2 DEF Propose
  <2> QED
    BY <2>1
<1> QED
  BY <1>1, <1>2, <1>3, <1>4, <1>5, <1>6, <1>7, <1>8 DEF Finish

\* The forms of the launches.
LEMMA LaunchShape ==
    ASSUME ControlInv, NEW p \in Procs, 
           \/ UserResume(p) \/ UserLimited(p) \/ Watchdog(p)
           \/ \E leg \in {EvidenceLeg, FeedbackLeg, ExperimentLeg} : Dispatch(p, leg)
    PROVE  Approach(p) \/ Answered(p)
<1>0. /\ proc \in [Procs -> Proc] /\ proc[p] \in Proc
      /\ proc[p].late \in Nat /\ proc[p].cont \in Pcs
  BY ProcFacts DEF ControlInv
<1>t. TypeOK /\ Control(p)
  BY DEF ControlInv
<1>1. CASE UserResume(p)
  <2>1. used'["stall"] = used["stall"]
    BY <1>t, <1>1, NoStall DEF UserResume, Events
  <2>2. Approach(p)
    BY <1>0, <1>1, <2>1 DEF UserResume, Launch, Approach, Alone, At, Idle, Outside
  <2> QED
    BY <2>2
<1>2. CASE UserLimited(p)
  <2>1. used'["stall"] = used["stall"]
    BY <1>t, <1>2, NoStall DEF UserLimited, Events
  <2>2. PICK opts, next :
            \/ proc' = [proc EXCEPT ![p] = [Idle EXCEPT !.pc = "open", !.opts = opts]]
            \/ proc' = [proc EXCEPT ![p] = [Idle EXCEPT !.pc = "put", !.cont = "open",
                                                      !.opts = opts, !.next = next]]
    BY <1>2, Zenon DEF UserLimited, Launch
  <2>3. /\ \A q \in Procs \ {p} : proc'[q] = proc[q]
        /\ proc'[p].late = 0 /\ proc'[p].pc \in {"open", "put"}
        /\ proc'[p].pc = "put" => proc'[p].cont = "open"
    BY <1>0, <2>2 DEF Idle
  <2>4. lease' = lease /\ proc[p].pc = "idle"
    BY <1>2 DEF UserLimited, At
  <2> QED
    BY <2>1, <2>3, <2>4 DEF Approach, Alone, Outside
<1>3. CASE Watchdog(p)
  <2>1. Approach(p)
    BY <1>0, <1>3 DEF Watchdog, Launch, Approach, Alone, At, Idle, Outside
  <2> QED
    BY <2>1
<1>4. CASE \E leg \in {EvidenceLeg, FeedbackLeg, ExperimentLeg} : Dispatch(p, leg)
  <2>1. PICK leg \in {EvidenceLeg, FeedbackLeg, ExperimentLeg} : Dispatch(p, leg)
    BY <1>4
  <2>2. used'["stall"] = used["stall"]
    BY <1>t, <2>1, NoStall DEF Dispatch, Events
  <2>3. Answered(p)
    BY <1>0, <2>1, <2>2 DEF Dispatch, Launch, Answered, Alone, At, Idle, Inside, Outside
  <2> QED
    BY <2>3
<1> QED
  BY <1>1, <1>2, <1>3, <1>4

\* A step of one of these forms preserves the control state of every process.
LEMMA ShapeControl ==
    ASSUME ControlInv, NEW p \in Procs, NEW q \in Procs,
           Jump(p) \/ Checked(p) \/ Stored(p) \/ Approach(p) \/ Answered(p) \/ GivenBack(p)
    PROVE  Control(q)'
<1> USE ConstantsAssumption
<1>1. /\ Control(p) /\ Control(q)
      /\ lease \in [holder : Procs \cup {Nobody, Gone}, live : {"yes", "no"}]
  BY DEF ControlInv, TypeOK
<1>2. Alone(p)
  BY DEF Jump, Checked, Stored, Approach, Answered, GivenBack
<1>3. CASE q = p
  <2>1. CASE Jump(p)
    BY <1>1, <1>3, <2>1 DEF Control, Jump, Alone, Inside, Outside, Owning, Renewed
  <2>2. CASE Checked(p)
    BY <1>1, <1>3, <2>2 DEF Control, Checked, Alone, Inside, Outside, Owning
  <2>3. CASE Stored(p)
    BY <1>1, <1>3, <2>3 DEF Control, Stored, Alone, Inside, Outside, Owning, Renewed
  <2>4. CASE Approach(p)
    BY <1>1, <1>3, <2>4 DEF Control, Approach, Alone, Inside, Outside, Owning
  <2>5. CASE Answered(p)
    BY <1>1, <1>3, <2>5 DEF Control, Answered, Alone, Inside, Outside, Owning
  <2>6. CASE GivenBack(p)
    BY <1>1, <1>3, <2>6 DEF Control, GivenBack, Alone, Inside, Outside, Owning
  <2> QED
    BY <2>1, <2>2, <2>3, <2>4, <2>5, <2>6
<1>4. CASE q # p
  <2>1. proc'[q] = proc[q] /\ used'["stall"] = used["stall"]
    BY <1>2, <1>4 DEF Alone
  <2>2. lease.holder = q <=> lease'.holder = q \/ (lease.holder = q /\ CanAcquire(p))
    BY <1>1, <1>4 DEF Jump, Checked, Stored, Approach, Answered, GivenBack, Renewed, Released
  <2>3. lease = [holder |-> q, live |-> "yes"] => lease' = lease
    BY <1>1, <1>4 DEF Jump, Checked, Stored, Approach, Answered, GivenBack, Renewed, Released,
                      CanAcquire, Free
  <2> QED
    BY <1>1, <2>1, <2>2, <2>3 DEF Control
<1> QED
  BY <1>3, <1>4

\* A crash preserves the control state: its lease is nobody's now.
LEMMA CrashControl ==
    ASSUME ControlInv, NEW p \in Procs, NEW q \in Procs, Crash(p)
    PROVE  Control(q)'
<1> USE ConstantsAssumption
<1>1. /\ TypeOK /\ Control(q) /\ proc \in [Procs -> Proc]
      /\ lease \in [holder : Procs \cup {Nobody, Gone}, live : {"yes", "no"}]
  BY DEF ControlInv, TypeOK
<1>2. used'["stall"] = used["stall"]
  BY <1>1, NoStall DEF Crash, Events
<1>3. CASE q = p
  <2>1. proc'[q] = Idle
    BY <1>1, <1>3 DEF Crash
  <2> QED
    BY <2>1 DEF Control, Idle, Inside, Owning
<1>4. CASE q # p
  <2>1. proc'[q] = proc[q]
    BY <1>1, <1>4 DEF Crash
  <2>2. lease'.holder = q <=> lease.holder = q
    BY <1>1, <1>4 DEF Crash
  <2>3. lease = [holder |-> q, live |-> "yes"] => lease' = lease
    BY <1>4 DEF Crash
  <2> QED
    BY <1>1, <1>2, <2>1, <2>2, <2>3 DEF Control
<1> QED
  BY <1>3, <1>4

\* Cancel requests, feedback, evidence, the budget and the clock preserve the
\* control state; a stall is the event that OneExecutor excepts.
LEMMA EnvironmentControl ==
    ASSUME ControlInv, NEW q \in Procs,
           RequestCancel \/ InjectFeedback \/ SeedEvidence \/ RaiseBudget \/ LeaseExpires \/ Stall
    PROVE  Control(q)'
<1> USE ConstantsAssumption
<1>1. /\ TypeOK /\ Control(q) /\ used \in [Events -> Nat]
      /\ lease \in [holder : Procs \cup {Nobody, Gone}, live : {"yes", "no"}]
  BY DEF ControlInv, TypeOK
<1>2. CASE RequestCancel \/ InjectFeedback \/ SeedEvidence \/ RaiseBudget
  <2>1. used'["stall"] = used["stall"]
    BY <1>1, <1>2, NoStall DEF RequestCancel, InjectFeedback, SeedEvidence, RaiseBudget, Events
  <2>2. proc' = proc /\ lease' = lease
    BY <1>2 DEF RequestCancel, InjectFeedback, SeedEvidence, RaiseBudget
  <2> QED
    BY <1>1, <2>1, <2>2 DEF Control
<1>3. CASE LeaseExpires
  BY <1>1, <1>3 DEF LeaseExpires, Control
<1>4. CASE Stall
  <2>1. used'["stall"] # 0
    <3>1. "stall" \in Events /\ "any" \in Events
      BY DEF Events
    <3> HIDE DEF Events
    <3> QED
      BY <1>1, <1>4, <3>1 DEF Stall, Bounded
  <2>2. proc' = proc /\ lease'.holder = lease.holder
    BY <1>1, <1>4 DEF Stall
  <2> QED
    BY <1>1, <2>1, <2>2 DEF Control
<1> QED
  BY <1>2, <1>3, <1>4

\* The control invariant is inductive.
LEMMA ControlStep ==
    ASSUME ControlInv, [Next]_vars
    PROVE  ControlInv'
<1>1. TypeOK'
  BY TypeStep DEF ControlInv
<1>2. ASSUME NEW q \in Procs PROVE Control(q)'
  <2>1. CASE \E p \in Procs : Execute(p)
    BY <2>1, PreludeShape, WalkShape, FinishShape, ShapeControl DEF Execute
  <2>2. CASE \E p \in Procs : \/ UserResume(p) \/ UserLimited(p) \/ Watchdog(p)
                             \/ \E leg \in {EvidenceLeg, FeedbackLeg, ExperimentLeg} : Dispatch(p, leg)
    BY <2>2, LaunchShape, ShapeControl
  <2>3. CASE \E p \in Procs : Crash(p)
    BY <2>3, CrashControl
  <2>4. CASE RequestCancel \/ InjectFeedback \/ SeedEvidence \/ RaiseBudget \/ LeaseExpires \/ Stall
    BY <2>4, EnvironmentControl
  <2>5. CASE UNCHANGED vars
    BY <2>5 DEF vars, ControlInv, Control
  <2> QED
    BY <2>1, <2>2, <2>3, <2>4, <2>5 DEF Next
<1> QED
  BY <1>1, <1>2 DEF ControlInv

\* The control invariant holds in every reachable state.
LEMMA ControlCorrect == Spec => []ControlInv
<1>1. Init => ControlInv
  <2> SUFFICES ASSUME Init PROVE ControlInv
    OBVIOUS
  <2>1. TypeOK
    BY TypeInit
  <2>2. \A p \in Procs : proc[p] = Idle
    BY DEF Init
  <2>3. \A p \in Procs : Control(p)
    BY <2>2 DEF Control, Idle, Inside, Owning
  <2> QED
    BY <2>1, <2>3 DEF ControlInv
<1>2. ControlInv /\ [Next]_vars => ControlInv'
  BY ControlStep
<1> QED
  BY <1>1, <1>2, PTL DEF Spec

\* Among any number of servers and CLI processes, at most one is inside a stage
\* handler, as long as no live executor has outlasted its lease: every process
\* between acquireLease and the release in execute's finally is the holder.
THEOREM ExecutorCorrect == Spec => []OneExecutor
<1>1. ControlInv => OneExecutor
  <2> SUFFICES ASSUME ControlInv, used["stall"] = 0, NEW p \in Procs, NEW q \in Procs,
                      At(p, "handler"), At(q, "handler")
               PROVE  p = q
    BY DEF OneExecutor
  <2>1. lease = [holder |-> p, live |-> "yes"] /\ lease = [holder |-> q, live |-> "yes"]
    BY DEF ControlInv, Control, At, Owning, Inside
  <2> QED
    BY <2>1
<1> QED
  BY <1>1, ControlCorrect, PTL

\* Whatever stalls and takeovers happen, an execution that has lost the lease
\* writes the run document at most once more before it leaves: the check in
\* transition() and progress() stops every later write.  The handler of a
\* scope proposal adds one write, when its execution is over.
THEOREM DisownedCorrect == Spec => []DisownedWritesBounded
<1>1. ControlInv => DisownedWritesBounded
  BY DEF ControlInv, Control, DisownedWritesBounded, At
<1> QED
  BY <1>1, ControlCorrect, PTL

-----------------------------------------------------------------------------
(* One process: what it knows of the document stays true *)

Walking == {"walk", "applicable", "handler", "progress", "gate", "regen", "settle", "iterate",
            "round", "complete"}
\* Where a process's copy of the document is the stored one.
Synced == (Inside \cup {"acquire", "progress"}) \ {"dispatch", "dispatched"}
\* Where it is between the launch and the end of the execution.
Engaged == Owning \cup {"open", "acquire"}

Settled(d) == d.status = "completed" => \A s \in Stages : d.st[s] \in Terminal \cup {"pending"}

\* What the document d says when process me is at pc.
Fits(d, me, pc) ==
    /\ pc \in Walking => d.status = "running"
    /\ pc \in {"iterate", "complete"} => \A s \in Stages : d.st[s] \in Terminal
    /\ pc \in {"start"} \cup Walking => "limited" \in me.opts \/ "parking" \notin d.flags
    /\ pc \in {"applicable", "handler", "progress"} => d.st[me.stage] = "running"
\* A done rank has passed the gate, except between the two.
Passed(d, pc) == pc \notin {"gate", "regen", "write"} /\ d.st[RankStage] = "done" => Gated
\* A draft that a server has not been asked to carry on is tagged while it
\* runs, so that the watchdog leaves it alone.
Tagged(p, d, pc) ==
    consent = "no" /\ p \in Servers /\ (d.status = "running" \/ pc \in Engaged)
       => "parking" \in d.flags
Sound(p, d, me, pc) == Settled(d) /\ Fits(d, me, pc) /\ Passed(d, pc) /\ Tagged(p, d, pc)

\* The same document but for the cancel flag, which RequestCancel sets at any time.
Same(d, e) ==
    /\ d.status = e.status /\ d.st = e.st /\ d.att = e.att
    /\ "parking" \in d.flags <=> "parking" \in e.flags

\* Document d starts a stage only where a start is under way and allowed.
Starts(d, cont) ==
    \A s \in Stages : d.att[s] > run.att[s] =>
        cont = "applicable" /\ (consent = "yes" \/ Index(s) < Index(StopStage))

Stands(p, me) ==
    /\ me.pc \in {"write", "put"} => Sound(p, me.next, me, me.cont)
    /\ me.pc \in Synced => Same(me.doc, run)
    /\ me.pc = "progress" => Same(me.next, run)
    /\ me.pc = "put" => me.next.att = run.att
    /\ me.pc = "write" => Starts(me.next, me.cont)
Allowed(p, me) ==
    /\ me.pc \in Engaged \/ (me.pc = "put" /\ me.cont = "open")
          => consent = "yes" \/ "limited" \in me.opts
    /\ me.pc \in {"dispatch", "dispatched"} \/ (me.pc = "write" /\ me.cont = "dispatched")
          => consent = "yes"
    /\ "exhausted" \in me.opts => spent = "yes" /\ me.pc # "idle"
    /\ me.pc \in Owning => lease.holder = p

Solo(p) == Sound(p, run, proc[p], proc[p].pc) /\ Stands(p, proc[p]) /\ Allowed(p, proc[p])
SoloInv(p) == ControlInv /\ Solo(p)

\* What a reopened document says.
LEMMA ReopenedFields ==
    ASSUME NEW d \in Doc, NEW leg, NEW from
    PROVE  /\ Reopened(d, leg, from).status = d.status /\ Reopened(d, leg, from).att = d.att
           /\ Reopened(d, leg, from).flags = d.flags
           /\ \A s \in Stages : \/ Reopened(d, leg, from).st[s] = "pending"
                                \/ ~(s \in leg /\ d.st[s] \in from)
                                     /\ Reopened(d, leg, from).st[s] = d.st[s]
  BY DEF Reopened, Doc

\* What a document with a new status says.
LEMMA StatusFields ==
    ASSUME NEW d \in Doc, NEW x
    PROVE  /\ [d EXCEPT !.status = x].status = x /\ [d EXCEPT !.status = x].att = d.att
           /\ [d EXCEPT !.status = x].flags = d.flags /\ [d EXCEPT !.status = x].st = d.st
  BY DEF Doc

\* What a document with other flags says.
LEMMA FlagsFields ==
    ASSUME NEW d \in Doc, NEW f
    PROVE  /\ [d EXCEPT !.flags = f].status = d.status /\ [d EXCEPT !.flags = f].att = d.att
           /\ [d EXCEPT !.flags = f].flags = f /\ [d EXCEPT !.flags = f].st = d.st
  BY DEF Doc

\* What a document with one stage record changed says.
LEMMA MarkedFields ==
    ASSUME NEW d \in Doc, NEW s \in Stages, NEW x
    PROVE  /\ Marked(d, s, x).status = d.status /\ Marked(d, s, x).att = d.att
           /\ Marked(d, s, x).flags = d.flags
           /\ \A t \in Stages : Marked(d, s, x).st[t] = IF t = s THEN x ELSE d.st[t]
  BY DEF Marked, Doc

\* What a failed or cancelled stage leaves.
LEMMA FailToFields ==
    ASSUME NEW d \in Doc, NEW s \in Stages, NEW c \in BOOLEAN
    PROVE  /\ FailTo(d, s, c).status \in {"cancelled", "partial"} /\ FailTo(d, s, c).att = d.att
           /\ "parking" \in FailTo(d, s, c).flags <=> "parking" \in d.flags
           /\ \A t \in Stages : FailTo(d, s, c).st[t] = IF t = s THEN "failed" ELSE d.st[t]
  BY DEF FailTo, Marked, Doc

\* A step that touches neither the document nor the lease's holder, nor the
\* consent, and moves the process to a point inside where the document fits.
LEMMA MoveSolo ==
    ASSUME NEW p \in Procs, SoloInv(p), NEW r \in Proc, proc' = [proc EXCEPT ![p] = r],
           proc[p].pc \in Synced \ {"acquire", "progress"},
           r.pc \in (Inside \ {"dispatch", "dispatched"}) \cup {"leave"},
           r.doc = proc[p].doc, "limited" \in proc[p].opts => "limited" \in r.opts,
           "exhausted" \in r.opts => spent' = "yes",
           run' = run, consent' = consent, lease'.holder = lease.holder,
           Gated => Gated', Sound(p, run, r, r.pc)
    PROVE  Solo(p)'
<1>1. proc'[p] = r /\ proc \in [Procs -> Proc]
  BY ProcFacts DEF SoloInv, ControlInv
<1>2. Sound(p, run, r, r.pc)'
  BY DEF Sound, Settled, Fits, Passed, Tagged
<1>3. Stands(p, r)'
  <2>1. r.pc \notin {"write", "put", "progress"}
    BY DEF Inside
  <2>2. Same(r.doc, run)
    BY DEF SoloInv, Solo, Stands
  <2> QED
    BY <2>1, <2>2 DEF Stands, Same
<1>4. Allowed(p, r)'
  <2>1. /\ proc[p].pc \in Inside /\ proc[p].pc \in Owning
        /\ r.pc \notin {"idle", "write", "put", "open", "acquire", "dispatch", "dispatched"}
    BY DEF Synced, Inside, Owning
  <2>2. Allowed(p, proc[p])
    BY DEF SoloInv, Solo
  <2> QED
    BY <2>1, <2>2 DEF Allowed, Engaged
<1> QED
  BY <1>1, <1>2, <1>3, <1>4 DEF Solo

\* The first half of transition(): the document it will write fits where the
\* process goes on.
LEMMA TransitionSolo ==
    ASSUME NEW p \in Procs, SoloInv(p), NEW me \in Proc, NEW n \in Doc, NEW c \in Conts,
           proc[p].pc \in Inside, Transition(p, me, n, c),
           "limited" \in proc[p].opts => "limited" \in me.opts,
           "exhausted" \in me.opts => spent = "yes", spent' = spent,
           run' = run, consent' = consent, lease' = lease,
           c # "gate" /\ Gated => Gated', c = "dispatched" => consent = "yes",
           Sound(p, n, me, c), Starts(n, c)
    PROVE  Solo(p)'
<1> DEFINE w == [me EXCEPT !.pc = "write", !.next = n, !.cont = c]
<1>1. /\ w.pc = "write" /\ w.next = n /\ w.cont = c /\ w.opts = me.opts /\ w.stage = me.stage
  BY DEF Proc
<1>2. Allowed(p, proc[p]) /\ proc[p].pc \in Owning /\ proc[p].pc \in Engaged /\ Sound(p, run, proc[p], proc[p].pc)
  BY DEF SoloInv, Solo, Owning, Engaged
<1>3. lease.holder = p
  BY <1>2 DEF Allowed
<1>4. proc \in [Procs -> Proc]
  BY ProcFacts DEF SoloInv, ControlInv
<1>5. proc'[p] = w
  BY <1>3, <1>4 DEF Transition
<1> HIDE DEF w
<1>6. Sound(p, run, w, w.pc)'
  <2>1. "write" \in Engaged
    BY DEF Engaged, Owning
  <2> QED
    BY <1>1, <1>2, <2>1 DEF Sound, Settled, Fits, Passed, Tagged, Walking
<1>7. Stands(p, w)'
  <2>1. Sound(p, w.next, w, w.cont)'
    BY <1>1 DEF Sound, Settled, Fits, Passed, Tagged
  <2>2. Starts(w.next, w.cont)'
    BY <1>1 DEF Starts
  <2> QED
    BY <1>1, <2>1, <2>2 DEF Stands, Synced, Inside
<1>8. Allowed(p, w)'
  BY <1>1, <1>2, <1>3 DEF Allowed
<1> QED
  BY <1>5, <1>6, <1>7, <1>8 DEF Solo

\* A jump inside, to a point where the stored document fits.
LEMMA GotoSolo ==
    ASSUME NEW p \in Procs, SoloInv(p), NEW pc \in (Inside \ {"dispatch", "dispatched"}) \cup {"leave"},
           proc[p].pc \in Synced \ {"acquire", "progress"}, Goto(p, pc),
           run' = run, consent' = consent, lease'.holder = lease.holder, spent' = spent,
           Gated => Gated', Sound(p, run, proc[p], pc)
    PROVE  Solo(p)'
<1> DEFINE r == [proc[p] EXCEPT !.pc = pc]
<1>1. proc \in [Procs -> Proc] /\ proc[p] \in Proc
  BY ProcFacts DEF SoloInv, ControlInv
<1>2. r.pc = pc /\ r.doc = proc[p].doc /\ r.opts = proc[p].opts /\ r.stage = proc[p].stage
  BY <1>1 DEF Proc
<1>3. r \in Proc
  BY <1>1, PcValues DEF Proc, Inside
<1>4. proc' = [proc EXCEPT ![p] = r]
  BY <1>1 DEF Goto, Proc
<1> HIDE DEF r
<1>5. Sound(p, run, r, r.pc)
  BY <1>2 DEF Sound, Fits
<1>6. "exhausted" \in r.opts => spent' = "yes"
  BY <1>2 DEF SoloInv, Solo, Allowed
<1> QED
  BY <1>2, <1>3, <1>4, <1>5, <1>6, MoveSolo

\* A document with the attempts of the stored one starts nothing.
LEMMA StartsNothing ==
    ASSUME run \in Doc, NEW n, NEW c, n.att = run.att
    PROVE  Starts(n, c)
<1>1. \A s \in Stages : run.att[s] \in Nat
  BY DEF Doc
<1> QED
  BY <1>1 DEF Starts

\* A step that changes processes only leaves the gate's verdict.
LEMMA QuietGate ==
    ASSUME UNCHANGED <<run, lease, meta, facts, consent, used>>
    PROVE  /\ run' = run /\ lease' = lease /\ consent' = consent /\ spent' = spent
           /\ feedback' = feedback /\ debt' = debt /\ (Gated => Gated')
  BY DEF meta, facts, Gated

\* What the invariant says of one process.
LEMMA SoloFacts ==
    ASSUME NEW p \in Procs, SoloInv(p)
    PROVE  /\ proc \in [Procs -> Proc] /\ proc[p] \in Proc /\ run \in Doc
           /\ proc[p].doc \in Doc /\ proc[p].next \in Doc
           /\ proc[p].stage \in Stages /\ proc[p].leg \subseteq Stages
           /\ proc[p].opts \subseteq {"limited", "proposal", "wasCompleted", "exhausted", "disowned"}
           /\ Sound(p, run, proc[p], proc[p].pc) /\ Allowed(p, proc[p])
           /\ proc[p].pc \in Synced => Same(proc[p].doc, run)
           /\ RankStage \in Stages
  BY ProcFacts, ConstantsAssumption DEF SoloInv, ControlInv, Solo, Stands

\* The steps of the prelude of an execution preserve the invariant.
LEMMA PreludeSolo ==
    ASSUME NEW p \in Procs, SoloInv(p), Prelude(p)
    PROVE  Solo(p)'
<1>0. /\ proc \in [Procs -> Proc] /\ proc[p] \in Proc /\ run \in Doc
      /\ proc[p].doc \in Doc /\ proc[p].next \in Doc
      /\ proc[p].stage \in Stages /\ proc[p].leg \subseteq Stages
      /\ proc[p].opts \subseteq {"limited", "proposal", "wasCompleted", "exhausted", "disowned"}
      /\ Sound(p, run, proc[p], proc[p].pc) /\ Allowed(p, proc[p])
      /\ proc[p].pc \in Synced => Same(proc[p].doc, run)
      /\ RankStage \in Stages
  BY SoloFacts
<1>c. /\ proc[p].pc = "write" => proc[p].cont \in Conts
      /\ proc[p].pc = "put" => proc[p].cont \in {"open", "idle"}
  BY DEF SoloInv, ControlInv, Control
<1>1. CASE Write(p)
  <2>0. PICK r : r = [proc[p] EXCEPT !.pc = proc[p].cont, !.doc = proc[p].next, !.next = NewRun,
                        !.cont = "idle", !.late = proc[p].late + IF lease.holder = p THEN 0 ELSE 1]
    OBVIOUS
  <2>1. proc'[p] = r
    BY <1>0, <1>1, <2>0 DEF Write, Proc
  <2>2. /\ r.pc = proc[p].cont /\ r.doc = proc[p].next /\ r.opts = proc[p].opts
        /\ r.stage = proc[p].stage
    BY <1>0, <2>0 DEF Proc
  <2>3. /\ run' = proc[p].next /\ consent' = consent /\ spent' = spent /\ proc[p].pc = "write"
        /\ lease'.holder = lease.holder /\ (Gated => Gated')
    BY <1>1 DEF Write, At, meta, facts, Gated
  <2>4. Sound(p, proc[p].next, proc[p], proc[p].cont) /\ proc[p].cont \in Conts
    BY <1>c, <2>3 DEF SoloInv, Solo, Stands
  <2>5. Sound(p, run, r, r.pc)'
    BY <2>2, <2>3, <2>4 DEF Sound, Settled, Fits, Passed, Tagged
  <2>6. Stands(p, r)'
    BY <2>2, <2>3, <2>4 DEF Stands, Same, Conts
  <2>7. Allowed(p, r)'
    BY <1>0, <2>2, <2>3, <2>4 DEF Allowed, Conts, Engaged, Owning
  <2> QED
    BY <2>1, <2>5, <2>6, <2>7 DEF Solo
<1>2. CASE Put(p)
  <2>0. PICK r : r = IF proc[p].cont = "idle" THEN [Idle EXCEPT !.late = Late(p)]
                     ELSE [proc[p] EXCEPT !.pc = proc[p].cont, !.next = NewRun, !.cont = "idle"]
    OBVIOUS
  <2>1. proc'[p] = r
    BY <1>0, <1>2, <2>0 DEF Put
  <2>2. /\ r.pc = proc[p].cont /\ r.pc \in {"open", "idle"}
        /\ r.opts = IF r.pc = "idle" THEN {} ELSE proc[p].opts
    BY <1>0, <1>2, <1>c, <2>0 DEF Proc, Idle, Put, At
  <2>3. /\ run' = proc[p].next /\ consent' = consent /\ spent' = spent /\ proc[p].pc = "put"
        /\ (Gated => Gated')
    BY <1>2 DEF Put, At, meta, facts, Gated
  <2>4. Sound(p, proc[p].next, proc[p], proc[p].cont)
    BY <2>3 DEF SoloInv, Solo, Stands
  <2>5. Sound(p, run, r, r.pc)'
    BY <2>2, <2>3, <2>4 DEF Sound, Settled, Fits, Passed, Tagged, Walking
  <2>6. Stands(p, r)'
    BY <2>2 DEF Stands, Synced, Inside
  <2>7. Allowed(p, r)'
    BY <1>0, <2>2, <2>3 DEF Allowed, Engaged, Owning, Inside
  <2> QED
    BY <2>1, <2>5, <2>6, <2>7 DEF Solo
<1>3. CASE ExecRead(p)
  <2>0. PICK r : r = [proc[p] EXCEPT !.pc = "acquire", !.doc = run]
    OBVIOUS
  <2>1. proc'[p] = r
    BY <1>0, <1>3, <2>0 DEF ExecRead, Proc
  <2>2. r.pc = "acquire" /\ r.doc = run /\ r.opts = proc[p].opts
    BY <1>0, <2>0 DEF Proc
  <2>3. run' = run /\ consent' = consent /\ spent' = spent /\ proc[p].pc = "open" /\ (Gated => Gated')
    BY <1>3, QuietGate DEF ExecRead, At
  <2>4. Sound(p, run, r, r.pc)'
    BY <1>0, <2>2, <2>3 DEF Sound, Settled, Fits, Passed, Tagged, Walking, Engaged
  <2>5. Stands(p, r)'
    BY <2>2, <2>3 DEF Stands, Same
  <2>6. Allowed(p, r)'
    BY <1>0, <2>2, <2>3 DEF Allowed, Engaged, Owning, Inside
  <2> QED
    BY <2>1, <2>4, <2>5, <2>6 DEF Solo
<1>4. CASE ExecAcquire(p)
  <2>1. PICK pc \in {"feedback", "leave"} : Goto(p, pc) /\ (pc = "feedback" => lease'.holder = p)
    BY <1>4 DEF ExecAcquire
  <2>0. PICK r : r = [proc[p] EXCEPT !.pc = pc]
    OBVIOUS
  <2>2. proc'[p] = r
    BY <1>0, <2>0, <2>1 DEF Goto, Proc
  <2>3. r.pc = pc /\ r.doc = proc[p].doc /\ r.opts = proc[p].opts
    BY <1>0, <2>0 DEF Proc
  <2>4. run' = run /\ consent' = consent /\ spent' = spent /\ proc[p].pc = "acquire" /\ (Gated => Gated')
    BY <1>4 DEF ExecAcquire, At, meta, facts, Gated
  <2>5. Sound(p, run, r, r.pc)'
    BY <1>0, <2>3, <2>4 DEF Sound, Settled, Fits, Passed, Tagged, Walking, Engaged, Owning, Inside
  <2>6. Same(proc[p].doc, run)
    BY <1>0, <2>4 DEF Synced
  <2>7. Stands(p, r)'
    BY <2>3, <2>4, <2>6 DEF Stands, Same
  <2>8. Allowed(p, r)'
    BY <1>0, <2>1, <2>3, <2>4 DEF Allowed, Engaged, Owning, Inside
  <2> QED
    BY <2>2, <2>5, <2>7, <2>8 DEF Solo
<1>5. CASE DispatchReopen(p)
  <2> DEFINE o == Reopened(run, proc[p].leg, Terminal \cup {"failed"})
             n == Running(o)
  <2>1. o \in Doc /\ n \in Doc
    BY <1>0, ReopenedDoc, RunningDoc
  <2>2. proc[p].pc = "dispatch" /\ Transition(p, proc[p], n, "dispatched")
    BY <1>5 DEF DispatchReopen, At
  <2>3. /\ n.status = "running" /\ n.att = run.att /\ n.flags = run.flags
        /\ n.st[RankStage] \in {"pending", run.st[RankStage]}
    BY <1>0, <2>1, ReopenedFields, StatusFields DEF Running
  <2> HIDE DEF n
  <2>4. consent = "yes"
    BY <1>0, <2>2 DEF Allowed
  <2>5. Sound(p, n, proc[p], "dispatched")
    BY <1>0, <2>2, <2>3, <2>4 DEF Sound, Settled, Fits, Passed, Tagged, Walking
  <2>6. Starts(n, "dispatched")
    BY <1>0, <2>3, StartsNothing
  <2>7. "exhausted" \in proc[p].opts => spent = "yes"
    BY <1>0 DEF Allowed
  <2>8. /\ run' = run /\ lease' = lease /\ consent' = consent /\ spent' = spent /\ (Gated => Gated')
    BY <1>5, QuietGate DEF DispatchReopen
  <2>9. proc[p].pc \in Inside /\ "dispatched" \in Conts
    BY <2>2 DEF Inside, Conts
  <2> QED
    BY <1>0, <2>1, <2>2, <2>4, <2>5, <2>6, <2>7, <2>8, <2>9, TransitionSolo
<1>6. CASE DispatchLaunch(p)
  <2>0. PICK r : r = [Idle EXCEPT !.pc = "open"]
    OBVIOUS
  <2>1. proc'[p] = r
    BY <1>0, <1>6, <2>0 DEF DispatchLaunch
  <2>2. r.pc = "open" /\ r.opts = {}
    BY <2>0 DEF Idle
  <2>3. run' = run /\ consent' = consent /\ proc[p].pc = "dispatched" /\ (Gated => Gated')
    BY <1>6 DEF DispatchLaunch, At, meta, facts, Gated
  <2>4. consent = "yes"
    BY <1>0, <2>3 DEF Allowed
  <2>5. Sound(p, run, r, r.pc)'
    BY <1>0, <2>2, <2>3, <2>4 DEF Sound, Settled, Fits, Passed, Tagged, Walking
  <2>6. Stands(p, r)'
    BY <2>2 DEF Stands, Synced, Inside
  <2>7. Allowed(p, r)'
    BY <2>2, <2>3, <2>4 DEF Allowed, Owning, Inside
  <2> QED
    BY <2>1, <2>5, <2>6, <2>7 DEF Solo
<1>7. CASE FeedbackReopen(p)
  <2>1. /\ Entered(p) \in Proc /\ Entered(p).doc = proc[p].doc /\ Entered(p).stage = proc[p].stage
        /\ \A o \in {"limited", "exhausted"} : o \in Entered(p).opts <=> o \in proc[p].opts
    BY <1>0 DEF Entered, Proc
  <2>2. /\ proc[p].pc = "feedback" /\ run' = run /\ lease' = lease /\ consent' = consent
        /\ spent' = spent /\ (Gated => Gated')
    BY <1>7, QuietGate DEF FeedbackReopen, At
  <2>3. "exhausted" \in Entered(p).opts => spent = "yes"
    BY <1>0, <2>1 DEF Allowed
  <2>4. CASE FeedbackReopens(p)
    <3> DEFINE o == Reopened(run, FeedbackLeg, Terminal)
               n == Running(o)
    <3>1. o \in Doc /\ n \in Doc
      BY <1>0, ReopenedDoc, RunningDoc
    <3>2. Transition(p, Entered(p), n, "epoch")
      BY <1>7, <2>4 DEF FeedbackReopen
    <3>3. /\ n.status = "running" /\ n.att = run.att /\ n.flags = run.flags
          /\ n.st[RankStage] \in {"pending", run.st[RankStage]}
      BY <1>0, <3>1, ReopenedFields, StatusFields DEF Running
    <3> HIDE DEF n
    <3>4. Sound(p, n, Entered(p), "epoch")
      BY <1>0, <2>2, <3>3 DEF Sound, Settled, Fits, Passed, Tagged, Walking, Engaged, Owning, Inside
    <3>5. Starts(n, "epoch")
      BY <1>0, <3>3, StartsNothing
    <3>6. proc[p].pc \in Inside /\ "epoch" \in Conts
      BY <2>2 DEF Inside, Conts
    <3> QED
      BY <2>1, <2>2, <2>3, <3>1, <3>2, <3>4, <3>5, <3>6, TransitionSolo
  <2>5. CASE ~FeedbackReopens(p)
    <3> DEFINE r == [Entered(p) EXCEPT !.pc = "debt"]
    <3>1. r \in Proc /\ r.pc = "debt" /\ r.doc = proc[p].doc /\ r.opts = Entered(p).opts
      BY <2>1, PcValues DEF Proc
    <3>2. proc' = [proc EXCEPT ![p] = r]
      BY <1>7, <2>5 DEF FeedbackReopen
    <3> HIDE DEF r
    <3>3. Sound(p, run, r, r.pc)
      BY <1>0, <2>2, <3>1 DEF Sound, Settled, Fits, Passed, Tagged, Walking, Engaged, Owning, Inside
    <3>4. proc[p].pc \in Synced \ {"acquire", "progress"} /\ r.pc \in Inside \ {"dispatch", "dispatched"}
      BY <2>2, <3>1 DEF Synced, Inside
    <3> QED
      BY <2>1, <2>2, <2>3, <3>1, <3>2, <3>3, <3>4, MoveSolo
  <2> QED
    BY <2>4, <2>5
<1>8. CASE FeedbackEpoch(p)
  <2>1. /\ proc[p].pc = "epoch" /\ Goto(p, "debt") /\ run' = run /\ lease' = lease /\ consent' = consent
        /\ spent' = spent /\ (Gated => Gated')
    BY <1>8 DEF FeedbackEpoch, At, facts, Gated
  <2>2. Sound(p, run, proc[p], "debt")
    BY <1>0, <2>1 DEF Sound, Fits, Passed, Tagged, Walking, Engaged, Owning, Inside
  <2>3. proc[p].pc \in Synced \ {"acquire", "progress"} /\ "debt" \in Inside \ {"dispatch", "dispatched"}
    BY <2>1 DEF Synced, Inside
  <2> QED
    BY <2>1, <2>2, <2>3, GotoSolo
<1>9. CASE DebtReopen(p)
  <2>1. /\ proc[p].pc = "debt" /\ run' = run /\ lease' = lease /\ consent' = consent
        /\ spent' = spent /\ (Gated => Gated')
    BY <1>9, QuietGate DEF DebtReopen, At
  <2>2. /\ proc[p].pc \in Synced \ {"acquire", "progress"} /\ "held" \in Inside \ {"dispatch", "dispatched"}
        /\ proc[p].pc \in Inside /\ "held" \in Conts
    BY <2>1 DEF Synced, Inside, Conts
  <2> DEFINE o == Reopened(run, EvidenceLeg, Terminal)
             n == Running(o)
  <2>3. o \in Doc /\ n \in Doc
    BY <1>0, ReopenedDoc, RunningDoc
  <2>4. Transition(p, proc[p], n, "held") \/ Goto(p, "held")
    BY <1>9 DEF DebtReopen
  <2>5. /\ n.status = "running" /\ n.att = run.att /\ n.flags = run.flags
        /\ n.st[RankStage] \in {"pending", run.st[RankStage]}
    BY <1>0, <2>3, ReopenedFields, StatusFields DEF Running
  <2> HIDE DEF n
  <2>6. Sound(p, n, proc[p], "held") /\ Sound(p, run, proc[p], "held")
    BY <1>0, <2>1, <2>5 DEF Sound, Settled, Fits, Passed, Tagged, Walking, Engaged, Owning, Inside
  <2>7. Starts(n, "held")
    BY <1>0, <2>5, StartsNothing
  <2>8. "exhausted" \in proc[p].opts => spent = "yes"
    BY <1>0 DEF Allowed
  <2> QED
    BY <1>0, <2>1, <2>2, <2>3, <2>4, <2>6, <2>7, <2>8, TransitionSolo, GotoSolo
<1>10. CASE HeldReopen(p)
  <2> DEFINE held == {s \in Stages : proc[p].doc.st[s] = "held"}
             opts == (proc[p].opts \ {"exhausted"}) \cup IF spent = "yes" THEN {"exhausted"} ELSE {}
             me == [proc[p] EXCEPT !.opts = opts]
             r == [me EXCEPT !.pc = "parking"]
             n == Reopened(run, held, StageStates)
  <2>1. opts \subseteq {"limited", "proposal", "wasCompleted", "exhausted", "disowned"}
    BY <1>0
  <2>2. \/ Transition(p, me, n, "parking")
        \/ proc' = [proc EXCEPT ![p] = r]
    BY <1>10 DEF HeldReopen
  <2>3. ("exhausted" \in opts => spent = "yes") /\ ("limited" \in opts <=> "limited" \in proc[p].opts)
    OBVIOUS
  <2>4. n \in Doc
    BY <1>0, ReopenedDoc
  <2>5. /\ n.status = run.status /\ n.att = run.att /\ n.flags = run.flags
        /\ \A s \in Stages : n.st[s] \in {"pending", run.st[s]}
    BY <1>0, ReopenedFields
  <2> HIDE DEF opts, held, n
  <2>6. me \in Proc /\ me.opts = opts /\ me.stage = proc[p].stage /\ me.doc = proc[p].doc
    BY <1>0, <2>1 DEF Proc
  <2> HIDE DEF me
  <2>7. r \in Proc /\ r.pc = "parking" /\ r.opts = opts /\ r.stage = proc[p].stage /\ r.doc = proc[p].doc
    BY <2>6, PcValues DEF Proc
  <2> HIDE DEF r
  <2>8. /\ proc[p].pc = "held" /\ run' = run /\ lease' = lease /\ consent' = consent
        /\ spent' = spent /\ (Gated => Gated')
    BY <1>10, QuietGate DEF HeldReopen, At
  <2>9. /\ proc[p].pc \in Synced \ {"acquire", "progress"} /\ "parking" \in Inside \ {"dispatch", "dispatched"}
        /\ proc[p].pc \in Inside /\ "parking" \in Conts
    BY <2>8 DEF Synced, Inside, Conts
  <2>10. Sound(p, n, me, "parking")
    <3>1. Settled(n)
      BY <1>0, <2>5 DEF Sound, Settled
    <3> QED
      BY <1>0, <2>5, <2>8, <3>1 DEF Sound, Fits, Passed, Tagged, Walking, Engaged, Owning, Inside
  <2>11. Sound(p, run, r, r.pc)
    BY <1>0, <2>7, <2>8 DEF Sound, Fits, Passed, Tagged, Walking, Engaged, Owning, Inside
  <2>12. Starts(n, "parking")
    BY <1>0, <2>5, StartsNothing
  <2>13. CASE Transition(p, me, n, "parking")
    BY <2>3, <2>4, <2>6, <2>8, <2>9, <2>10, <2>12, <2>13, TransitionSolo
  <2>14. CASE proc' = [proc EXCEPT ![p] = r]
    BY <2>3, <2>7, <2>8, <2>9, <2>11, <2>14, MoveSolo
  <2> QED
    BY <2>2, <2>13, <2>14
<1>11. CASE ParkingClear(p)
  <2>1. /\ proc[p].pc = "parking" /\ run' = run /\ lease' = lease /\ consent' = consent
        /\ spent' = spent /\ (Gated => Gated')
    BY <1>11, QuietGate DEF ParkingClear, At
  <2>2. /\ proc[p].pc \in Synced \ {"acquire", "progress"} /\ "start" \in Inside \ {"dispatch", "dispatched"}
        /\ proc[p].pc \in Inside /\ "start" \in Conts /\ proc[p].pc \in Engaged
    BY <2>1 DEF Synced, Inside, Conts, Engaged, Owning
  <2>3. Same(proc[p].doc, run) /\ ("exhausted" \in proc[p].opts => spent = "yes")
        /\ (consent = "yes" \/ "limited" \in proc[p].opts)
    BY <1>0, <2>2 DEF Allowed
  <2>4. CASE ~Has(p, "limited") /\ "parking" \in proc[p].doc.flags
    <3> DEFINE f == run.flags \ {"parking"}
               n == [run EXCEPT !.flags = f]
    <3>1. f \in SUBSET {"cancel", "parking"} /\ "parking" \notin f
      BY <1>0 DEF Doc
    <3>2. Transition(p, proc[p], n, "start")
      BY <1>11, <2>4 DEF ParkingClear
    <3> HIDE DEF f
    <3>3. n \in Doc /\ n.status = run.status /\ n.att = run.att /\ n.flags = f /\ n.st = run.st
      BY <1>0, <3>1, FlagsDoc, FlagsFields
    <3> HIDE DEF n
    <3>4. consent = "yes"
      BY <2>3, <2>4 DEF Has
    <3>5. Sound(p, n, proc[p], "start")
      BY <1>0, <2>1, <3>1, <3>3, <3>4 DEF Sound, Settled, Fits, Passed, Tagged, Walking
    <3>6. Starts(n, "start")
      BY <1>0, <3>3, StartsNothing
    <3> QED
      BY <1>0, <2>1, <2>2, <2>3, <3>2, <3>3, <3>5, <3>6, TransitionSolo
  <2>5. CASE ~(~Has(p, "limited") /\ "parking" \in proc[p].doc.flags)
    <3>1. Goto(p, "start")
      BY <1>11, <2>5 DEF ParkingClear
    <3>2. Sound(p, run, proc[p], "start")
      BY <1>0, <2>1, <2>2, <2>3, <2>5 DEF Sound, Fits, Passed, Tagged, Walking, Same, Has
    <3> QED
      BY <2>1, <2>2, <3>1, <3>2, GotoSolo
  <2> QED
    BY <2>4, <2>5
<1>12. CASE StatusRunning(p)
  <2>1. /\ proc[p].pc = "start" /\ run' = run /\ lease' = lease /\ consent' = consent
        /\ spent' = spent /\ (Gated => Gated')
    BY <1>12, QuietGate DEF StatusRunning, At
  <2>2. /\ proc[p].pc \in Synced \ {"acquire", "progress"} /\ "walk" \in Inside \ {"dispatch", "dispatched"}
        /\ proc[p].pc \in Inside /\ "walk" \in Conts /\ proc[p].pc \in Engaged
    BY <2>1 DEF Synced, Inside, Conts, Engaged, Owning
  <2>3. Same(proc[p].doc, run) /\ ("exhausted" \in proc[p].opts => spent = "yes")
    BY <1>0, <2>2 DEF Allowed
  <2>4. CASE proc[p].doc.status # "running"
    <3> DEFINE n == Running(run)
    <3>1. n \in Doc /\ n.status = "running" /\ n.att = run.att /\ n.flags = run.flags /\ n.st = run.st
      BY <1>0, RunningDoc, StatusFields DEF Running
    <3>2. Transition(p, proc[p], n, "walk")
      BY <1>12, <2>4 DEF StatusRunning
    <3> HIDE DEF n
    <3>3. Sound(p, n, proc[p], "walk")
      BY <1>0, <2>1, <2>2, <3>1 DEF Sound, Settled, Fits, Passed, Tagged
    <3>4. Starts(n, "walk")
      BY <1>0, <3>1, StartsNothing
    <3> QED
      BY <1>0, <2>1, <2>2, <2>3, <3>1, <3>2, <3>3, <3>4, TransitionSolo
  <2>5. CASE proc[p].doc.status = "running"
    <3>1. Goto(p, "walk")
      BY <1>12, <2>5 DEF StatusRunning
    <3>2. Sound(p, run, proc[p], "walk")
      BY <1>0, <2>1, <2>2, <2>3, <2>5 DEF Sound, Fits, Passed, Tagged, Same
    <3> QED
      BY <2>1, <2>2, <3>1, <3>2, GotoSolo
  <2> QED
    BY <2>4, <2>5
<1> QED
  BY <1>1, <1>2, <1>3, <1>4, <1>5, <1>6, <1>7, <1>8, <1>9, <1>10, <1>11, <1>12 DEF Prelude

\* A stage of the plan has one place in it.
LEMMA IndexOf ==
    ASSUME NEW i \in 1..Len(Plan)
    PROVE  Plan[i] \in Stages /\ Index(Plan[i]) = i
  BY PlanAssumption DEF Stages, Index

\* The gate's verdict outlives a bounded event other than a raise of the budget.
LEMMA BoundedGate ==
    ASSUME TypeOK, NEW e \in Events \ {"any"}, Bounded(e), ranked' = ranked, qgRound' = qgRound,
           spent = "yes" => spent' = "yes"
    PROVE  Gated => Gated'
<1>1. \A f \in Events : used'[f] >= used[f] /\ used[f] \in Nat /\ used'[f] \in Nat
  BY BoundedType DEF TypeOK
<1>2. "crash" \in Events /\ "raise" \in Events
  BY DEF Events
<1> HIDE DEF Events
<1> QED
  BY <1>1, <1>2 DEF Gated

\* A stage that is marked at a point of the walk.
LEMMA MarkedSound ==
    ASSUME NEW p \in Procs, SoloInv(p), proc[p].pc \in {"walk", "applicable", "handler"},
           NEW s \in Stages, NEW x \in {"held", "skipped"}
    PROVE  /\ Marked(run, s, x) \in Doc
           /\ Sound(p, Marked(run, s, x), proc[p], "walk") /\ Starts(Marked(run, s, x), "walk")
<1>0. /\ run \in Doc /\ Sound(p, run, proc[p], proc[p].pc) /\ RankStage \in Stages
  BY SoloFacts
<1> DEFINE n == Marked(run, s, x)
<1>1. n \in Doc
  BY <1>0, MarkedDoc DEF StageStates, Terminal
<1>2. /\ n.status = run.status /\ n.att = run.att /\ n.flags = run.flags
      /\ \A t \in Stages : n.st[t] = IF t = s THEN x ELSE run.st[t]
  BY <1>0, MarkedFields
<1> HIDE DEF n
<1>3. Sound(p, n, proc[p], "walk")
  BY <1>0, <1>2 DEF Sound, Settled, Fits, Passed, Tagged, Walking, Engaged, Owning, Inside
<1>4. Starts(n, "walk")
  BY <1>0, <1>2, StartsNothing
<1> QED
  BY <1>1, <1>3, <1>4 DEF n

\* A failure of the stage, cancelled or not.
LEMMA FailSound ==
    ASSUME NEW p \in Procs, SoloInv(p), proc[p].pc \in {"applicable", "handler"}, NEW c \in BOOLEAN
    PROVE  /\ FailTo(run, proc[p].stage, c) \in Doc
           /\ Sound(p, FailTo(run, proc[p].stage, c), proc[p], "leave")
           /\ Starts(FailTo(run, proc[p].stage, c), "leave")
<1>0. /\ run \in Doc /\ Sound(p, run, proc[p], proc[p].pc) /\ RankStage \in Stages
      /\ proc[p].stage \in Stages
  BY SoloFacts
<1> DEFINE n == FailTo(run, proc[p].stage, c)
<1>1. n \in Doc
  BY <1>0, FailToDoc
<1>2. /\ n.status \in {"cancelled", "partial"} /\ n.att = run.att
      /\ "parking" \in n.flags <=> "parking" \in run.flags
      /\ \A t \in Stages : n.st[t] = IF t = proc[p].stage THEN "failed" ELSE run.st[t]
  BY <1>0, FailToFields
<1> HIDE DEF n
<1>3. Sound(p, n, proc[p], "leave")
  BY <1>0, <1>2 DEF Sound, Settled, Fits, Passed, Tagged, Walking, Engaged, Owning, Inside
<1>4. Starts(n, "leave")
  BY <1>0, <1>2, StartsNothing
<1> QED
  BY <1>1, <1>3, <1>4 DEF n

\* The steps of the stage walk preserve the invariant.
LEMMA WalkSolo ==
    ASSUME NEW p \in Procs, SoloInv(p), Walk(p)
    PROVE  Solo(p)'
<1>0. /\ proc \in [Procs -> Proc] /\ proc[p] \in Proc /\ run \in Doc
      /\ proc[p].doc \in Doc /\ proc[p].next \in Doc
      /\ proc[p].stage \in Stages /\ proc[p].leg \subseteq Stages
      /\ proc[p].opts \subseteq {"limited", "proposal", "wasCompleted", "exhausted", "disowned"}
      /\ Sound(p, run, proc[p], proc[p].pc) /\ Allowed(p, proc[p])
      /\ proc[p].pc \in Synced => Same(proc[p].doc, run)
      /\ RankStage \in Stages
  BY SoloFacts
<1>t. TypeOK
  BY DEF SoloInv, ControlInv
<1>e. "exhausted" \in proc[p].opts => spent = "yes"
  BY <1>0 DEF Allowed
<1>w. /\ {"walk", "applicable", "handler", "gate", "regen"} \subseteq Synced \ {"acquire", "progress"}
      /\ {"walk", "applicable", "handler", "gate", "regen"} \subseteq Inside
      /\ {"walk", "handler", "gate", "regen", "settle"} \subseteq Inside \ {"dispatch", "dispatched"}
      /\ {"walk", "applicable", "gate", "leave"} \subseteq Conts
  BY DEF Synced, Inside, Conts
<1>1. CASE WalkEnd(p)
  <2>1. /\ proc[p].pc = "walk" /\ Goto(p, "settle") /\ run' = run /\ lease' = lease
        /\ consent' = consent /\ spent' = spent /\ (Gated => Gated')
    BY <1>1, QuietGate DEF WalkEnd, At
  <2>2. Sound(p, run, proc[p], "settle")
    BY <1>0, <2>1 DEF Sound, Fits, Passed, Tagged, Walking, Engaged, Owning, Inside
  <2> QED
    BY <1>w, <2>1, <2>2, GotoSolo
<1>2. CASE WalkBudgetSkip(p)
  <2>1. /\ proc[p].pc = "walk" /\ run' = run /\ lease' = lease
        /\ consent' = consent /\ spent' = spent /\ (Gated => Gated')
    BY <1>2, QuietGate DEF WalkBudgetSkip, At
  <2>2. PICK i \in 1..Len(Plan) : Transition(p, proc[p], Marked(run, Plan[i], "held"), "walk")
    BY <1>2 DEF WalkBudgetSkip
  <2>3. Plan[i] \in Stages
    BY IndexOf
  <2>4. /\ Marked(run, Plan[i], "held") \in Doc
        /\ Sound(p, Marked(run, Plan[i], "held"), proc[p], "walk")
        /\ Starts(Marked(run, Plan[i], "held"), "walk")
    BY <2>1, <2>3, MarkedSound
  <2> QED
    BY <1>0, <1>e, <1>w, <2>1, <2>2, <2>4, TransitionSolo
<1>3. CASE WalkStart(p)
  <2>1. PICK i \in 1..Len(Plan) :
               /\ ~StopsBefore(p, i)
               /\ Transition(p, [proc[p] EXCEPT !.stage = Plan[i]],
                          [run EXCEPT !.st[Plan[i]] = "running",
                                      !.att[Plan[i]] = proc[p].doc.att[Plan[i]] + 1],
                          "applicable")
    BY <1>3 DEF WalkStart
  <2>2. Plan[i] \in Stages /\ Index(Plan[i]) = i
    BY IndexOf
  <2>3. PICK s \in Stages : s = Plan[i]
    BY <2>2
  <2>4. PICK k : k = proc[p].doc.att[s] + 1
    OBVIOUS
  <2>5. k \in Nat
    <3>1. proc[p].doc.att[s] \in Nat
      BY <1>0 DEF Doc
    <3> QED
      BY <2>4, <3>1
  <2> DEFINE n == [run EXCEPT !.st[s] = "running", !.att[s] = k]
             me == [proc[p] EXCEPT !.stage = s]
  <2>6. "running" \in StageStates
    BY DEF StageStates
  <2>7. n \in Doc
    BY <1>0, <2>5, <2>6 DEF Doc
  <2>8. /\ n.status = run.status /\ n.flags = run.flags
        /\ \A t \in Stages : n.st[t] = IF t = s THEN "running" ELSE run.st[t]
        /\ \A t \in Stages : n.att[t] = IF t = s THEN k ELSE run.att[t]
    BY <1>0 DEF Doc
  <2>9. me \in Proc /\ me.opts = proc[p].opts /\ me.stage = s
    BY <1>0 DEF Proc
  <2>10. Transition(p, me, n, "applicable")
    BY <2>1, <2>3, <2>4
  <2> HIDE DEF n, me
  <2>11. /\ proc[p].pc = "walk" /\ run' = run /\ lease' = lease
         /\ consent' = consent /\ spent' = spent /\ (Gated => Gated')
    BY <1>3, QuietGate DEF WalkStart, At
  <2>12. Sound(p, n, me, "applicable")
    BY <1>0, <2>8, <2>9, <2>11 DEF Sound, Settled, Fits, Passed, Tagged, Walking, Engaged, Owning, Inside
  <2>13. Starts(n, "applicable")
    <3>1. consent = "yes" \/ Index(s) < Index(StopStage)
      <4>1. consent = "yes" \/ "limited" \in proc[p].opts
        BY <1>0, <2>11 DEF Allowed, Engaged, Owning, Inside
      <4>2. PICK j \in 1..Len(Plan) : Plan[j] = StopStage
        BY ConstantsAssumption DEF Stages
      <4>3. Index(StopStage) \in Nat /\ i \in Nat
        BY <4>2, IndexOf
      <4> QED
        BY <2>1, <2>2, <2>3, <4>1, <4>3 DEF StopsBefore, Has
    <3>2. \A t \in Stages : run.att[t] \in Nat
      BY <1>0 DEF Doc
    <3> QED
      BY <2>8, <3>1, <3>2 DEF Starts
  <2> QED
    BY <1>e, <1>w, <2>7, <2>9, <2>10, <2>11, <2>12, <2>13, TransitionSolo
<1>4. CASE NotApplicable(p)
  <2>1. /\ proc[p].pc = "applicable" /\ run' = run /\ lease' = lease
        /\ consent' = consent /\ spent' = spent /\ (Gated => Gated')
    BY <1>4, QuietGate DEF NotApplicable, At
  <2>2. /\ Marked(run, proc[p].stage, "skipped") \in Doc
        /\ Sound(p, Marked(run, proc[p].stage, "skipped"), proc[p], "walk")
        /\ Starts(Marked(run, proc[p].stage, "skipped"), "walk")
    BY <1>0, <2>1, MarkedSound
  <2>3. Transition(p, proc[p], Marked(run, proc[p].stage, "skipped"), "walk")
    BY <1>4 DEF NotApplicable
  <2> QED
    BY <1>0, <1>e, <1>w, <2>1, <2>2, <2>3, TransitionSolo
<1>5. CASE HandlerCancelled(p)
  <2>1. /\ proc[p].pc \in {"applicable", "handler"} /\ run' = run /\ lease' = lease
        /\ consent' = consent /\ spent' = spent /\ (Gated => Gated')
    BY <1>5, QuietGate DEF HandlerCancelled, At
  <2>2. PICK c \in BOOLEAN : Transition(p, proc[p], FailTo(run, proc[p].stage, c), "leave")
    BY <1>5 DEF HandlerCancelled
  <2>3. /\ FailTo(run, proc[p].stage, c) \in Doc
        /\ Sound(p, FailTo(run, proc[p].stage, c), proc[p], "leave")
        /\ Starts(FailTo(run, proc[p].stage, c), "leave")
    BY <2>1, FailSound
  <2> QED
    BY <1>0, <1>e, <1>w, <2>1, <2>2, <2>3, TransitionSolo
<1>6. CASE HandlerEnter(p)
  <2>1. /\ proc[p].pc = "applicable" /\ Goto(p, "handler") /\ run' = run /\ lease' = lease
        /\ consent' = consent /\ spent' = spent /\ (Gated => Gated')
    BY <1>6, QuietGate DEF HandlerEnter, At
  <2>2. Sound(p, run, proc[p], "handler")
    BY <1>0, <2>1 DEF Sound, Fits, Passed, Tagged, Walking, Engaged, Owning, Inside
  <2> QED
    BY <1>w, <2>1, <2>2, GotoSolo
<1>7. CASE HandlerSpend(p)
  <2> DEFINE r == [proc[p] EXCEPT !.opts = @ \cup {"exhausted"}]
  <2>1. /\ proc[p].pc = "handler" /\ run' = run /\ lease'.holder = lease.holder
        /\ consent' = consent /\ spent' = "yes" /\ qgRound' = qgRound /\ ranked' = ranked
    BY <1>7 DEF HandlerSpend, At, meta
  <2>2. Gated => Gated'
    BY <1>t, <1>7, <2>1, BoundedGate DEF HandlerSpend, Events
  <2>3. /\ r \in Proc /\ r.pc = "handler" /\ r.doc = proc[p].doc /\ r.stage = proc[p].stage
        /\ "limited" \in r.opts <=> "limited" \in proc[p].opts
    BY <1>0, <2>1 DEF Proc
  <2>4. proc' = [proc EXCEPT ![p] = r]
    BY <1>0, <1>7 DEF HandlerSpend, Proc
  <2> HIDE DEF r
  <2>5. Sound(p, run, r, r.pc)
    BY <1>0, <2>1, <2>3 DEF Sound, Fits
  <2> QED
    BY <1>w, <2>1, <2>2, <2>3, <2>4, <2>5, MoveSolo
<1>8. CASE HandlerReceipt(p)
  <2>1. /\ proc[p].pc = "handler" /\ run' = run /\ lease'.holder = lease.holder /\ proc' = proc
        /\ consent' = consent /\ spent' = spent /\ (Gated => Gated')
    BY <1>8 DEF HandlerReceipt, At, meta, facts, Gated
  <2>2. proc' = [proc EXCEPT ![p] = proc[p]]
    BY <1>0, <2>1
  <2> QED
    BY <1>0, <1>e, <1>w, <2>1, <2>2, MoveSolo
<1>9. CASE HandlerDone(p)
  <2> DEFINE n == Marked(run, proc[p].stage, "done")
             c == IF proc[p].stage = RankStage THEN "gate" ELSE "walk"
  <2>1. /\ proc[p].pc = "handler" /\ run' = run /\ lease' = lease
        /\ consent' = consent /\ spent' = spent /\ qgRound' = qgRound /\ used' = used
        /\ proc[p].stage # RankStage => ranked' = ranked
    BY <1>9 DEF HandlerDone, At, meta
  <2>2. Transition(p, proc[p], n, c)
    BY <1>9 DEF HandlerDone
  <2>3. n \in Doc
    BY <1>0, MarkedDoc DEF StageStates, Terminal
  <2>4. /\ n.status = run.status /\ n.att = run.att /\ n.flags = run.flags
        /\ \A t \in Stages : n.st[t] = IF t = proc[p].stage THEN "done" ELSE run.st[t]
    BY <1>0, MarkedFields
  <2>5. c \in Conts /\ c \in {"gate", "walk"} /\ (c = "gate" <=> proc[p].stage = RankStage)
    BY DEF Conts
  <2> HIDE DEF n, c
  <2>6. Sound(p, n, proc[p], c)
    BY <1>0, <2>1, <2>4, <2>5 DEF Sound, Settled, Fits, Passed, Tagged, Walking, Engaged, Owning, Inside
  <2>7. Starts(n, c)
    BY <1>0, <2>4, StartsNothing
  <2>8. c # "gate" /\ Gated => Gated'
    BY <2>1, <2>5 DEF Gated
  <2>9. c # "dispatched"
    BY <2>5
  <2> QED
    BY <1>0, <1>e, <1>w, <2>1, <2>2, <2>3, <2>5, <2>6, <2>7, <2>8, <2>9, TransitionSolo
<1>10. CASE HandlerProgress(p)
  <2>0. PICK r : r = [proc[p] EXCEPT !.pc = "progress", !.next = run]
    OBVIOUS
  <2>1. proc'[p] = r
    BY <1>0, <1>10, <2>0 DEF HandlerProgress, Proc
  <2>2. /\ r.pc = "progress" /\ r.next = run /\ r.doc = proc[p].doc /\ r.opts = proc[p].opts
        /\ r.stage = proc[p].stage
    BY <1>0, <2>0 DEF Proc
  <2>3. /\ proc[p].pc = "handler" /\ run' = run /\ lease' = lease /\ lease.holder = p
        /\ consent' = consent /\ spent' = spent /\ ranked' = ranked /\ qgRound' = qgRound
    BY <1>10 DEF HandlerProgress, At, meta, facts
  <2>4. Gated => Gated'
    BY <1>t, <1>10, <2>3, BoundedGate DEF HandlerProgress, Events
  <2>5. Sound(p, run, r, r.pc)'
    BY <1>0, <2>2, <2>3, <2>4 DEF Sound, Settled, Fits, Passed, Tagged, Walking, Engaged, Owning, Inside
  <2>6. Stands(p, r)'
    BY <1>0, <1>w, <2>2, <2>3 DEF Stands, Same
  <2>7. Allowed(p, r)'
    BY <1>0, <2>2, <2>3 DEF Allowed, Engaged, Owning, Inside
  <2> QED
    BY <2>1, <2>5, <2>6, <2>7 DEF Solo
<1>11. CASE ProgressWrite(p)
  <2>0. PICK r : r = [proc[p] EXCEPT !.pc = "handler", !.next = NewRun,
                                     !.late = @ + IF lease.holder = p THEN 0 ELSE 1]
    OBVIOUS
  <2>1. proc'[p] = r
    BY <1>0, <1>11, <2>0 DEF ProgressWrite, Proc
  <2>2. r.pc = "handler" /\ r.doc = proc[p].doc /\ r.opts = proc[p].opts /\ r.stage = proc[p].stage
    BY <1>0, <2>0 DEF Proc
  <2>3. /\ proc[p].pc = "progress" /\ run' = proc[p].next /\ lease' = lease
        /\ consent' = consent /\ spent' = spent /\ (Gated => Gated')
    BY <1>11 DEF ProgressWrite, At, meta, facts, Gated
  <2>4. Same(proc[p].next, run) /\ Same(proc[p].doc, run)
    BY <2>3 DEF SoloInv, Solo, Stands, Synced
  <2>5. Sound(p, run, r, r.pc)'
    BY <1>0, <2>2, <2>3, <2>4 DEF Sound, Settled, Fits, Passed, Tagged, Same, Walking, Engaged, Owning, Inside
  <2>6. Stands(p, r)'
    BY <2>2, <2>3, <2>4 DEF Stands, Same
  <2>7. Allowed(p, r)'
    BY <1>0, <2>2, <2>3 DEF Allowed, Engaged, Owning, Inside
  <2> QED
    BY <2>1, <2>5, <2>6, <2>7 DEF Solo
<1>12. CASE \E state \in {"skipped", "held"} : HandlerSkip(p, state)
  <2>1. PICK state \in {"skipped", "held"} : HandlerSkip(p, state)
    BY <1>12
  <2>2. /\ proc[p].pc = "handler" /\ run' = run /\ lease' = lease
        /\ consent' = consent /\ spent' = spent /\ (Gated => Gated')
    BY <2>1, QuietGate DEF HandlerSkip, At
  <2>3. /\ Marked(run, proc[p].stage, state) \in Doc
        /\ Sound(p, Marked(run, proc[p].stage, state), proc[p], "walk")
        /\ Starts(Marked(run, proc[p].stage, state), "walk")
    BY <1>0, <2>2, MarkedSound
  <2>4. Transition(p, proc[p], Marked(run, proc[p].stage, state), "walk")
    BY <2>1 DEF HandlerSkip
  <2> QED
    BY <1>0, <1>e, <1>w, <2>2, <2>3, <2>4, TransitionSolo
<1>13. CASE HandlerFail(p)
  <2>1. /\ proc[p].pc \in {"applicable", "handler"} /\ run' = run /\ lease' = lease
        /\ consent' = consent /\ spent' = spent /\ ranked' = ranked /\ qgRound' = qgRound
    BY <1>13 DEF HandlerFail, At, meta, facts
  <2>2. Gated => Gated'
    BY <1>t, <1>13, <2>1, BoundedGate DEF HandlerFail, Events
  <2>3. PICK c \in BOOLEAN : Transition(p, proc[p], FailTo(run, proc[p].stage, c), "leave")
    BY <1>13 DEF HandlerFail
  <2>4. /\ FailTo(run, proc[p].stage, c) \in Doc
        /\ Sound(p, FailTo(run, proc[p].stage, c), proc[p], "leave")
        /\ Starts(FailTo(run, proc[p].stage, c), "leave")
    BY <2>1, FailSound
  <2> QED
    BY <1>0, <1>e, <1>w, <2>1, <2>2, <2>3, <2>4, TransitionSolo
<1>14. CASE HandlerDisowned(p)
  BY <1>0, <1>14 DEF HandlerDisowned, At, Allowed, Owning, Inside
<1>15. CASE GateRound(p)
  <2>1. /\ proc[p].pc = "gate" /\ run' = run /\ lease' = lease
        /\ consent' = consent /\ spent' = spent /\ ranked' = ranked /\ used' = used
    BY <1>15 DEF GateRound, At, facts
  <2>2. CASE GateOpens(p)
    <3>1. Goto(p, "regen") /\ qgRound < MaxQualityRounds
      BY <1>15, <2>2 DEF GateRound, GateOpens
    <3>2. Gated => Gated'
      BY <1>t, <2>1, <3>1, ConstantsAssumption DEF Gated, TypeOK
    <3>3. Sound(p, run, proc[p], "regen")
      BY <1>0, <2>1 DEF Sound, Fits, Passed, Tagged, Walking, Engaged, Owning, Inside
    <3> QED
      BY <1>w, <2>1, <3>1, <3>2, <3>3, GotoSolo
  <2>3. CASE ~GateOpens(p)
    <3>1. Goto(p, "walk") /\ qgRound' = qgRound
      BY <1>15, <2>3 DEF GateRound
    <3>2. Gated /\ Gated'
      BY <1>e, <1>t, <2>1, <2>3, <3>1, ConstantsAssumption DEF Gated, GateOpens, TypeOK, Has
    <3>3. Sound(p, run, proc[p], "walk")
      BY <1>0, <2>1, <3>2 DEF Sound, Fits, Passed, Tagged, Walking, Engaged, Owning, Inside
    <3> QED
      BY <1>w, <2>1, <3>1, <3>2, <3>3, GotoSolo
  <2> QED
    BY <2>2, <2>3
<1>16. CASE GateReopen(p)
  <2> DEFINE n == Reopened(run, GateLeg, StageStates)
  <2>1. /\ proc[p].pc = "regen" /\ run' = run /\ lease' = lease
        /\ consent' = consent /\ spent' = spent /\ (Gated => Gated')
    BY <1>16, QuietGate DEF GateReopen, At
  <2>2. n \in Doc /\ Transition(p, proc[p], n, "walk")
    BY <1>0, <1>16, ReopenedDoc DEF GateReopen
  <2>3. /\ n.status = run.status /\ n.att = run.att /\ n.flags = run.flags
        /\ n.st[RankStage] = "pending"
    <3>1. run.st[RankStage] \in StageStates /\ RankStage \in GateLeg
      BY <1>0, PlanAssumption DEF Doc
    <3> QED
      BY <1>0, <3>1, ReopenedFields
  <2> HIDE DEF n
  <2>4. Sound(p, n, proc[p], "walk")
    BY <1>0, <2>1, <2>3 DEF Sound, Settled, Fits, Passed, Tagged, Walking, Engaged, Owning, Inside
  <2>5. Starts(n, "walk")
    BY <1>0, <2>3, StartsNothing
  <2> QED
    BY <1>0, <1>e, <1>w, <2>1, <2>2, <2>4, <2>5, TransitionSolo
<1> QED
  BY <1>1, <1>2, <1>3, <1>4, <1>5, <1>6, <1>7, <1>8, <1>9, <1>10, <1>11, <1>12, <1>13, <1>14, <1>15, <1>16 DEF Walk

\* The steps at the end of a pass preserve the invariant.
LEMMA FinishSolo ==
    ASSUME NEW p \in Procs, SoloInv(p), Finish(p)
    PROVE  Solo(p)'
<1>0. /\ proc \in [Procs -> Proc] /\ proc[p] \in Proc /\ run \in Doc
      /\ proc[p].doc \in Doc /\ proc[p].next \in Doc
      /\ proc[p].stage \in Stages /\ proc[p].leg \subseteq Stages
      /\ proc[p].opts \subseteq {"limited", "proposal", "wasCompleted", "exhausted", "disowned"}
      /\ Sound(p, run, proc[p], proc[p].pc) /\ Allowed(p, proc[p])
      /\ proc[p].pc \in Synced => Same(proc[p].doc, run)
      /\ RankStage \in Stages
  BY SoloFacts
<1>e. "exhausted" \in proc[p].opts => spent = "yes"
  BY <1>0 DEF Allowed
<1>w. /\ {"settle", "iterate", "round", "complete"} \subseteq Synced \ {"acquire", "progress"}
      /\ {"settle", "iterate", "round", "complete"} \subseteq Inside \ {"dispatch", "dispatched"}
      /\ {"settle", "iterate", "round", "complete"} \subseteq Engaged
      /\ {"feedback", "leave"} \subseteq Conts
  BY DEF Synced, Inside, Conts, Engaged, Owning
<1>1. CASE Park(p)
  <2> DEFINE n == [run EXCEPT !.status = "paused", !.flags = @ \ {"parking"}]
  <2>1. /\ proc[p].pc = "settle" /\ run' = run /\ lease' = lease
        /\ consent' = consent /\ spent' = spent /\ (Gated => Gated')
    BY <1>1, QuietGate DEF Park, At
  <2>2. n \in Doc /\ n.status = "paused" /\ n.att = run.att /\ n.st = run.st
    BY <1>0 DEF Doc, Statuses
  <2>3. Transition(p, proc[p], n, "leave")
    BY <1>1 DEF Park
  <2> HIDE DEF n
  <2>4. Sound(p, n, proc[p], "leave")
    BY <1>0, <2>1, <2>2 DEF Sound, Settled, Fits, Passed, Tagged, Walking, Engaged, Owning, Inside
  <2>5. Starts(n, "leave")
    BY <1>0, <2>2, StartsNothing
  <2> QED
    BY <1>0, <1>e, <1>w, <2>1, <2>2, <2>3, <2>4, <2>5, TransitionSolo
<1>2. CASE PassEnd(p)
  <2>1. /\ proc[p].pc = "settle" /\ run' = run /\ lease' = lease
        /\ consent' = consent /\ spent' = spent /\ (Gated => Gated')
    BY <1>2, QuietGate DEF PassEnd, At
  <2>2. CASE Unfinished(p) = {}
    <3>1. Goto(p, "iterate")
      BY <1>2, <2>2 DEF PassEnd
    <3>2. \A s \in Stages : proc[p].doc.st[s] \in Terminal
      BY <2>2 DEF Unfinished, Stages
    <3>3. \A s \in Stages : run.st[s] \in Terminal
      BY <1>0, <1>w, <2>1, <3>2 DEF Same
    <3>4. Sound(p, run, proc[p], "iterate")
      BY <1>0, <1>w, <2>1, <3>3 DEF Sound, Fits, Passed, Tagged, Walking
    <3> QED
      BY <1>w, <2>1, <3>1, <3>4, GotoSolo
  <2>3. CASE Unfinished(p) # {}
    <3>1. Goto(p, "leave")
      BY <1>2, <2>3 DEF PassEnd
    <3>2. Sound(p, run, proc[p], "leave")
      BY <1>0, <1>w, <2>1 DEF Sound, Fits, Passed, Tagged, Walking
    <3> QED
      BY <1>w, <2>1, <3>1, <3>2, GotoSolo
  <2> QED
    BY <2>2, <2>3
<1>3. CASE IterateContinue(p)
  <2>1. /\ proc[p].pc = "iterate" /\ run' = run /\ lease' = lease
        /\ consent' = consent /\ spent' = spent /\ (Gated => Gated')
    BY <1>3 DEF IterateContinue, At, facts, Gated
  <2>2. PICK leg \in SUBSET Stages : proc' = [proc EXCEPT ![p].pc = "round", ![p].leg = leg]
    BY <1>3, ConstantsAssumption DEF IterateContinue
  <2> DEFINE r == [proc[p] EXCEPT !.pc = "round", !.leg = leg]
  <2>3. /\ r \in Proc /\ r.pc = "round" /\ r.doc = proc[p].doc /\ r.opts = proc[p].opts
        /\ r.stage = proc[p].stage
    BY <1>0, PcValues DEF Proc
  <2>4. proc' = [proc EXCEPT ![p] = r]
    BY <1>0, <2>2 DEF Proc
  <2> HIDE DEF r
  <2>5. Sound(p, run, r, r.pc)
    BY <1>0, <1>w, <2>1, <2>3 DEF Sound, Fits, Passed, Tagged, Walking
  <2> QED
    BY <1>e, <1>w, <2>1, <2>3, <2>4, <2>5, MoveSolo
<1>4. CASE IterateStop(p)
  <2>1. /\ proc[p].pc = "iterate" /\ Goto(p, "complete") /\ run' = run /\ lease' = lease
        /\ consent' = consent /\ spent' = spent /\ (Gated => Gated')
    BY <1>4, QuietGate DEF IterateStop, At
  <2>2. Sound(p, run, proc[p], "complete")
    BY <1>0, <1>w, <2>1 DEF Sound, Fits, Passed, Tagged, Walking
  <2> QED
    BY <1>w, <2>1, <2>2, GotoSolo
<1>5. CASE IterateReopen(p)
  <2> DEFINE n == Reopened(run, proc[p].leg, StageStates)
             me == [proc[p] EXCEPT !.leg = {}]
  <2>1. /\ proc[p].pc = "round" /\ run' = run /\ lease' = lease
        /\ consent' = consent /\ spent' = spent /\ (Gated => Gated')
    BY <1>5, QuietGate DEF IterateReopen, At
  <2>2. n \in Doc /\ Transition(p, me, n, "feedback")
    BY <1>0, <1>5, ReopenedDoc DEF IterateReopen
  <2>3. /\ n.status = run.status /\ n.att = run.att /\ n.flags = run.flags
        /\ n.st[RankStage] \in {"pending", run.st[RankStage]}
    BY <1>0, ReopenedFields
  <2>4. me \in Proc /\ me.opts = proc[p].opts
    BY <1>0 DEF Proc
  <2> HIDE DEF n, me
  <2>5. Sound(p, n, me, "feedback")
    BY <1>0, <1>w, <2>1, <2>3 DEF Sound, Settled, Fits, Passed, Tagged, Walking
  <2>6. Starts(n, "feedback")
    BY <1>0, <2>3, StartsNothing
  <2> QED
    BY <1>e, <1>w, <2>1, <2>2, <2>4, <2>5, <2>6, TransitionSolo
<1>6. CASE Complete(p)
  <2> DEFINE n == [run EXCEPT !.status = "completed"]
  <2>1. /\ proc[p].pc = "complete" /\ run' = run /\ lease' = lease
        /\ consent' = consent /\ spent' = spent /\ (Gated => Gated')
    BY <1>6, QuietGate DEF Complete, At
  <2>2. n \in Doc /\ Transition(p, proc[p], n, "leave")
    BY <1>0, <1>6, StatusDoc DEF Complete, Statuses
  <2>3. n.status = "completed" /\ n.att = run.att /\ n.st = run.st /\ n.flags = run.flags
    BY <1>0, StatusFields
  <2> HIDE DEF n
  <2>4. Sound(p, n, proc[p], "leave")
    BY <1>0, <1>w, <2>1, <2>3 DEF Sound, Settled, Fits, Passed, Tagged, Walking
  <2>5. Starts(n, "leave")
    BY <1>0, <2>3, StartsNothing
  <2> QED
    BY <1>0, <1>e, <1>w, <2>1, <2>2, <2>4, <2>5, TransitionSolo
<1>7. CASE Leave(p)
  <2>0. PICK r : r = Left(p)
    OBVIOUS
  <2>1. proc'[p] = r
    BY <1>0, <1>7, <2>0 DEF Leave
  <2>2. r.pc \in {"propose", "idle"} /\ "exhausted" \notin r.opts
    BY <2>0 DEF Left, Idle
  <2>3. /\ proc[p].pc = "leave" /\ run' = run /\ consent' = consent /\ (Gated => Gated')
    BY <1>7 DEF Leave, At, meta, facts, Gated
  <2>4. Sound(p, run, r, r.pc)'
    BY <1>0, <2>2, <2>3 DEF Sound, Settled, Fits, Passed, Tagged, Walking, Engaged, Owning, Inside
  <2>5. Stands(p, r)'
    BY <2>2 DEF Stands, Synced, Inside
  <2>6. Allowed(p, r)'
    BY <2>2 DEF Allowed, Engaged, Owning, Inside
  <2> QED
    BY <2>1, <2>4, <2>5, <2>6 DEF Solo
<1>8. CASE Propose(p)
  <2>1. /\ proc[p].pc = "propose" /\ run' = run /\ consent' = consent /\ spent' = spent
        /\ (Gated => Gated')
    BY <1>8, QuietGate DEF Propose, At
  <2>2. PICK n : n = [run EXCEPT !.status = "paused"]
    OBVIOUS
  <2>3. n.status = "paused" /\ n.att = run.att /\ n.st = run.st /\ n.flags = run.flags
    BY <1>0, <2>2, StatusFields
  <2>4. PICK r : /\ r = [proc[p] EXCEPT !.pc = "put", !.next = n] \/ r = Idle
                 /\ proc'[p] = r
    BY <1>0, <1>8, <2>2 DEF Propose
  <2>5. /\ ("exhausted" \in r.opts => spent = "yes" /\ r.pc # "idle") /\ r.cont = "idle"
        /\ \/ r.pc = "put" /\ r.next = n
           \/ r.pc = "idle"
    <3>1. CASE r = Idle
      BY <3>1 DEF Idle
    <3>2. CASE r = [proc[p] EXCEPT !.pc = "put", !.next = n]
      <4>1. /\ proc[p] \in Proc /\ proc[p].cont = "idle"
            /\ "exhausted" \in proc[p].opts => spent = "yes"
        BY <1>0, <2>1 DEF SoloInv, ControlInv, Control, Allowed
      <4>2. /\ r.pc = "put" /\ r.next = n /\ r.opts = proc[p].opts /\ r.cont = proc[p].cont
        BY <3>2, <4>1 DEF Proc
      <4> QED
        BY <4>1, <4>2
    <3> QED
      BY <2>4, <3>1, <3>2
  <2>6. Sound(p, run, r, r.pc)'
    BY <1>0, <2>1, <2>5 DEF Sound, Settled, Fits, Passed, Tagged, Walking, Engaged, Owning, Inside
  <2>7. Stands(p, r)'
    <3>1. Sound(p, n, r, "idle")'
      BY <1>0, <2>1, <2>3 DEF Sound, Settled, Fits, Passed, Tagged, Walking, Engaged, Owning, Inside
    <3> QED
      BY <2>1, <2>3, <2>5, <3>1 DEF Stands, Synced, Inside
  <2>8. Allowed(p, r)'
    BY <2>1, <2>5 DEF Allowed, Engaged, Owning, Inside
  <2> QED
    BY <2>4, <2>6, <2>7, <2>8 DEF Solo
<1> QED
  BY <1>1, <1>2, <1>3, <1>4, <1>5, <1>6, <1>7, <1>8 DEF Finish

\* The launches preserve the invariant: a draft is tagged before it starts, and
\* the watchdog launches nothing that is not consented to.
LEMMA LaunchSolo ==
    ASSUME NEW p \in Procs, SoloInv(p),
           \/ UserResume(p) \/ UserLimited(p) \/ Watchdog(p)
           \/ \E leg \in {EvidenceLeg, FeedbackLeg, ExperimentLeg} : Dispatch(p, leg)
    PROVE  Solo(p)'
<1>0. /\ proc \in [Procs -> Proc] /\ proc[p] \in Proc /\ run \in Doc
      /\ Sound(p, run, proc[p], proc[p].pc) /\ Allowed(p, proc[p]) /\ RankStage \in Stages
  BY SoloFacts
<1>t. TypeOK
  BY DEF SoloInv, ControlInv
<1>1. CASE UserResume(p) \/ Watchdog(p)
  <2>0. PICK r : r = [Idle EXCEPT !.pc = "open"]
    OBVIOUS
  <2>1. proc'[p] = r
    BY <1>0, <1>1, <2>0 DEF UserResume, Watchdog, Launch
  <2>2. r.pc = "open" /\ r.opts = {}
    BY <2>0 DEF Idle
  <2>3. /\ proc[p].pc = "idle" /\ run' = run /\ spent' = spent /\ ranked' = ranked /\ qgRound' = qgRound
    BY <1>1 DEF UserResume, Watchdog, At, meta, facts
  <2>4. consent' = "yes"
    <3>1. CASE UserResume(p)
      BY <3>1 DEF UserResume
    <3>2. CASE Watchdog(p)
      <4>1. p \in Servers /\ run.status = "running" /\ "parking" \notin run.flags /\ consent' = consent
        BY <3>2 DEF Watchdog, Adoptable
      <4>2. consent # "no"
        BY <1>0, <4>1 DEF Sound, Tagged
      <4>3. consent \in {"yes", "no"}
        BY <1>t DEF TypeOK
      <4> QED
        BY <4>1, <4>2, <4>3
    <3> QED
      BY <1>1, <3>1, <3>2
  <2>5. Gated => Gated'
    <3>1. CASE UserResume(p)
      BY <1>t, <2>3, <3>1, BoundedGate DEF UserResume, Events
    <3>2. CASE Watchdog(p)
      BY <2>3, <3>2 DEF Watchdog, Gated
    <3> QED
      BY <1>1, <3>1, <3>2
  <2>6. Sound(p, run, r, r.pc)'
    BY <1>0, <2>2, <2>3, <2>4, <2>5 DEF Sound, Settled, Fits, Passed, Tagged, Walking
  <2>7. Stands(p, r)'
    BY <2>2 DEF Stands, Synced, Inside
  <2>8. Allowed(p, r)'
    BY <1>0, <2>2, <2>3, <2>4 DEF Allowed, Owning, Inside
  <2> QED
    BY <2>1, <2>6, <2>7, <2>8 DEF Solo
<1>2. CASE UserLimited(p)
  <2>1. /\ proc[p].pc = "idle" /\ run' = run /\ spent' = spent /\ ranked' = ranked
        /\ qgRound' = qgRound /\ consent' = "no"
        /\ p \in Servers => run.status \in {"created", "paused"}
    BY <1>2 DEF UserLimited, At, meta, facts
  <2>2. Gated => Gated'
    BY <1>t, <1>2, <2>1, BoundedGate DEF UserLimited, Events
  <2>3. PICK opts : /\ opts = {"limited"} \cup IF p \in Servers THEN {"proposal"} ELSE {}
                    /\ \/ /\ "parking" \in run.flags
                          /\ proc' = [proc EXCEPT ![p] = [Idle EXCEPT !.pc = "open", !.opts = opts]]
                       \/ proc' = [proc EXCEPT ![p] =
                                     [Idle EXCEPT !.pc = "put", !.cont = "open", !.opts = opts,
                                                  !.next = [run EXCEPT !.flags = @ \cup {"parking"}]]]
    BY <1>2 DEF UserLimited, Launch
  <2>4. "limited" \in opts /\ "exhausted" \notin opts
    BY <2>3
  <2>5. CASE /\ "parking" \in run.flags
             /\ proc' = [proc EXCEPT ![p] = [Idle EXCEPT !.pc = "open", !.opts = opts]]
    <3>0. PICK r : r = [Idle EXCEPT !.pc = "open", !.opts = opts]
      OBVIOUS
    <3>1. proc'[p] = r
      BY <1>0, <2>5, <3>0
    <3>2. r.pc = "open" /\ r.opts = opts
      BY <3>0 DEF Idle
    <3>3. Sound(p, run, r, r.pc)'
      BY <1>0, <2>1, <2>2, <2>5, <3>2 DEF Sound, Settled, Fits, Passed, Tagged, Walking
    <3>4. Stands(p, r)'
      BY <3>2 DEF Stands, Synced, Inside
    <3>5. Allowed(p, r)'
      BY <2>4, <3>2 DEF Allowed, Owning, Inside
    <3> QED
      BY <3>1, <3>3, <3>4, <3>5 DEF Solo
  <2>6. CASE proc' = [proc EXCEPT ![p] =
                        [Idle EXCEPT !.pc = "put", !.cont = "open", !.opts = opts,
                                     !.next = [run EXCEPT !.flags = @ \cup {"parking"}]]]
    <3>0. PICK n : n = [run EXCEPT !.flags = @ \cup {"parking"}]
      OBVIOUS
    <3>1. n.status = run.status /\ n.att = run.att /\ n.st = run.st /\ "parking" \in n.flags
      BY <1>0, <3>0 DEF Doc
    <3>2. PICK r : r = [Idle EXCEPT !.pc = "put", !.cont = "open", !.opts = opts, !.next = n]
      OBVIOUS
    <3>3. proc'[p] = r
      BY <1>0, <2>6, <3>0, <3>2
    <3>4. r.pc = "put" /\ r.opts = opts /\ r.cont = "open" /\ r.next = n
      BY <3>2 DEF Idle
    <3>5. Sound(p, run, r, r.pc)'
      BY <1>0, <2>1, <2>2, <3>4 DEF Sound, Settled, Fits, Passed, Tagged, Walking, Engaged, Owning, Inside
    <3>6. Sound(p, n, r, "open")'
      BY <1>0, <2>1, <2>2, <3>1 DEF Sound, Settled, Fits, Passed, Tagged, Walking
    <3>7. Stands(p, r)'
      BY <2>1, <3>1, <3>4, <3>6 DEF Stands, Synced, Inside
    <3>8. Allowed(p, r)'
      BY <2>4, <3>4 DEF Allowed, Owning, Inside
    <3> QED
      BY <3>3, <3>5, <3>7, <3>8 DEF Solo
  <2> QED
    BY <2>3, <2>5, <2>6
<1>3. CASE \E leg \in {EvidenceLeg, FeedbackLeg, ExperimentLeg} : Dispatch(p, leg)
  <2>1. PICK leg \in {EvidenceLeg, FeedbackLeg, ExperimentLeg} : Dispatch(p, leg)
    BY <1>3
  <2>2. PICK r : r = [Idle EXCEPT !.pc = "dispatch", !.leg = leg]
    OBVIOUS
  <2>3. proc'[p] = r
    BY <1>0, <2>1, <2>2 DEF Dispatch, Launch
  <2>4. r.pc = "dispatch" /\ r.opts = {}
    BY <2>2 DEF Idle
  <2>5. /\ proc[p].pc = "idle" /\ run' = run /\ spent' = spent /\ ranked' = ranked
        /\ qgRound' = qgRound /\ consent' = "yes" /\ lease'.holder = p
    BY <2>1 DEF Dispatch, At, meta, facts
  <2>6. Gated => Gated'
    BY <1>t, <2>1, <2>5, BoundedGate DEF Dispatch, Events
  <2>7. Sound(p, run, r, r.pc)'
    BY <1>0, <2>4, <2>5, <2>6 DEF Sound, Settled, Fits, Passed, Tagged, Walking
  <2>8. Stands(p, r)'
    BY <2>4 DEF Stands, Synced, Inside
  <2>9. Allowed(p, r)'
    BY <1>0, <2>4, <2>5 DEF Allowed
  <2> QED
    BY <2>3, <2>7, <2>8, <2>9 DEF Solo
<1> QED
  BY <1>1, <1>2, <1>3

\* A crash preserves the invariant: whatever the process knew is gone, and the
\* document it leaves is one that a new execution may find.
LEMMA CrashSolo ==
    ASSUME NEW p \in Procs, SoloInv(p), Crash(p)
    PROVE  Solo(p)'
<1>0. proc \in [Procs -> Proc] /\ Sound(p, run, proc[p], proc[p].pc)
  BY SoloFacts
<1>1. PICK r : r = Idle
  OBVIOUS
<1>2. proc'[p] = r /\ run' = run /\ consent' = consent
  BY <1>0, <1>1 DEF Crash
<1>3. r.pc = "idle" /\ r.opts = {}
  BY <1>1 DEF Idle
<1>4. Gated'
  <2>1. "crash" \in Events /\ "any" \in Events /\ used \in [Events -> Nat]
    BY DEF SoloInv, ControlInv, TypeOK, Events
  <2> HIDE DEF Events
  <2>2. used'["crash"] > 0
    BY <2>1 DEF Crash, Bounded
  <2> QED
    BY <2>2 DEF Gated
<1>5. Sound(p, run, r, r.pc)'
  BY <1>0, <1>2, <1>3, <1>4 DEF Sound, Settled, Fits, Passed, Tagged, Walking, Engaged, Owning, Inside
<1>6. Stands(p, r)'
  BY <1>3 DEF Stands, Synced, Inside
<1>7. Allowed(p, r)'
  BY <1>3 DEF Allowed, Engaged, Owning, Inside
<1> QED
  BY <1>2, <1>5, <1>6, <1>7 DEF Solo

\* Everybody else preserves the invariant: a cancel request touches nothing
\* that it says of the document, and the budget is raised between executions.
LEMMA EnvironmentSolo ==
    ASSUME NEW p \in Procs, SoloInv(p),
           RequestCancel \/ InjectFeedback \/ SeedEvidence \/ RaiseBudget \/ LeaseExpires \/ Stall
    PROVE  Solo(p)'
<1>0. /\ proc \in [Procs -> Proc] /\ proc[p] \in Proc /\ run \in Doc
      /\ Sound(p, run, proc[p], proc[p].pc) /\ Allowed(p, proc[p]) /\ Stands(p, proc[p])
  BY SoloFacts DEF SoloInv, Solo
<1>t. TypeOK
  BY DEF SoloInv, ControlInv
<1>1. PICK r : r = proc[p]
  OBVIOUS
<1>2. /\ proc'[p] = r /\ consent' = consent /\ lease'.holder = lease.holder
      /\ ranked' = ranked /\ qgRound' = qgRound
  BY <1>0, <1>t, <1>1 DEF RequestCancel, InjectFeedback, SeedEvidence, RaiseBudget, LeaseExpires, Stall,
                    meta, facts, TypeOK
<1>3. Same(run, run')
  BY <1>0 DEF RequestCancel, InjectFeedback, SeedEvidence, RaiseBudget, LeaseExpires, Stall, Doc, Same
<1>4. spent' = spent \/ (r.pc = "idle" /\ used'["raise"] > 0)
  <2>1. CASE RaiseBudget
    <3>1. "raise" \in Events /\ "any" \in Events /\ used \in [Events -> Nat]
      BY <1>t DEF TypeOK, Events
    <3> HIDE DEF Events
    <3> QED
      BY <1>1, <2>1, <3>1 DEF RaiseBudget, Bounded, At
  <2> QED
    BY <2>1 DEF RequestCancel, InjectFeedback, SeedEvidence, LeaseExpires, Stall, facts
<1>5. Gated => Gated'
  <2>1. CASE RaiseBudget
    BY <1>2, <1>4, <2>1 DEF Gated, RaiseBudget
  <2>2. CASE RequestCancel \/ InjectFeedback \/ SeedEvidence \/ Stall
    <3>1. spent' = spent
      BY <2>2 DEF RequestCancel, InjectFeedback, SeedEvidence, Stall, facts
    <3> QED
      BY <1>t, <1>2, <2>2, <3>1, BoundedGate DEF RequestCancel, InjectFeedback, SeedEvidence, Stall, Events
  <2>3. CASE LeaseExpires
    BY <2>3 DEF LeaseExpires, Gated, meta, facts
  <2> QED
    BY <2>1, <2>2, <2>3
<1>6. Sound(p, run, r, r.pc)'
  BY <1>0, <1>1, <1>2, <1>3, <1>5 DEF Sound, Settled, Fits, Passed, Tagged, Same
<1>7. Stands(p, r)'
  <2>1. r.pc \in {"write", "put"} => Sound(p, r.next, r, r.cont)'
    BY <1>0, <1>1, <1>2, <1>5 DEF Stands, Sound, Settled, Fits, Passed, Tagged
  <2>2. r.pc = "write" => Starts(r.next, r.cont)'
    BY <1>0, <1>1, <1>2, <1>3 DEF Stands, Starts, Same
  <2> QED
    BY <1>0, <1>1, <1>3, <2>1, <2>2 DEF Stands, Same
<1>8. Allowed(p, r)'
  BY <1>0, <1>1, <1>2, <1>4 DEF Allowed
<1> QED
  BY <1>2, <1>6, <1>7, <1>8 DEF Solo

\* With one process the invariant is inductive.
LEMMA SoloStep ==
    ASSUME NEW p, Procs = {p}, SoloInv(p), [Next]_vars
    PROVE  SoloInv(p)'
<1>0. p \in Procs
  OBVIOUS
<1>1. ControlInv'
  BY ControlStep DEF SoloInv
<1>2. Solo(p)'
  <2>1. CASE Execute(p)
    BY <1>0, <2>1, PreludeSolo, WalkSolo, FinishSolo DEF Execute
  <2>2. CASE \/ UserResume(p) \/ UserLimited(p) \/ Watchdog(p)
             \/ \E leg \in {EvidenceLeg, FeedbackLeg, ExperimentLeg} : Dispatch(p, leg)
    BY <1>0, <2>2, LaunchSolo
  <2>3. CASE Crash(p)
    BY <1>0, <2>3, CrashSolo
  <2>4. CASE RequestCancel \/ InjectFeedback \/ SeedEvidence \/ RaiseBudget \/ LeaseExpires \/ Stall
    BY <1>0, <2>4, EnvironmentSolo
  <2>5. CASE UNCHANGED vars
    BY <2>5 DEF vars, SoloInv, Solo, Sound, Settled, Fits, Passed, Tagged, Gated, Stands, Same, Starts, Allowed
  <2> QED
    BY <2>1, <2>2, <2>3, <2>4, <2>5 DEF Next
<1> QED
  BY <1>1, <1>2 DEF SoloInv

\* The invariant holds at the start.
LEMMA SoloInit ==
    ASSUME NEW p, Procs = {p}, Init
    PROVE  Solo(p)
<1>1. /\ proc[p] = Idle /\ run = NewRun /\ RankStage \in Stages
  BY ConstantsAssumption DEF Init
<1>2. proc[p].pc = "idle" /\ proc[p].opts = {}
  BY <1>1 DEF Idle
<1>3. run.status = "created" /\ run.st[RankStage] = "pending"
  BY <1>1 DEF NewRun
<1>4. Sound(p, run, proc[p], proc[p].pc)
  BY <1>2, <1>3 DEF Sound, Settled, Fits, Passed, Tagged, Walking, Engaged, Owning, Inside
<1>5. Stands(p, proc[p])
  BY <1>2 DEF Stands, Synced, Inside
<1>6. Allowed(p, proc[p])
  BY <1>2 DEF Allowed, Engaged, Owning, Inside
<1> QED
  BY <1>4, <1>5, <1>6 DEF Solo

\* The invariant holds in every reachable state of a run with one process.
LEMMA SoloCorrect ==
    ASSUME NEW p, Procs = {p}
    PROVE  Spec => []SoloInv(p)
<1>1. Init => ControlInv
  <2> SUFFICES ASSUME Init PROVE ControlInv
    OBVIOUS
  <2>1. TypeOK
    BY TypeInit
  <2>2. \A q \in Procs : proc[q] = Idle
    BY DEF Init
  <2>3. \A q \in Procs : Control(q)
    BY <2>2 DEF Control, Idle, Inside, Owning
  <2> QED
    BY <2>1, <2>3 DEF ControlInv
<1>2. Init => SoloInv(p)
  BY <1>1, SoloInit DEF SoloInv
<1>3. SoloInv(p) /\ [Next]_vars => SoloInv(p)'
  BY SoloStep
<1> QED
  BY <1>2, <1>3, PTL DEF Spec

\* With one process, server or CLI, a completed run never holds a stage that
\* is running or has failed, whatever crashes, resumes, dispatches, rounds of
\* iteration and budget changes come in between: completion is written when
\* every stage is terminal, and every reopen that starts work moves the status
\* first.  (Two processes can break it: execute() reads the document before it
\* owns the lease.)
THEOREM CompletionCorrect ==
    ASSUME NEW p, Procs = {p}
    PROVE  Spec => []CompletedIsSettled
<1>1. SoloInv(p) => CompletedIsSettled
  BY DEF SoloInv, Solo, Sound, Settled, CompletedIsSettled
<1> QED
  BY <1>1, SoloCorrect, PTL

\* With one process, a full execution inside a stage handler carries no parking
\* tag, so that the watchdog can adopt it should the process die there.
THEOREM AdoptionCorrect ==
    ASSUME NEW p, Procs = {p}
    PROVE  Spec => []FullExecutionIsAdoptable
<1>1. SoloInv(p) => FullExecutionIsAdoptable
  BY DEF SoloInv, Solo, Sound, Fits, Walking, FullExecutionIsAdoptable, At, Has
<1> QED
  BY <1>1, SoloCorrect, PTL

\* Only four kinds of step store the document.
LEMMA WhoStores ==
    ASSUME NEW p, Procs = {p}, TypeOK, [Next]_vars, run' # run
    PROVE  Write(p) \/ Put(p) \/ ProgressWrite(p) \/ RequestCancel
<1>1. CASE Prelude(p)
  BY <1>1 DEF Prelude, ExecRead, ExecAcquire, DispatchReopen, DispatchLaunch, FeedbackReopen,
              FeedbackEpoch, DebtReopen, HeldReopen, ParkingClear, StatusRunning
<1>2. CASE Walk(p)
  BY <1>2 DEF Walk, WalkEnd, WalkBudgetSkip, WalkStart, NotApplicable, HandlerCancelled, HandlerEnter,
              HandlerSpend, HandlerReceipt, HandlerDone, HandlerProgress, HandlerSkip, HandlerFail,
              HandlerDisowned, GateRound, GateReopen
<1>3. CASE Finish(p)
  BY <1>3 DEF Finish, Park, PassEnd, IterateContinue, IterateStop, IterateReopen, Complete, Leave, Propose
<1>4. CASE \/ UserResume(p) \/ UserLimited(p) \/ Watchdog(p) \/ Crash(p)
           \/ \E leg \in {EvidenceLeg, FeedbackLeg, ExperimentLeg} : Dispatch(p, leg)
  BY <1>4 DEF UserResume, UserLimited, Watchdog, Crash, Dispatch
<1>5. CASE RequestCancel \/ InjectFeedback \/ SeedEvidence \/ RaiseBudget \/ LeaseExpires \/ Stall
  BY <1>5 DEF InjectFeedback, SeedEvidence, RaiseBudget, LeaseExpires, Stall
<1>6. CASE UNCHANGED vars
  BY <1>6 DEF vars
<1> QED
  BY <1>1, <1>2, <1>3, <1>4, <1>5, <1>6 DEF Next, Execute

\* A stage starts only when a pending transition is written, and then on a
\* ranked set that has passed the gate and within what the user asked for.
LEMMA StartsAllowed ==
    ASSUME NEW p, Procs = {p}, SoloInv(p), [Next]_vars, NEW s \in Stages, run'.att[s] > run.att[s]
    PROVE  /\ consent = "yes" \/ Index(s) < Index(StopStage)
           /\ run'.st[RankStage] = "done" => Gated
<1>0. TypeOK /\ run \in Doc /\ p \in Procs
  BY SoloFacts DEF SoloInv, ControlInv
<1>1. run.att[s] \in Nat
  BY <1>0 DEF Doc
<1>2. run' # run
  BY <1>1
<1>3. CASE Write(p)
  <2>1. proc[p].pc = "write" /\ run' = proc[p].next
    BY <1>3 DEF Write, At
  <2>2. Starts(proc[p].next, proc[p].cont) /\ Sound(p, proc[p].next, proc[p], proc[p].cont)
    BY <2>1 DEF SoloInv, Solo, Stands
  <2> QED
    BY <2>1, <2>2 DEF Starts, Sound, Passed
<1>4. CASE Put(p)
  BY <1>1, <1>4 DEF Put, At, SoloInv, Solo, Stands
<1>5. CASE ProgressWrite(p)
  BY <1>1, <1>5 DEF ProgressWrite, At, SoloInv, Solo, Stands, Same
<1>6. CASE RequestCancel
  BY <1>0, <1>1, <1>6 DEF RequestCancel, Doc
<1> QED
  BY <1>0, <1>2, <1>3, <1>4, <1>5, <1>6, WhoStores

\* With one process, no stage from the stop stage on is started unless the
\* user last asked for a full execution: not by the draft itself, not by the
\* watchdog after a crash at any point of the draft, not by a later draft.
THEOREM DraftCorrect ==
    ASSUME NEW p, Procs = {p}
    PROVE  Spec => DraftStaysParked
<1>1. SoloInv(p) /\ [Next]_vars => [StopStageNeedsConsent]_vars
  <2> SUFFICES ASSUME SoloInv(p), [Next]_vars, NEW s \in Stages, Index(s) >= Index(StopStage),
                      run'.att[s] > run.att[s]
               PROVE  consent = "yes"
    BY DEF StopStageNeedsConsent
  <2>1. PICK i \in 1..Len(Plan), j \in 1..Len(Plan) : Plan[i] = s /\ Plan[j] = StopStage
    BY ConstantsAssumption DEF Stages
  <2>2. Index(s) \in Nat /\ Index(StopStage) \in Nat
    BY <2>1, IndexOf
  <2> QED
    BY <2>2, StartsAllowed
<1> QED
  BY <1>1, SoloCorrect, PTL DEF Spec, DraftStaysParked

\* With one process, no stage starts on a done rank whose set the quality gate
\* would still send back, except after a crash or a raise of the budget.
THEOREM GateCorrect ==
    ASSUME NEW p, Procs = {p}
    PROVE  Spec => RankedSetIsGated
<1>1. SoloInv(p) /\ [Next]_vars => [StartsGated]_vars
  BY StartsAllowed DEF StartsGated
<1> QED
  BY <1>1, SoloCorrect, PTL DEF Spec, RankedSetIsGated
=============================================================================
