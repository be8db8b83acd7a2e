----------------------- MODULE ExperimentExecProofs -----------------------
(***************************************************************************)
(* Proofs about the two-store execution, for every set of jobs, workers,   *)
(* enqueuers, specs and every bound.                                       *)
(*                                                                         *)
(* Every step of the composed system is a step of the job queue or leaves  *)
(* the jobs table and the claims alone, so the composed system implements  *)
(* the queue and inherits what JobQueueProofs shows of it.  On top of that *)
(* the hand-over between the stores is followed intent by intent, and the  *)
(* way back, from the projection in far.db to the settled job, experiment  *)
(* by experiment.                                                          *)
(***************************************************************************)
EXTENDS ExperimentExec, TLAPS

QP == INSTANCE JobQueueProofs

-----------------------------------------------------------------------------
(* Q and QP are the same queue: Q with its definitions, QP with its theorems *)

\* Both count finite sets alike.
LEMMA SameCount ==
    /\ \A S : Q!Cardinality(S) = QP!Cardinality(S)
    /\ \A S : IsFiniteSet(S) <=> QP!IsFiniteSet(S)
  BY DEF Q!Cardinality, QP!Cardinality, Q!IsFiniteSet, QP!IsFiniteSet, IsFiniteSet

\* Both have the same initial state and the same types.
LEMMA SameState ==
    /\ Q!Init <=> QP!Init
    /\ Q!TypeOK <=> QP!TypeOK
    /\ Q!vars = QP!vars
<1>1. Q!NoRow = QP!NoRow /\ Q!NoClaim = QP!NoClaim /\ Q!Row = QP!Row /\ Q!Claim = QP!Claim
  BY DEF Q!NoRow, QP!NoRow, Q!NoClaim, QP!NoClaim, Q!Row, QP!Row, Q!Claim, QP!Claim,
         Q!Statuses, QP!Statuses, Q!Terminal, QP!Terminal
<1> QED
  BY <1>1 DEF Q!Init, QP!Init, Q!TypeOK, QP!TypeOK, Q!vars, QP!vars

\* Both have the same steps.
LEMMA SameNext == Q!Next <=> QP!Next
<1>1. \A j \in Jobs, p \in Priorities, d \in Devices : Q!Enqueue(j, p, d) <=> QP!Enqueue(j, p, d)
  BY SameCount DEF Q!Enqueue, QP!Enqueue, Q!NoRow, QP!NoRow, Q!Rows, QP!Rows
<1>2. \A w \in Workers, j \in Jobs : Q!Picked(w, j) <=> QP!Picked(w, j)
  BY SameCount DEF Q!Picked, QP!Picked, Q!Live, QP!Live, Q!Claimable, QP!Claimable,
                   Q!Before, QP!Before, Q!Busy, QP!Busy, Q!NoClaim, QP!NoClaim
<1>3. \A w \in Workers, j \in Jobs : Q!ClaimNext(w, j) <=> QP!ClaimNext(w, j)
  BY <1>2, SMTT(20) DEF Q!ClaimNext, QP!ClaimNext
<1>4. \A w \in Workers, j \in Jobs : Q!DeadLetter(w, j) <=> QP!DeadLetter(w, j)
  BY <1>2 DEF Q!DeadLetter, QP!DeadLetter
<1>5. \A w \in Workers : (Q!Busy(w) <=> QP!Busy(w)) /\ (Q!Owns(w) <=> QP!Owns(w))
  BY DEF Q!Busy, QP!Busy, Q!NoClaim, QP!NoClaim, Q!Owns, QP!Owns
<1>6. \A w \in Workers : Q!Heartbeat(w) <=> QP!Heartbeat(w)
  BY <1>5 DEF Q!Heartbeat, QP!Heartbeat
<1>7. \A w \in Workers, ok \in BOOLEAN : Q!Complete(w, ok) <=> QP!Complete(w, ok)
  BY <1>5 DEF Q!Complete, QP!Complete, Q!NoClaim, QP!NoClaim, Q!Outcome, QP!Outcome
<1>8. \A j \in Jobs : Q!Cancel(j) <=> QP!Cancel(j)
  BY DEF Q!Cancel, QP!Cancel
<1>9. \A j \in Jobs : Q!RequeueDead(j) <=> QP!RequeueDead(j)
  BY DEF Q!RequeueDead, QP!RequeueDead
<1>10. \A j \in Jobs : Q!Expire(j) <=> QP!Expire(j)
  BY DEF Q!Expire, QP!Expire
<1>11. \A w \in Workers : Q!Crash(w) <=> QP!Crash(w)
  BY <1>5 DEF Q!Crash, QP!Crash, Q!NoClaim, QP!NoClaim
<1> QED
  BY <1>1, <1>3, <1>4, <1>6, <1>7, <1>8, <1>9, <1>10, <1>11 DEF Q!Next, QP!Next

\* The queue keeps its types.
LEMMA QueueType ==
    ASSUME Q!TypeOK, [Q!Next]_queueVars
    PROVE  Q!TypeOK'
<1>1. QP!TypeOK /\ [QP!Next]_QP!vars
  BY SameState, SameNext DEF QP!vars, queueVars
<1>2. QP!TypeOK'
  BY <1>1, QP!TypeStep, QueueAssumption, SameCount
<1>3. Q!TypeOK' <=> QP!TypeOK'
  <2>1. Q!NoRow = QP!NoRow /\ Q!NoClaim = QP!NoClaim /\ Q!Row = QP!Row /\ Q!Claim = QP!Claim
    BY DEF Q!NoRow, QP!NoRow, Q!NoClaim, QP!NoClaim, Q!Row, QP!Row, Q!Claim, QP!Claim,
           Q!Statuses, QP!Statuses, Q!Terminal, QP!Terminal
  <2> QED
    BY <2>1 DEF Q!TypeOK, QP!TypeOK
<1> QED
  BY <1>2, <1>3

-----------------------------------------------------------------------------
(* Control, types and the refinement *)

Executing == {"claimed", "projected", "training", "trained", "reported", "fed", "closing", "finish"}

\* What the places of the processes say about their memory: an enqueuer under
\* way knows its run, a worker that dead-letters holds the scheduler's lock, a
\* worker that executes believes it holds a job, and one that is about to
\* report an outcome has one.
Control ==
    /\ \A p \in Enqueuers : enq[p].pc # "idle" => enq[p].run \in Jobs /\ enq[p].spec \in Specs
    /\ \A w \in Workers :
         /\ wk[w].pc = "dead" => lock \in {w} \X Jobs
         /\ wk[w].pc \in Executing => held[w] \in Q!Claim
         /\ wk[w].pc \in {"closing", "finish"} => wk[w].copy \in RunStatuses

\* Every step of the composed system is a step of the queue, or leaves the
\* jobs table and the claims alone.
LEMMA QueueStep ==
    ASSUME TypeOK, Control, [Next]_vars
    PROVE  [Q!Next]_queueVars
<1> USE ExecAssumption
<1>1. ASSUME NEW p \in Enqueuers, NEW s \in Specs, NEW j \in Jobs, EnqRead(p, s, j) PROVE [Q!Next]_queueVars
  BY <1>1 DEF EnqRead, queueVars
<1>2. ASSUME NEW p \in Procs, NEW j \in Jobs, DrainEnqueue(p, j) PROVE [Q!Next]_queueVars
  BY <1>2 DEF DrainEnqueue, Q!Next
<1>3. ASSUME NEW p \in Procs, NEW j \in Jobs, DrainFail(p, j) PROVE [Q!Next]_queueVars
  BY <1>3 DEF DrainFail, queueVars
<1>4. ASSUME NEW p \in Procs, DrainMark(p) PROVE [Q!Next]_queueVars
  BY <1>4 DEF DrainMark, queueVars
<1>5. ASSUME NEW p \in Enqueuers, EnqWrite(p) PROVE [Q!Next]_queueVars
  BY <1>5 DEF EnqWrite, queueVars
<1>6. ASSUME NEW p \in Enqueuers, EnqDrain(p) PROVE [Q!Next]_queueVars
  BY <1>6 DEF EnqDrain, queueVars
<1>7. ASSUME NEW p \in Enqueuers, EnqReturn(p) PROVE [Q!Next]_queueVars
  <2>1. enq[p].run \in Jobs
    BY <1>7 DEF EnqReturn, Control
  <2> QED
    BY <1>7, <2>1 DEF EnqReturn, Q!Next
<1>8. ASSUME NEW p \in Enqueuers, EnqCrash(p) PROVE [Q!Next]_queueVars
  BY <1>8 DEF EnqCrash, queueVars
<1>9. ASSUME NEW w \in Workers, WorkerStart(w) PROVE [Q!Next]_queueVars
  BY <1>9 DEF WorkerStart, queueVars
<1>10. ASSUME NEW w \in Workers, WorkerDrained(w) PROVE [Q!Next]_queueVars
  BY <1>10 DEF WorkerDrained, queueVars
<1>11. ASSUME NEW w \in Workers, NEW j \in Jobs, WorkerClaim(w, j) PROVE [Q!Next]_queueVars
  BY <1>11 DEF WorkerClaim, Q!Next
<1>12. ASSUME NEW w \in Workers, NEW j \in Jobs, DeadLetterProject(w, j) PROVE [Q!Next]_queueVars
  BY <1>12 DEF DeadLetterProject, queueVars
<1>13. ASSUME NEW w \in Workers, WorkerExit(w) PROVE [Q!Next]_queueVars
  BY <1>13 DEF WorkerExit, queueVars
<1>14. ASSUME NEW w \in Workers, DeadLetterCommit(w) PROVE [Q!Next]_queueVars
  <2>1. lock[2] \in Jobs
    BY <1>14 DEF DeadLetterCommit, Control
  <2> QED
    BY <1>14, <2>1 DEF DeadLetterCommit, Q!Next
<1>15. ASSUME NEW w \in Workers, WorkerRefuse(w) PROVE [Q!Next]_queueVars
  BY <1>15 DEF WorkerRefuse, Q!Next
<1>16. ASSUME NEW w \in Workers, ExecProject(w) PROVE [Q!Next]_queueVars
  BY <1>16 DEF ExecProject, queueVars
<1>17. ASSUME NEW w \in Workers, ExecStart(w) PROVE [Q!Next]_queueVars
  BY <1>17 DEF ExecStart, queueVars
<1>18. ASSUME NEW w \in Workers, ExecTrain(w) PROVE [Q!Next]_queueVars
  BY <1>18 DEF ExecTrain, queueVars
<1>19. ASSUME NEW w \in Workers, ExecReport(w) PROVE [Q!Next]_queueVars
  BY <1>19 DEF ExecReport, queueVars
<1>20. ASSUME NEW w \in Workers, ExecFeedback(w) PROVE [Q!Next]_queueVars
  BY <1>20 DEF ExecFeedback, queueVars
<1>21. ASSUME NEW w \in Workers, NEW status \in RunStatuses, ExecEnd(w, status) PROVE [Q!Next]_queueVars
  BY <1>21 DEF ExecEnd, queueVars
<1>22. ASSUME NEW w \in Workers, ExecClose(w) PROVE [Q!Next]_queueVars
  BY <1>22 DEF ExecClose, queueVars
<1>23. ASSUME NEW w \in Workers, WorkerComplete(w) PROVE [Q!Next]_queueVars
  BY <1>23 DEF WorkerComplete, Q!Next
<1>24. ASSUME NEW w \in Workers, WorkerHeartbeat(w) PROVE [Q!Next]_queueVars
  BY <1>24 DEF WorkerHeartbeat, Q!Next
<1>25. ASSUME NEW w \in Workers, WorkerCrash(w) PROVE [Q!Next]_queueVars
  <2>1. held \in [Workers -> Q!Claim \cup {Q!NoClaim}]
    BY DEF TypeOK, Q!TypeOK
  <2>2. CASE Q!Busy(w)
    BY <1>25, <2>2 DEF WorkerCrash, Q!Crash, Q!Next
  <2>3. CASE ~Q!Busy(w)
    BY <1>25, <2>1, <2>3 DEF WorkerCrash, Q!Busy, queueVars
  <2> QED
    BY <2>2, <2>3
<1>26. ASSUME NEW j \in Jobs, OperatorCancel(j) PROVE [Q!Next]_queueVars
  BY <1>26 DEF OperatorCancel, Q!Next
<1>27. ASSUME NEW j \in Jobs, OperatorRequeue(j) PROVE [Q!Next]_queueVars
  BY <1>27 DEF OperatorRequeue, Q!Next
<1>28. ASSUME NEW j \in Jobs, HeartbeatExpires(j) PROVE [Q!Next]_queueVars
  BY <1>28 DEF HeartbeatExpires, Q!Next
<1>29. ASSUME UNCHANGED vars PROVE [Q!Next]_queueVars
  BY <1>29 DEF vars, queueVars
<1> QED
  BY <1>1, <1>2, <1>3, <1>4, <1>5, <1>6, <1>7, <1>8, <1>9, <1>10, <1>11, <1>12, <1>13,
     <1>14, <1>15, <1>16, <1>17, <1>18, <1>19, <1>20, <1>21, <1>22, <1>23, <1>24,
     <1>25, <1>26, <1>27, <1>28, <1>29
     DEF Next, EnqProceed, Drain, WorkerProceed, PollStep, Execute, Procs

\* A worker that executes has a job and a token.
LEMMA HeldClaim ==
    ASSUME Control, NEW w \in Workers, wk[w].pc \in Executing
    PROVE  HeldJob(w) \in Jobs /\ held[w].token \in Nat
  BY DEF Control, HeldJob, Q!Claim

\* A jump keeps the memory of the workers typed.
LEMMA GotoType ==
    ASSUME TypeOK, NEW w \in Workers, NEW pc \in WorkerPcs, Goto(w, pc)
    PROVE  wk' \in [Workers -> [pc : WorkerPcs, prior : {0, 1}, copy : RunStatuses \cup {"absent"}]]
<1>1. wk \in [Workers -> [pc : WorkerPcs, prior : {0, 1}, copy : RunStatuses \cup {"absent"}]]
  BY DEF TypeOK
<1>2. wk' = [wk EXCEPT ![w].pc = pc]
  BY DEF Goto
<1> QED
  BY <1>1, <1>2

\* The variables that are not the queue's keep their types.
LEMMA OwnTypeStep ==
    ASSUME TypeOK, Control, [Next]_vars, Q!TypeOK'
    PROVE  TypeOK'
<1>1. ASSUME NEW p \in Enqueuers, NEW s \in Specs, NEW j \in Jobs, EnqRead(p, s, j) PROVE TypeOK'
  BY <1>1, ExecAssumption DEF EnqRead, TypeOK, farVars, queueVars, RunStatuses, WorkerPcs, NoDrain, Pending, Procs
<1>2. ASSUME NEW p \in Procs, NEW j \in Jobs, DrainEnqueue(p, j) PROVE TypeOK'
  <2> DEFINE d == [drain[p] EXCEPT !.todo = @ \ {j}, !.mark = j]
  <2>a. drain \in [Procs -> [todo : SUBSET Jobs, mark : Jobs \cup {None}, drained : {0, 1}]] /\ drain[p] \in [todo : SUBSET Jobs, mark : Jobs \cup {None}, drained : {0, 1}]
    BY DEF TypeOK
  <2>b. d \in [todo : SUBSET Jobs, mark : Jobs \cup {None}, drained : {0, 1}]
    BY <2>a
  <2>c. drain' = [drain EXCEPT ![p] = d]
    BY <1>2, <2>a DEF DrainEnqueue
  <2> HIDE DEF d
  <2>1. drain' \in [Procs -> [todo : SUBSET Jobs, mark : Jobs \cup {None}, drained : {0, 1}]]
    BY <2>a, <2>b, <2>c
  <2> QED
    BY <1>2, <2>1 DEF DrainEnqueue, TypeOK, farVars
<1>3. ASSUME NEW p \in Procs, NEW j \in Jobs, DrainFail(p, j) PROVE TypeOK'
  BY <1>3 DEF DrainFail, TypeOK, farVars, queueVars, RunStatuses, WorkerPcs
<1>4. ASSUME NEW p \in Procs, DrainMark(p) PROVE TypeOK'
  <2> DEFINE d == [drain[p] EXCEPT !.mark = None, !.drained = 1]
  <2>a. drain \in [Procs -> [todo : SUBSET Jobs, mark : Jobs \cup {None}, drained : {0, 1}]] /\ drain[p] \in [todo : SUBSET Jobs, mark : Jobs \cup {None}, drained : {0, 1}]
    BY DEF TypeOK
  <2>b. d \in [todo : SUBSET Jobs, mark : Jobs \cup {None}, drained : {0, 1}]
    BY <2>a
  <2>c. drain' = [drain EXCEPT ![p] = d]
    BY <1>4, <2>a DEF DrainMark
  <2> HIDE DEF d
  <2>1. drain' \in [Procs -> [todo : SUBSET Jobs, mark : Jobs \cup {None}, drained : {0, 1}]]
    BY <2>a, <2>b, <2>c
  <2>2. outbox' \in [Jobs -> {"absent", "pending", "drained"}]
    BY <1>4 DEF DrainMark, TypeOK
  <2> QED
    BY <1>4, <2>1, <2>2 DEF DrainMark, TypeOK
<1>5. ASSUME NEW p \in Enqueuers, EnqWrite(p) PROVE TypeOK'
  BY <1>5 DEF EnqWrite, TypeOK, farVars, queueVars, RunStatuses, WorkerPcs, Control
<1>6. ASSUME NEW p \in Enqueuers, EnqDrain(p) PROVE TypeOK'
  <2>1. [NoDrain EXCEPT !.todo = Pending] \in [todo : SUBSET Jobs, mark : Jobs \cup {None}, drained : {0, 1}]
    BY DEF NoDrain, Pending
  <2>2. drain' \in [Procs -> [todo : SUBSET Jobs, mark : Jobs \cup {None}, drained : {0, 1}]]
    BY <1>6, <2>1 DEF EnqDrain, TypeOK
  <2>3. enq' \in [Enqueuers -> [pc : {"idle", "recover", "write", "drain", "return"},
                               spec : Specs \cup {None}, run : Jobs \cup {None},
                               copy : RunStatuses \cup {"absent"}]]
    BY <1>6, SMTT(20) DEF EnqDrain, TypeOK
  <2> QED
    BY <1>6, <2>2, <2>3 DEF EnqDrain, TypeOK, farVars
<1>7. ASSUME NEW p \in Enqueuers, EnqReturn(p) PROVE TypeOK'
  BY <1>7 DEF EnqReturn, TypeOK, farVars, queueVars, RunStatuses, WorkerPcs, NoEnq, NoDrain, Procs
<1>8. ASSUME NEW p \in Enqueuers, EnqCrash(p) PROVE TypeOK'
  BY <1>8 DEF EnqCrash, TypeOK, farVars, queueVars, RunStatuses, WorkerPcs, NoEnq, NoDrain, Procs
<1>9. ASSUME NEW w \in Workers, WorkerStart(w) PROVE TypeOK'
  <2>1. wk' \in [Workers -> [pc : WorkerPcs, prior : {0, 1}, copy : RunStatuses \cup {"absent"}]]
    BY <1>9, GotoType DEF WorkerStart, WorkerPcs
  <2> QED
    BY <1>9, <2>1 DEF WorkerStart, TypeOK, farVars, queueVars, RunStatuses, NoDrain, Pending, Procs
<1>10. ASSUME NEW w \in Workers, WorkerDrained(w) PROVE TypeOK'
  <2>1. wk' \in [Workers -> [pc : WorkerPcs, prior : {0, 1}, copy : RunStatuses \cup {"absent"}]]
    BY <1>10, GotoType DEF WorkerDrained, WorkerPcs
  <2> QED
    BY <1>10, <2>1 DEF WorkerDrained, TypeOK, farVars, queueVars, RunStatuses, NoDrain, Procs
<1>11. ASSUME NEW w \in Workers, NEW j \in Jobs, WorkerClaim(w, j) PROVE TypeOK'
  <2>1. wk' \in [Workers -> [pc : WorkerPcs, prior : {0, 1}, copy : RunStatuses \cup {"absent"}]]
    BY <1>11, GotoType DEF WorkerClaim, WorkerPcs
  <2> QED
    BY <1>11, <2>1 DEF WorkerClaim, TypeOK, farVars, queueVars, RunStatuses
<1>12. ASSUME NEW w \in Workers, NEW j \in Jobs, DeadLetterProject(w, j) PROVE TypeOK'
  <2>1. wk' \in [Workers -> [pc : WorkerPcs, prior : {0, 1}, copy : RunStatuses \cup {"absent"}]]
    BY <1>12, GotoType DEF DeadLetterProject, WorkerPcs
  <2> QED
    BY <1>12, <2>1 DEF DeadLetterProject, TypeOK, farVars, queueVars, RunStatuses
<1>13. ASSUME NEW w \in Workers, WorkerExit(w) PROVE TypeOK'
  <2>1. wk' \in [Workers -> [pc : WorkerPcs, prior : {0, 1}, copy : RunStatuses \cup {"absent"}]]
    BY <1>13, GotoType DEF WorkerExit, WorkerPcs
  <2> QED
    BY <1>13, <2>1 DEF WorkerExit, TypeOK, farVars, queueVars, RunStatuses
<1>14. ASSUME NEW w \in Workers, DeadLetterCommit(w) PROVE TypeOK'
  <2>1. wk' \in [Workers -> [pc : WorkerPcs, prior : {0, 1}, copy : RunStatuses \cup {"absent"}]]
    BY <1>14, GotoType DEF DeadLetterCommit, WorkerPcs
  <2> QED
    BY <1>14, <2>1 DEF DeadLetterCommit, TypeOK, farVars, queueVars, RunStatuses
<1>15. ASSUME NEW w \in Workers, WorkerRefuse(w) PROVE TypeOK'
  <2>1. wk' \in [Workers -> [pc : WorkerPcs, prior : {0, 1}, copy : RunStatuses \cup {"absent"}]]
    BY <1>15, GotoType DEF WorkerRefuse, WorkerPcs
  <2> QED
    BY <1>15, <2>1 DEF WorkerRefuse, TypeOK, farVars, queueVars, RunStatuses
<1>16. ASSUME NEW w \in Workers, ExecProject(w) PROVE TypeOK'
  <2>1. HeldJob(w) \in Jobs /\ held[w].token \in Nat
    BY <1>16, HeldClaim DEF ExecProject, Executing
  <2> QED
    BY <1>16, <2>1 DEF ExecProject, TypeOK, farVars, queueVars, RunStatuses, WorkerPcs, Project, NoWork
<1>17. ASSUME NEW w \in Workers, ExecStart(w) PROVE TypeOK'
  <2>1. wk' \in [Workers -> [pc : WorkerPcs, prior : {0, 1}, copy : RunStatuses \cup {"absent"}]]
    BY <1>17, GotoType DEF ExecStart, WorkerPcs
  <2>2. HeldJob(w) \in Jobs
    BY <1>17, HeldClaim DEF ExecStart, Executing
  <2> QED
    BY <1>17, <2>1, <2>2 DEF ExecStart, TypeOK, farVars, queueVars, RunStatuses, Project
<1>18. ASSUME NEW w \in Workers, ExecTrain(w) PROVE TypeOK'
  <2>1. wk' \in [Workers -> [pc : WorkerPcs, prior : {0, 1}, copy : RunStatuses \cup {"absent"}]]
    BY <1>18, GotoType DEF ExecTrain, WorkerPcs
  <2> QED
    BY <1>18, <2>1 DEF ExecTrain, TypeOK, farVars, queueVars, RunStatuses
<1>19. ASSUME NEW w \in Workers, ExecReport(w) PROVE TypeOK'
  <2>1. HeldJob(w) \in Jobs /\ held[w].token \in Nat
    BY <1>19, HeldClaim DEF ExecReport, Executing
  <2>2. wk[w].prior \in {0, 1}
    BY DEF TypeOK
  <2>3. [run |-> HeldJob(w), token |-> held[w].token, exploratory |-> wk[w].prior]
          \in [run : Jobs, token : Nat, exploratory : {0, 1}]
    BY <2>1, <2>2
  <2>4. reports' \subseteq [run : Jobs, token : Nat, exploratory : {0, 1}]
    BY <1>19, <2>3 DEF ExecReport, TypeOK
  <2>5. wk' \in [Workers -> [pc : WorkerPcs, prior : {0, 1}, copy : RunStatuses \cup {"absent"}]]
    BY <1>19 DEF ExecReport, Goto, TypeOK, WorkerPcs
  <2> QED
    BY <1>19, <2>4, <2>5 DEF ExecReport, TypeOK
<1>20. ASSUME NEW w \in Workers, ExecFeedback(w) PROVE TypeOK'
  <2>1. HeldJob(w) \in Jobs /\ held[w].token \in Nat
    BY <1>20, HeldClaim DEF ExecFeedback, Executing
  <2> QED
    BY <1>20, <2>1 DEF ExecFeedback, TypeOK, farVars, queueVars, RunStatuses, WorkerPcs, NoWork
<1>21. ASSUME NEW w \in Workers, NEW status \in RunStatuses, ExecEnd(w, status) PROVE TypeOK'
  <2>1. HeldJob(w) \in Jobs /\ held[w].token \in Nat
    BY <1>21, HeldClaim DEF ExecEnd, Executing
  <2> QED
    BY <1>21, <2>1 DEF ExecEnd, TypeOK, farVars, queueVars, RunStatuses, WorkerPcs, Project, NoWork
<1>22. ASSUME NEW w \in Workers, ExecClose(w) PROVE TypeOK'
  <2>1. wk' \in [Workers -> [pc : WorkerPcs, prior : {0, 1}, copy : RunStatuses \cup {"absent"}]]
    BY <1>22, GotoType DEF ExecClose, WorkerPcs
  <2>2. HeldJob(w) \in Jobs
    BY <1>22, HeldClaim DEF ExecClose, Executing
  <2>3. wk[w].copy \in RunStatuses
    BY <1>22 DEF ExecClose, Control
  <2> QED
    BY <1>22, <2>1, <2>2, <2>3 DEF ExecClose, TypeOK, farVars, queueVars, RunStatuses, Project
<1>23. ASSUME NEW w \in Workers, WorkerComplete(w) PROVE TypeOK'
  BY <1>23 DEF WorkerComplete, TypeOK, farVars, queueVars, RunStatuses, WorkerPcs, NoWork
<1>24. ASSUME NEW w \in Workers, WorkerHeartbeat(w) PROVE TypeOK'
  BY <1>24 DEF WorkerHeartbeat, TypeOK, farVars, queueVars, RunStatuses, WorkerPcs
<1>25. ASSUME NEW w \in Workers, WorkerCrash(w) PROVE TypeOK'
  BY <1>25 DEF WorkerCrash, TypeOK, farVars, queueVars, RunStatuses, WorkerPcs, NoWork, NoDrain, Procs
<1>26. ASSUME NEW j \in Jobs, OperatorCancel(j) PROVE TypeOK'
  BY <1>26 DEF OperatorCancel, TypeOK, farVars, queueVars, RunStatuses, WorkerPcs
<1>27. ASSUME NEW j \in Jobs, OperatorRequeue(j) PROVE TypeOK'
  BY <1>27 DEF OperatorRequeue, TypeOK, farVars, queueVars, RunStatuses, WorkerPcs
<1>28. ASSUME NEW j \in Jobs, HeartbeatExpires(j) PROVE TypeOK'
  BY <1>28 DEF HeartbeatExpires, TypeOK, farVars, queueVars, RunStatuses, WorkerPcs
<1>29. ASSUME UNCHANGED vars PROVE TypeOK'
  BY <1>29 DEF vars, TypeOK
<1> QED
  BY <1>1, <1>2, <1>3, <1>4, <1>5, <1>6, <1>7, <1>8, <1>9, <1>10, <1>11, <1>12, <1>13,
     <1>14, <1>15, <1>16, <1>17, <1>18, <1>19, <1>20, <1>21, <1>22, <1>23, <1>24,
     <1>25, <1>26, <1>27, <1>28, <1>29
     DEF Next, EnqProceed, Drain, WorkerProceed, PollStep, Execute, Procs

\* The places of the processes keep saying what they say.
LEMMA ControlStep ==
    ASSUME TypeOK, Control, [Next]_vars
    PROVE  Control'
<1>a. /\ enq \in [Enqueuers -> [pc : {"idle", "recover", "write", "drain", "return"},
                                spec : Specs \cup {None}, run : Jobs \cup {None},
                                copy : RunStatuses \cup {"absent"}]]
      /\ wk \in [Workers -> [pc : WorkerPcs, prior : {0, 1}, copy : RunStatuses \cup {"absent"}]]
      /\ job \in [Jobs -> Q!Row] /\ held \in [Workers -> Q!Claim \cup {Q!NoClaim}]
  BY DEF TypeOK, Q!TypeOK
<1>1. ASSUME NEW p \in Enqueuers, NEW s \in Specs, NEW j \in Jobs, EnqRead(p, s, j) PROVE Control'
  BY <1>a, <1>1 DEF EnqRead, Control, Executing, queueVars
<1>2. ASSUME NEW p \in Procs, NEW j \in Jobs, DrainEnqueue(p, j) PROVE Control'
  BY <1>a, <1>2 DEF DrainEnqueue, Control, Executing, queueVars, Q!Enqueue
<1>3. ASSUME NEW p \in Procs, NEW j \in Jobs, DrainFail(p, j) PROVE Control'
  BY <1>a, <1>3 DEF DrainFail, Control, Executing, queueVars
<1>4. ASSUME NEW p \in Procs, DrainMark(p) PROVE Control'
  BY <1>a, <1>4 DEF DrainMark, Control, Executing, queueVars
<1>5. ASSUME NEW p \in Enqueuers, EnqWrite(p) PROVE Control'
  BY <1>a, <1>5 DEF EnqWrite, Control, Executing, queueVars
<1>6. ASSUME NEW p \in Enqueuers, EnqDrain(p) PROVE Control'
  BY <1>a, <1>6 DEF EnqDrain, Control, Executing, queueVars
<1>7. ASSUME NEW p \in Enqueuers, EnqReturn(p) PROVE Control'
  BY <1>a, <1>7 DEF EnqReturn, Control, Executing, queueVars, NoEnq, Q!Enqueue
<1>8. ASSUME NEW p \in Enqueuers, EnqCrash(p) PROVE Control'
  BY <1>a, <1>8 DEF EnqCrash, Control, Executing, queueVars, NoEnq
<1>9. ASSUME NEW w \in Workers, WorkerStart(w) PROVE Control'
  BY <1>a, <1>9 DEF WorkerStart, Control, Executing, queueVars, Goto
<1>10. ASSUME NEW w \in Workers, WorkerDrained(w) PROVE Control'
  BY <1>a, <1>10 DEF WorkerDrained, Control, Executing, queueVars, Goto
<1>11. ASSUME NEW w \in Workers, NEW j \in Jobs, WorkerClaim(w, j) PROVE Control'
  BY <1>a, <1>11 DEF WorkerClaim, Control, Executing, queueVars, Goto, Q!ClaimNext, Q!Claim, Q!Row
<1>12. ASSUME NEW w \in Workers, NEW j \in Jobs, DeadLetterProject(w, j) PROVE Control'
  <2>1. \A v \in Workers : wk[v].pc # "dead"
    BY <1>12, ExecAssumption DEF DeadLetterProject, SchedulerFree, Control
  <2>2. wk' = [wk EXCEPT ![w].pc = "dead"] /\ lock' = <<w, j>> /\ held' = held /\ enq' = enq
    BY <1>12 DEF DeadLetterProject, Goto, queueVars
  <2>3. \A v \in Workers : wk'[v].copy = wk[v].copy /\ (v # w => wk'[v].pc = wk[v].pc) /\ wk'[w].pc = "dead"
    BY <1>a, <2>2
  <2> QED
    BY <2>1, <2>2, <2>3 DEF Control, Executing
<1>13. ASSUME NEW w \in Workers, WorkerExit(w) PROVE Control'
  BY <1>a, <1>13 DEF WorkerExit, Control, Executing, queueVars, Goto
<1>14. ASSUME NEW w \in Workers, DeadLetterCommit(w) PROVE Control'
  BY <1>a, <1>14 DEF DeadLetterCommit, Control, Executing, queueVars, Goto, Q!DeadLetter
<1>15. ASSUME NEW w \in Workers, WorkerRefuse(w) PROVE Control'
  BY <1>a, <1>15 DEF WorkerRefuse, Control, Executing, queueVars, Goto, Q!Complete
<1>16. ASSUME NEW w \in Workers, ExecProject(w) PROVE Control'
  BY <1>a, <1>16 DEF ExecProject, Control, Executing, queueVars, NoWork
<1>17. ASSUME NEW w \in Workers, ExecStart(w) PROVE Control'
  BY <1>a, <1>17 DEF ExecStart, Control, Executing, queueVars, Goto
<1>18. ASSUME NEW w \in Workers, ExecTrain(w) PROVE Control'
  BY <1>a, <1>18 DEF ExecTrain, Control, Executing, queueVars, Goto
<1>19. ASSUME NEW w \in Workers, ExecReport(w) PROVE Control'
  BY <1>a, <1>19 DEF ExecReport, Control, Executing, queueVars, Goto
<1>20. ASSUME NEW w \in Workers, ExecFeedback(w) PROVE Control'
  BY <1>a, <1>20 DEF ExecFeedback, Control, Executing, queueVars, NoWork
<1>21. ASSUME NEW w \in Workers, NEW status \in RunStatuses, ExecEnd(w, status) PROVE Control'
  BY <1>a, <1>21 DEF ExecEnd, Control, Executing, queueVars, NoWork
<1>22. ASSUME NEW w \in Workers, ExecClose(w) PROVE Control'
  BY <1>a, <1>22 DEF ExecClose, Control, Executing, queueVars, Goto
<1>23. ASSUME NEW w \in Workers, WorkerComplete(w) PROVE Control'
  BY <1>a, <1>23 DEF WorkerComplete, Control, Executing, queueVars, NoWork, Q!Complete
<1>24. ASSUME NEW w \in Workers, WorkerHeartbeat(w) PROVE Control'
  BY <1>a, <1>24 DEF WorkerHeartbeat, Control, Executing, queueVars, Q!Heartbeat
<1>25. ASSUME NEW w \in Workers, WorkerCrash(w) PROVE Control'
  BY <1>a, <1>25 DEF WorkerCrash, Control, Executing, queueVars, NoWork
<1>26. ASSUME NEW j \in Jobs, OperatorCancel(j) PROVE Control'
  BY <1>a, <1>26 DEF OperatorCancel, Control, Executing, queueVars, Q!Cancel
<1>27. ASSUME NEW j \in Jobs, OperatorRequeue(j) PROVE Control'
  BY <1>a, <1>27 DEF OperatorRequeue, Control, Executing, queueVars, Q!RequeueDead
<1>28. ASSUME NEW j \in Jobs, HeartbeatExpires(j) PROVE Control'
  BY <1>a, <1>28 DEF HeartbeatExpires, Control, Executing, queueVars, Q!Expire
<1>29. ASSUME UNCHANGED vars PROVE Control'
  BY <1>29 DEF vars, Control
<1> QED
  BY <1>1, <1>2, <1>3, <1>4, <1>5, <1>6, <1>7, <1>8, <1>9, <1>10, <1>11, <1>12, <1>13,
     <1>14, <1>15, <1>16, <1>17, <1>18, <1>19, <1>20, <1>21, <1>22, <1>23, <1>24,
     <1>25, <1>26, <1>27, <1>28, <1>29
     DEF Next, EnqProceed, Drain, WorkerProceed, PollStep, Execute, Procs

\* The composed system keeps its types and its control.
LEMMA Inductive == Spec => [](TypeOK /\ Control)
<1>1. Init => TypeOK /\ Control
  <2> SUFFICES ASSUME Init PROVE TypeOK /\ Control
    OBVIOUS
  <2>1. Q!TypeOK
    BY QueueAssumption DEF Init, Q!Init, Q!TypeOK, Q!Row, Q!NoRow
  <2>2. TypeOK
    BY <2>1, ExecAssumption DEF Init, TypeOK, NoEnq, NoWork, NoDrain, WorkerPcs
  <2>3. Control
    BY DEF Init, Control, NoEnq, NoWork, Executing
  <2> QED
    BY <2>2, <2>3
<1>2. TypeOK /\ Control /\ [Next]_vars => (TypeOK /\ Control)'
  <2> SUFFICES ASSUME TypeOK, Control, [Next]_vars PROVE TypeOK' /\ Control'
    OBVIOUS
  <2>1. Q!TypeOK'
    BY QueueStep, QueueType DEF TypeOK
  <2> QED
    BY <2>1, OwnTypeStep, ControlStep
<1> QED
  BY <1>1, <1>2, PTL DEF Spec

\* Both stores, the processes' memory and the history keep their types.
THEOREM TypeCorrect == Spec => []TypeOK
  BY Inductive, PTL

\* The two-store system implements the job queue, for every number of jobs,
\* workers and enqueuers: the split dead-letter transaction, the drains and the
\* crashes make no step of the jobs table that scheduler.ts alone does not have.
THEOREM QueueImplemented == Spec => ImplementsQueue
<1>1. Init => Q!Init
  BY DEF Init
<1>2. TypeOK /\ Control /\ [Next]_vars => [Q!Next]_Q!vars
  BY QueueStep DEF queueVars, Q!vars
<1> QED
  BY <1>1, <1>2, Inductive, PTL DEF Spec, ImplementsQueue, Q!Spec

\* The composed system takes the steps of the queue that JobQueueProofs is
\* about, so its fence holds here too: whatever crashes between the stores,
\* claims of one job held by different worker processes carry different tokens.
THEOREM FenceInherited == Spec => []QP!FenceUnique
<1>1. Init => QP!Init
  BY SameState DEF Init
<1>2. TypeOK /\ Control /\ [Next]_vars => [QP!Next]_QP!vars
  BY QueueStep, SameNext DEF queueVars, QP!vars
<1>3. Spec => QP!Spec
  BY <1>1, <1>2, Inductive, PTL DEF Spec, QP!Spec
<1>4. /\ QP!IsFiniteSet(Jobs) /\ Priorities \subseteq Int /\ DeviceOf \in [Workers -> Devices]
      /\ MaxRunning \in [Workers -> Nat \ {0}] /\ MaxAttempts \in Nat \ {0}
      /\ MaxRequeues \in Nat /\ None \notin Workers \cup Jobs
  BY QueueAssumption, SameCount
<1>5. QP!Spec => []QP!FenceUnique
  BY <1>4, QP!FenceCorrect, PTL
<1> QED
  BY <1>3, <1>5, PTL

-----------------------------------------------------------------------------
(* The hand-over between the stores *)

\* Where an intent is on its way: no mark without a row, no drain of what was
\* not recorded, no intent without its run, and an enqueuer that has written
\* has recorded its intent.
IntentHasRun == \A j \in Jobs : outbox[j] # "absent" => xrun[j] # "absent"
DrainsKnown ==
    \A p \in Procs : /\ \A j \in drain[p].todo : outbox[j] # "absent"
                     /\ drain[p].mark \in Jobs => job[drain[p].mark].status # "absent"
Recorded ==
    \A p \in Enqueuers : enq[p].pc \in {"write", "drain"} => outbox[enq[p].run] # "absent"
HandOver == NoLostIntent /\ IntentHasRun /\ DrainsKnown /\ Recorded

SameRows == \A j \in Jobs : job'[j].status = "absent" <=> job[j].status = "absent"

\* Only an enqueue makes a row, and nothing deletes one.
LEMMA RowsKept ==
    ASSUME Q!TypeOK,
           \/ \E w \in Workers, j \in Jobs : Q!ClaimNext(w, j)
           \/ \E w \in Workers, j \in Jobs : Q!DeadLetter(w, j)
           \/ \E w \in Workers : Q!Heartbeat(w)
           \/ \E w \in Workers, ok \in BOOLEAN : Q!Complete(w, ok)
           \/ \E j \in Jobs : Q!Cancel(j)
           \/ \E j \in Jobs : Q!RequeueDead(j)
           \/ \E j \in Jobs : Q!Expire(j)
    PROVE  SameRows
<1>0. job \in [Jobs -> Q!Row] /\ held \in [Workers -> Q!Claim \cup {Q!NoClaim}]
  BY DEF Q!TypeOK
<1>1. ASSUME NEW w \in Workers, NEW j \in Jobs, Q!ClaimNext(w, j) PROVE SameRows
  BY <1>0, <1>1, ZenonT(20) DEF SameRows, Q!ClaimNext, Q!Picked, Q!Claimable, Q!Row
<1>2. ASSUME NEW w \in Workers, NEW j \in Jobs, Q!DeadLetter(w, j) PROVE SameRows
  BY <1>0, <1>2 DEF SameRows, Q!DeadLetter, Q!Picked, Q!Claimable, Q!Row
<1>3. ASSUME NEW w \in Workers, Q!Heartbeat(w) PROVE SameRows
  BY <1>0, <1>3 DEF SameRows, Q!Heartbeat, Q!Row
<1>4. ASSUME NEW w \in Workers, NEW ok \in BOOLEAN, Q!Complete(w, ok) PROVE SameRows
  <2>1. Q!Outcome(ok) # "absent"
    BY DEF Q!Outcome
  <2> QED
    BY <1>0, <1>4, <2>1 DEF SameRows, Q!Complete, Q!Owns, Q!Row
<1>5. ASSUME NEW j \in Jobs, Q!Cancel(j) PROVE SameRows
  BY <1>0, <1>5 DEF SameRows, Q!Cancel, Q!Row
<1>6. ASSUME NEW j \in Jobs, Q!RequeueDead(j) PROVE SameRows
  BY <1>0, <1>6, ZenonT(20) DEF SameRows, Q!RequeueDead, Q!Row
<1>7. ASSUME NEW j \in Jobs, Q!Expire(j) PROVE SameRows
  BY <1>0, <1>7 DEF SameRows, Q!Expire, Q!Row
<1> QED
  BY <1>1, <1>2, <1>3, <1>4, <1>5, <1>6, <1>7

\* An enqueue makes the row of its job and leaves the others alone.
LEMMA RowMade ==
    ASSUME Q!TypeOK, NEW i \in Jobs, Q!Enqueue(i, Prio, Device)
    PROVE  /\ job'[i].status # "absent"
           /\ \A j \in Jobs \ {i} : job'[j] = job[j]
<1>1. job \in [Jobs -> Q!Row]
  BY DEF Q!TypeOK
<1> QED
  BY <1>1 DEF Q!Enqueue, Q!NoRow

\* A step that touches neither the outbox, the drains nor the enqueuers, makes no
\* row and blanks no run keeps the hand-over.
LEMMA QuietStep ==
    ASSUME TypeOK, HandOver, SameRows, UNCHANGED <<outbox, drain, enq>>,
           \A j \in Jobs : xrun[j] # "absent" => xrun'[j] # "absent"
    PROVE  HandOver'
<1>1. Recorded'
  BY DEF HandOver, Recorded
<1>2. DrainsKnown'
  BY DEF HandOver, DrainsKnown, SameRows
<1>3. IntentHasRun'
  BY DEF HandOver, IntentHasRun
<1>4. NoLostIntent'
  BY DEF HandOver, NoLostIntent, SameRows
<1> QED
  BY <1>1, <1>2, <1>3, <1>4 DEF HandOver

\* Every step keeps the hand-over.
LEMMA HandOverStep ==
    ASSUME TypeOK, Control, HandOver, [Next]_vars
    PROVE  HandOver'
<1>t. Q!TypeOK
  BY DEF TypeOK
<1>x. /\ xrun \in [Jobs -> RunStatuses \cup {"absent"}] /\ "absent" \notin RunStatuses
      /\ outbox \in [Jobs -> {"absent", "pending", "drained"}]
      /\ drain \in [Procs -> [todo : SUBSET Jobs, mark : Jobs \cup {None}, drained : {0, 1}]]
      /\ enq \in [Enqueuers -> [pc : {"idle", "recover", "write", "drain", "return"},
                                spec : Specs \cup {None}, run : Jobs \cup {None},
                                copy : RunStatuses \cup {"absent"}]]
      /\ None \notin Jobs
  BY QueueAssumption DEF TypeOK, RunStatuses
<1>1. ASSUME NEW p \in Enqueuers, NEW s \in Specs, NEW j \in Jobs, EnqRead(p, s, j) PROVE HandOver'
  <2>1. UNCHANGED <<job, outbox, xrun>>
    BY <1>1 DEF EnqRead, farVars, queueVars
  <2>2. /\ \A q \in Procs \ {p} : drain'[q] = drain[q]
        /\ drain'[p].mark = None /\ drain'[p].todo = Pending
    BY <1>x, <1>1 DEF EnqRead, NoDrain, Procs
  <2>3. Recorded'
    BY <1>x, <2>1, <1>1 DEF EnqRead, HandOver, Recorded
  <2>4. DrainsKnown'
    BY <1>x, <2>1, <2>2 DEF HandOver, DrainsKnown, Pending
  <2> QED
    BY <2>1, <2>3, <2>4 DEF HandOver, NoLostIntent, IntentHasRun
<1>2. ASSUME NEW p \in Procs, NEW j \in Jobs, DrainEnqueue(p, j) PROVE HandOver'
  <2>1. job'[j].status # "absent" /\ \A i \in Jobs \ {j} : job'[i] = job[i]
    BY <1>t, <1>2, RowMade DEF DrainEnqueue, queueVars
  <2>2. outbox[j] # "absent"
    BY <1>2 DEF DrainEnqueue, HandOver, DrainsKnown
  <2>3. UNCHANGED <<outbox, xrun, enq>>
    BY <1>2 DEF DrainEnqueue, farVars
  <2>4. /\ \A q \in Procs \ {p} : drain'[q] = drain[q]
        /\ drain'[p].mark = j /\ drain'[p].todo \subseteq drain[p].todo
    BY <1>x, <1>2 DEF DrainEnqueue
  <2>5. DrainsKnown'
    BY <2>1, <2>3, <2>4 DEF HandOver, DrainsKnown
  <2>6. NoLostIntent'
    BY <2>1, <2>2, <2>3 DEF HandOver, NoLostIntent, IntentHasRun
  <2>7. IntentHasRun' /\ Recorded'
    BY <2>3 DEF HandOver, IntentHasRun, Recorded
  <2> QED
    BY <2>5, <2>6, <2>7 DEF HandOver
<1>3. ASSUME NEW p \in Procs, NEW j \in Jobs, DrainFail(p, j) PROVE HandOver'
  <2>1. UNCHANGED <<job, outbox, xrun, enq>>
    BY <1>3 DEF DrainFail, farVars, queueVars
  <2>2. /\ \A q \in Procs \ {p} : drain'[q] = drain[q]
        /\ drain'[p].mark = drain[p].mark /\ drain'[p].todo \subseteq drain[p].todo
    BY <1>x, <1>3 DEF DrainFail
  <2>3. DrainsKnown'
    BY <2>1, <2>2 DEF HandOver, DrainsKnown
  <2> QED
    BY <2>1, <2>3 DEF HandOver, NoLostIntent, IntentHasRun, Recorded
<1>4. ASSUME NEW p \in Procs, DrainMark(p) PROVE HandOver'
  <2>1. UNCHANGED <<job, xrun, enq>>
    BY <1>4 DEF DrainMark, queueVars
  <2>2. drain[p].mark \in Jobs /\ job[drain[p].mark].status # "absent"
    BY <1>x, <1>4 DEF DrainMark, HandOver, DrainsKnown
  <2>3. /\ \A q \in Procs \ {p} : drain'[q] = drain[q]
        /\ drain'[p].mark = None /\ drain'[p].todo = drain[p].todo
    BY <1>x, <1>4 DEF DrainMark
  <2>4. \A i \in Jobs : outbox'[i] = IF i = drain[p].mark THEN "drained" ELSE outbox[i]
    BY <1>x, <1>4 DEF DrainMark
  <2>5. NoLostIntent'
    BY <2>1, <2>2, <2>4 DEF HandOver, NoLostIntent
  <2>6. IntentHasRun'
    BY <2>1, <2>2, <2>4 DEF HandOver, NoLostIntent, IntentHasRun
  <2>7. Recorded'
    BY <2>1, <2>4 DEF HandOver, Recorded, Control
  <2>8. \A q \in Procs : drain[q].todo \subseteq Jobs
    BY <1>x
  <2>9. DrainsKnown'
    BY <1>x, <2>1, <2>3, <2>4, <2>8 DEF HandOver, DrainsKnown
  <2> QED
    BY <2>5, <2>6, <2>7, <2>9 DEF HandOver
<1>5. ASSUME NEW p \in Enqueuers, EnqWrite(p) PROVE HandOver'
  <2>1. UNCHANGED <<job, drain>> /\ enq[p].run \in Jobs
    BY <1>5 DEF EnqWrite, queueVars, Control
  <2>2. \A i \in Jobs : /\ outbox[i] # "absent" => outbox'[i] = outbox[i]
                        /\ outbox'[i] = "drained" => outbox[i] = "drained"
                        /\ outbox'[i] # "absent" => outbox[i] # "absent" \/ i = enq[p].run
    BY <1>x, <1>5 DEF EnqWrite
  <2>3. outbox'[enq[p].run] # "absent" /\ xrun'[enq[p].run] # "absent"
    BY <1>x, <2>1, <1>5 DEF EnqWrite
  <2>4. \A i \in Jobs : xrun[i] # "absent" => xrun'[i] # "absent"
    BY <1>x, <2>1, <2>3, <1>5 DEF EnqWrite
  <2>5. NoLostIntent'
    BY <2>1, <2>2, <2>4 DEF HandOver, NoLostIntent
  <2>6. IntentHasRun'
    BY <2>2, <2>3, <2>4 DEF HandOver, IntentHasRun
  <2>7. DrainsKnown'
    BY <1>x, <2>1, <2>2 DEF HandOver, DrainsKnown
  <2>8. \A q \in Enqueuers : enq'[q].run = enq[q].run /\ (q # p => enq'[q].pc = enq[q].pc)
    BY <1>x, <1>5 DEF EnqWrite
  <2>9. \A q \in Enqueuers : q # p /\ enq[q].pc \in {"write", "drain"} => enq[q].run \in Jobs
    BY DEF Control
  <2>10. Recorded'
    BY <2>2, <2>3, <2>8, <2>9 DEF HandOver, Recorded
  <2> QED
    BY <2>5, <2>6, <2>7, <2>10 DEF HandOver
<1>6. ASSUME NEW p \in Enqueuers, EnqDrain(p) PROVE HandOver'
  <2>1. UNCHANGED <<job, outbox, xrun>>
    BY <1>6 DEF EnqDrain, farVars, queueVars
  <2>2. /\ \A q \in Procs \ {p} : drain'[q] = drain[q]
        /\ drain'[p].mark = None /\ drain'[p].todo = Pending
    BY <1>x, <1>6 DEF EnqDrain, NoDrain, Procs
  <2>3. Recorded'
    BY <1>x, <2>1, <1>6 DEF EnqDrain, HandOver, Recorded
  <2>4. DrainsKnown'
    BY <1>x, <2>1, <2>2 DEF HandOver, DrainsKnown, Pending
  <2> QED
    BY <2>1, <2>3, <2>4 DEF HandOver, NoLostIntent, IntentHasRun
<1>7. ASSUME NEW p \in Enqueuers, EnqReturn(p) PROVE HandOver'
  <2>1. enq[p].run \in Jobs /\ outbox[enq[p].run] # "absent"
    BY <1>7 DEF EnqReturn, Control, HandOver, Recorded
  <2>2. \A i \in Jobs : /\ job[i].status # "absent" => job'[i].status # "absent"
                        /\ job'[i].status # "absent" => job[i].status # "absent" \/ i = enq[p].run
    <3>1. CASE Q!Enqueue(enq[p].run, Prio, Device)
      BY <1>t, <2>1, <3>1, RowMade
    <3>2. CASE job' = job
      BY <3>2
    <3> QED
      BY <1>7, <3>1, <3>2 DEF EnqReturn, queueVars
  <2>3. UNCHANGED <<outbox, xrun>>
    BY <1>7 DEF EnqReturn, farVars
  <2>4. /\ \A q \in Procs \ {p} : drain'[q] = drain[q]
        /\ drain'[p].mark = None /\ drain'[p].todo = {}
    BY <1>x, <1>7 DEF EnqReturn, NoDrain, Procs
  <2>5. \A q \in Enqueuers : enq'[q] = enq[q] \/ enq'[q].pc = "idle"
    BY <1>x, <1>7 DEF EnqReturn, NoEnq
  <2>6. NoLostIntent'
    BY <2>1, <2>2, <2>3 DEF HandOver, NoLostIntent, IntentHasRun
  <2>7. DrainsKnown'
    BY <1>x, <2>2, <2>3, <2>4 DEF HandOver, DrainsKnown
  <2>8. IntentHasRun' /\ Recorded'
    BY <2>3, <2>5 DEF HandOver, IntentHasRun, Recorded
  <2> QED
    BY <2>6, <2>7, <2>8 DEF HandOver
<1>8. ASSUME NEW p \in Enqueuers, EnqCrash(p) PROVE HandOver'
  <2>1. UNCHANGED <<job, outbox, xrun>>
    BY <1>8 DEF EnqCrash, farVars, queueVars
  <2>2. /\ \A q \in Procs \ {p} : drain'[q] = drain[q]
        /\ drain'[p].mark = None /\ drain'[p].todo = {}
    BY <1>x, <1>8 DEF EnqCrash, NoDrain, Procs
  <2>3. \A q \in Enqueuers : enq'[q] = enq[q] \/ enq'[q].pc = "idle"
    BY <1>x, <1>8 DEF EnqCrash, NoEnq
  <2>4. DrainsKnown'
    BY <1>x, <2>1, <2>2 DEF HandOver, DrainsKnown
  <2> QED
    BY <2>1, <2>3, <2>4 DEF HandOver, NoLostIntent, IntentHasRun, Recorded
<1>9. ASSUME NEW w \in Workers, WorkerStart(w) PROVE HandOver'
  <2>1. UNCHANGED <<job, outbox, xrun, enq>>
    BY <1>9 DEF WorkerStart, farVars, queueVars
  <2>2. /\ \A q \in Procs \ {w} : drain'[q] = drain[q]
        /\ drain'[w].mark = None /\ drain'[w].todo = Pending
    BY <1>x, <1>9 DEF WorkerStart, NoDrain, Procs
  <2>3. DrainsKnown'
    BY <1>x, <2>1, <2>2 DEF HandOver, DrainsKnown, Pending
  <2> QED
    BY <2>1, <2>3 DEF HandOver, NoLostIntent, IntentHasRun, Recorded
<1>10. ASSUME NEW w \in Workers, WorkerDrained(w) PROVE HandOver'
  <2>1. UNCHANGED <<job, outbox, xrun, enq>>
    BY <1>10 DEF WorkerDrained, farVars, queueVars
  <2>2. /\ \A q \in Procs \ {w} : drain'[q] = drain[q]
        /\ drain'[w].mark = None /\ drain'[w].todo = {}
    BY <1>x, <1>10 DEF WorkerDrained, NoDrain, Procs
  <2>3. DrainsKnown'
    BY <1>x, <2>1, <2>2 DEF HandOver, DrainsKnown, Pending
  <2> QED
    BY <2>1, <2>3 DEF HandOver, NoLostIntent, IntentHasRun, Recorded
<1>11. ASSUME NEW w \in Workers, NEW j \in Jobs, WorkerClaim(w, j) PROVE HandOver'
  <2>1. SameRows
    BY <1>t, <1>11, RowsKept DEF WorkerClaim
  <2>2. \A i \in Jobs : xrun[i] # "absent" => xrun'[i] # "absent"
    BY <1>11 DEF WorkerClaim, farVars
  <2>3. UNCHANGED <<outbox, drain, enq>>
    BY <1>11 DEF WorkerClaim, farVars
  <2> QED
    BY <2>1, <2>2, <2>3, QuietStep
<1>12. ASSUME NEW w \in Workers, NEW j \in Jobs, DeadLetterProject(w, j) PROVE HandOver'
  <2>1. SameRows
    BY <1>12 DEF DeadLetterProject, queueVars, SameRows
  <2>2. \A i \in Jobs : xrun[i] # "absent" => xrun'[i] # "absent"
    BY <1>x, <1>12 DEF DeadLetterProject
  <2>3. UNCHANGED <<outbox, drain, enq>>
    BY <1>12 DEF DeadLetterProject, farVars
  <2> QED
    BY <2>1, <2>2, <2>3, QuietStep
<1>13. ASSUME NEW w \in Workers, WorkerExit(w) PROVE HandOver'
  <2>1. SameRows
    BY <1>13 DEF WorkerExit, queueVars, SameRows
  <2>2. \A i \in Jobs : xrun[i] # "absent" => xrun'[i] # "absent"
    BY <1>13 DEF WorkerExit, farVars
  <2>3. UNCHANGED <<outbox, drain, enq>>
    BY <1>13 DEF WorkerExit, farVars
  <2> QED
    BY <2>1, <2>2, <2>3, QuietStep
<1>14. ASSUME NEW w \in Workers, DeadLetterCommit(w) PROVE HandOver'
  <2>1. SameRows
    BY <1>t, <1>14, RowsKept DEF DeadLetterCommit, Control
  <2>2. \A i \in Jobs : xrun[i] # "absent" => xrun'[i] # "absent"
    BY <1>14 DEF DeadLetterCommit, farVars
  <2>3. UNCHANGED <<outbox, drain, enq>>
    BY <1>14 DEF DeadLetterCommit, farVars
  <2> QED
    BY <2>1, <2>2, <2>3, QuietStep
<1>15. ASSUME NEW w \in Workers, WorkerRefuse(w) PROVE HandOver'
  <2>1. SameRows
    BY <1>t, <1>15, RowsKept DEF WorkerRefuse
  <2>2. \A i \in Jobs : xrun[i] # "absent" => xrun'[i] # "absent"
    BY <1>15 DEF WorkerRefuse, farVars
  <2>3. UNCHANGED <<outbox, drain, enq>>
    BY <1>15 DEF WorkerRefuse, farVars
  <2> QED
    BY <2>1, <2>2, <2>3, QuietStep
<1>16. ASSUME NEW w \in Workers, ExecProject(w) PROVE HandOver'
  <2>1. SameRows
    BY <1>16 DEF ExecProject, queueVars, SameRows
  <2>2. \A i \in Jobs : xrun[i] # "absent" => xrun'[i] # "absent"
    BY <1>x, <1>16 DEF ExecProject, Project, RunStatuses
  <2>3. UNCHANGED <<outbox, drain, enq>>
    BY <1>16 DEF ExecProject, farVars
  <2> QED
    BY <2>1, <2>2, <2>3, QuietStep
<1>17. ASSUME NEW w \in Workers, ExecStart(w) PROVE HandOver'
  <2>1. SameRows
    BY <1>17 DEF ExecStart, queueVars, SameRows
  <2>2. \A i \in Jobs : xrun[i] # "absent" => xrun'[i] # "absent"
    BY <1>x, <1>17 DEF ExecStart, Project, RunStatuses
  <2>3. UNCHANGED <<outbox, drain, enq>>
    BY <1>17 DEF ExecStart, farVars
  <2> QED
    BY <2>1, <2>2, <2>3, QuietStep
<1>18. ASSUME NEW w \in Workers, ExecTrain(w) PROVE HandOver'
  <2>1. SameRows
    BY <1>18 DEF ExecTrain, queueVars, SameRows
  <2>2. \A i \in Jobs : xrun[i] # "absent" => xrun'[i] # "absent"
    BY <1>18 DEF ExecTrain, farVars
  <2>3. UNCHANGED <<outbox, drain, enq>>
    BY <1>18 DEF ExecTrain, farVars
  <2> QED
    BY <2>1, <2>2, <2>3, QuietStep
<1>19. ASSUME NEW w \in Workers, ExecReport(w) PROVE HandOver'
  <2>1. SameRows
    BY <1>19 DEF ExecReport, queueVars, SameRows
  <2>2. \A i \in Jobs : xrun[i] # "absent" => xrun'[i] # "absent"
    BY <1>19 DEF ExecReport, farVars
  <2>3. UNCHANGED <<outbox, drain, enq>>
    BY <1>19 DEF ExecReport, farVars
  <2> QED
    BY <2>1, <2>2, <2>3, QuietStep
<1>20. ASSUME NEW w \in Workers, ExecFeedback(w) PROVE HandOver'
  <2>1. SameRows
    BY <1>20 DEF ExecFeedback, queueVars, SameRows
  <2>2. \A i \in Jobs : xrun[i] # "absent" => xrun'[i] # "absent"
    BY <1>20 DEF ExecFeedback, farVars
  <2>3. UNCHANGED <<outbox, drain, enq>>
    BY <1>20 DEF ExecFeedback, farVars
  <2> QED
    BY <2>1, <2>2, <2>3, QuietStep
<1>21. ASSUME NEW w \in Workers, NEW status \in RunStatuses, ExecEnd(w, status) PROVE HandOver'
  <2>1. SameRows
    BY <1>21 DEF ExecEnd, queueVars, SameRows
  <2>2. \A i \in Jobs : xrun[i] # "absent" => xrun'[i] # "absent"
    BY <1>x, <1>21 DEF ExecEnd, Project, RunStatuses
  <2>3. UNCHANGED <<outbox, drain, enq>>
    BY <1>21 DEF ExecEnd, farVars
  <2> QED
    BY <2>1, <2>2, <2>3, QuietStep
<1>22. ASSUME NEW w \in Workers, ExecClose(w) PROVE HandOver'
  <2>1. SameRows
    BY <1>22 DEF ExecClose, queueVars, SameRows
  <2>2. \A i \in Jobs : xrun[i] # "absent" => xrun'[i] # "absent"
    BY <1>x, <1>22 DEF ExecClose, Project, RunStatuses, Control
  <2>3. UNCHANGED <<outbox, drain, enq>>
    BY <1>22 DEF ExecClose, farVars
  <2> QED
    BY <2>1, <2>2, <2>3, QuietStep
<1>23. ASSUME NEW w \in Workers, WorkerComplete(w) PROVE HandOver'
  <2>1. SameRows
    BY <1>t, <1>23, RowsKept DEF WorkerComplete
  <2>2. \A i \in Jobs : xrun[i] # "absent" => xrun'[i] # "absent"
    BY <1>23 DEF WorkerComplete, farVars
  <2>3. UNCHANGED <<outbox, drain, enq>>
    BY <1>23 DEF WorkerComplete, farVars
  <2> QED
    BY <2>1, <2>2, <2>3, QuietStep
<1>24. ASSUME NEW w \in Workers, WorkerHeartbeat(w) PROVE HandOver'
  <2>1. SameRows
    BY <1>t, <1>24, RowsKept DEF WorkerHeartbeat
  <2>2. \A i \in Jobs : xrun[i] # "absent" => xrun'[i] # "absent"
    BY <1>24 DEF WorkerHeartbeat, farVars
  <2>3. UNCHANGED <<outbox, drain, enq>>
    BY <1>24 DEF WorkerHeartbeat, farVars
  <2> QED
    BY <2>1, <2>2, <2>3, QuietStep
<1>25. ASSUME NEW w \in Workers, WorkerCrash(w) PROVE HandOver'
  <2>1. UNCHANGED <<job, outbox, xrun, enq>>
    BY <1>25 DEF WorkerCrash, farVars, queueVars
  <2>2. /\ \A q \in Procs \ {w} : drain'[q] = drain[q]
        /\ drain'[w].mark = None /\ drain'[w].todo = {}
    BY <1>x, <1>25 DEF WorkerCrash, NoDrain, Procs
  <2>3. DrainsKnown'
    BY <1>x, <2>1, <2>2 DEF HandOver, DrainsKnown, Pending
  <2> QED
    BY <2>1, <2>3 DEF HandOver, NoLostIntent, IntentHasRun, Recorded
<1>26. ASSUME NEW j \in Jobs, OperatorCancel(j) PROVE HandOver'
  <2>1. SameRows
    BY <1>t, <1>26, RowsKept DEF OperatorCancel
  <2>2. \A i \in Jobs : xrun[i] # "absent" => xrun'[i] # "absent"
    BY <1>26 DEF OperatorCancel, farVars
  <2>3. UNCHANGED <<outbox, drain, enq>>
    BY <1>26 DEF OperatorCancel, farVars
  <2> QED
    BY <2>1, <2>2, <2>3, QuietStep
<1>27. ASSUME NEW j \in Jobs, OperatorRequeue(j) PROVE HandOver'
  <2>1. SameRows
    BY <1>t, <1>27, RowsKept DEF OperatorRequeue
  <2>2. \A i \in Jobs : xrun[i] # "absent" => xrun'[i] # "absent"
    BY <1>27 DEF OperatorRequeue, farVars
  <2>3. UNCHANGED <<outbox, drain, enq>>
    BY <1>27 DEF OperatorRequeue, farVars
  <2> QED
    BY <2>1, <2>2, <2>3, QuietStep
<1>28. ASSUME NEW j \in Jobs, HeartbeatExpires(j) PROVE HandOver'
  <2>1. SameRows
    BY <1>t, <1>28, RowsKept DEF HeartbeatExpires
  <2>2. \A i \in Jobs : xrun[i] # "absent" => xrun'[i] # "absent"
    BY <1>28 DEF HeartbeatExpires, farVars
  <2>3. UNCHANGED <<outbox, drain, enq>>
    BY <1>28 DEF HeartbeatExpires, farVars
  <2> QED
    BY <2>1, <2>2, <2>3, QuietStep
<1>29. ASSUME UNCHANGED vars PROVE HandOver'
  <2>1. SameRows
    BY <1>29 DEF vars, SameRows
  <2>2. \A i \in Jobs : xrun[i] # "absent" => xrun'[i] # "absent"
    BY <1>29 DEF vars
  <2>3. UNCHANGED <<outbox, drain, enq>>
    BY <1>29 DEF vars, farVars
  <2> QED
    BY <2>1, <2>2, <2>3, QuietStep
<1> QED
  BY <1>1, <1>2, <1>3, <1>4, <1>5, <1>6, <1>7, <1>8, <1>9, <1>10, <1>11, <1>12, <1>13,
     <1>14, <1>15, <1>16, <1>17, <1>18, <1>19, <1>20, <1>21, <1>22, <1>23, <1>24,
     <1>25, <1>26, <1>27, <1>28, <1>29
     DEF Next, EnqProceed, Drain, WorkerProceed, PollStep, Execute, Procs

\* Whatever process dies between the two stores, an intent is marked drained
\* only when its job row exists, and a row exists only for an intent and a run
\* that were recorded together (drainOutbox, putObjectEventedOutboxed).
THEOREM IntentCorrect == Spec => []NoLostIntent
<1>1. Init => HandOver
  <2> SUFFICES ASSUME Init PROVE HandOver
    OBVIOUS
  <2>1. \A j \in Jobs : job[j].status = "absent" /\ outbox[j] = "absent"
    BY DEF Init, Q!Init, Q!NoRow
  <2>2. \A p \in Procs : drain[p].todo = {} /\ drain[p].mark = None
    BY DEF Init, NoDrain
  <2>3. \A p \in Enqueuers : enq[p].pc = "idle"
    BY DEF Init, NoEnq
  <2> QED
    BY <2>1, <2>2, <2>3, QueueAssumption
       DEF HandOver, NoLostIntent, IntentHasRun, DrainsKnown, Recorded
<1>2. TypeOK /\ Control /\ HandOver /\ [Next]_vars => HandOver'
  BY HandOverStep
<1>3. HandOver => NoLostIntent
  BY DEF HandOver
<1> QED
  BY <1>1, <1>2, <1>3, Inductive, PTL DEF Spec

-----------------------------------------------------------------------------
(* The outcome in both stores *)

Ended == {"completed", "failed", "canceled"}

\* Worker w owns job j and has written its outcome to far.db, not yet to the queue.
Reporting(w, j) == Q!Owns(w) /\ held[w].job = j /\ wk[w].pc \in {"closing", "finish"}

\* What the stores agree on between the two writes of an outcome: the owner that
\* is about to complete has the projection it wrote, the transaction that is
\* about to dead-letter found or left an ended run, and a job that nobody was
\* given has no running run.
Agreed(j) ==
    /\ job[j].status = "completed" => xrun[j] = "completed"
    /\ job[j].status = "dead" => xrun[j] \in Ended
    /\ job[j].status \in {"absent", "queued", "canceled"} => xrun[j] # "running"
    /\ lock \in Workers \X {j} => xrun[j] \in Ended
    /\ \A w \in Workers : Reporting(w, j) => xrun[j] = wk[w].copy
OutcomesCopied == \A w \in Workers : wk[w].pc \in {"closing", "finish"} => wk[w].copy \in Ended
Settlement == OutcomesCopied /\ \A j \in Jobs \ tainted : Agreed(j)

\* Only the claim of a job makes a process its owner.
LEMMA OwnersKept ==
    ASSUME Q!TypeOK, NEW w \in Workers, Q!Owns(w)',
           \/ \E v \in Workers \ {w}, j \in Jobs : Q!ClaimNext(v, j)
           \/ \E v \in Workers, j \in Jobs : Q!DeadLetter(v, j)
           \/ \E v \in Workers : Q!Heartbeat(v)
           \/ \E v \in Workers, ok \in BOOLEAN : Q!Complete(v, ok)
           \/ \E j \in Jobs : Q!Enqueue(j, Prio, Device) \/ Q!Cancel(j) \/ Q!RequeueDead(j) \/ Q!Expire(j)
           \/ UNCHANGED queueVars
    PROVE  Q!Owns(w) /\ held'[w] = held[w]
<1>0. job \in [Jobs -> Q!Row] /\ held \in [Workers -> Q!Claim \cup {Q!NoClaim}]
  BY DEF Q!TypeOK
<1>a. /\ held'[w] # Q!NoClaim /\ job'[held'[w].job].status = "running"
      /\ job'[held'[w].job].worker = w /\ job'[held'[w].job].token = held'[w].token
  BY DEF Q!Owns, Q!Busy
<1>b. \A c \in Q!Claim : c.job \in Jobs
  BY DEF Q!Claim
<1>c. ASSUME held'[w] = held[w],
             \A i \in Jobs : /\ job'[i].status = "running" => job[i].status = "running"
                             /\ job'[i].status = "running" => job'[i].worker = job[i].worker
                             /\ job'[i].status = "running" => job'[i].token = job[i].token
      PROVE  Q!Owns(w) /\ held'[w] = held[w]
  <2>1. held[w] # Q!NoClaim /\ held[w].job \in Jobs
    BY <1>0, <1>a, <1>b, <1>c
  <2> QED
    BY <1>a, <1>c, <2>1 DEF Q!Owns, Q!Busy
<1>1. ASSUME NEW v \in Workers \ {w}, NEW j \in Jobs, Q!ClaimNext(v, j)
      PROVE  Q!Owns(w) /\ held'[w] = held[w]
  <2>1. held'[w] = held[w] /\ held[w].job \in Jobs /\ held[w] # Q!NoClaim
    BY <1>0, <1>1, <1>a, <1>b DEF Q!ClaimNext
  <2>r. PICK r : r = [job[j] EXCEPT !.status = "running", !.worker = v, !.token = @ + 1,
                                    !.beat = "fresh", !.attempts = @ + 1]
    OBVIOUS
  <2>j. job' = [job EXCEPT ![j] = r]
    BY <1>0, <1>1, <2>r DEF Q!ClaimNext
  <2>w. r.worker = v
    BY <1>0, <2>r DEF Q!Row
  <2>2. job'[j].worker = v /\ \A i \in Jobs \ {j} : job'[i] = job[i]
    BY <1>0, <2>j, <2>w
  <2>3. held[w].job # j
    BY <2>1, <2>2, <1>a
  <2> QED
    BY <2>1, <2>2, <2>3, <1>a DEF Q!Owns, Q!Busy
<1>2. ASSUME NEW v \in Workers, NEW j \in Jobs, Q!DeadLetter(v, j)
      PROVE  Q!Owns(w) /\ held'[w] = held[w]
  BY <1>0, <1>2, <1>c DEF Q!DeadLetter, Q!Row
<1>3. ASSUME NEW v \in Workers, Q!Heartbeat(v)
      PROVE  Q!Owns(w) /\ held'[w] = held[w]
  BY <1>0, <1>3, <1>c DEF Q!Heartbeat, Q!Row
<1>4. ASSUME NEW v \in Workers, NEW ok \in BOOLEAN, Q!Complete(v, ok)
      PROVE  Q!Owns(w) /\ held'[w] = held[w]
  <2>1. held'[w] = held[w]
    BY <1>0, <1>4, <1>a DEF Q!Complete
  <2>2. Q!Outcome(ok) # "running"
    BY DEF Q!Outcome
  <2>3. PICK o : o = Q!Outcome(ok)
    OBVIOUS
  <2>4. job' = job \/ job' = [job EXCEPT ![held[v].job].status = o]
    BY <1>4, <2>3 DEF Q!Complete
  <2> QED
    BY <1>0, <1>c, <2>1, <2>2, <2>3, <2>4 DEF Q!Row
<1>5. ASSUME NEW j \in Jobs, Q!Enqueue(j, Prio, Device)
      PROVE  Q!Owns(w) /\ held'[w] = held[w]
  <2>1. held' = held /\ \A i \in Jobs \ {j} : job'[i] = job[i]
    BY <1>0, <1>5 DEF Q!Enqueue
  <2>2. job'[j].status = "queued"
    BY <1>0, <1>5 DEF Q!Enqueue, Q!NoRow
  <2> QED
    BY <1>c, <2>1, <2>2
<1>6. ASSUME NEW j \in Jobs, Q!Cancel(j)
      PROVE  Q!Owns(w) /\ held'[w] = held[w]
  BY <1>0, <1>6, <1>c DEF Q!Cancel, Q!Row
<1>7. ASSUME NEW j \in Jobs, Q!RequeueDead(j)
      PROVE  Q!Owns(w) /\ held'[w] = held[w]
  BY <1>0, <1>7, <1>c, ZenonT(20) DEF Q!RequeueDead, Q!Row
<1>8. ASSUME NEW j \in Jobs, Q!Expire(j)
      PROVE  Q!Owns(w) /\ held'[w] = held[w]
  BY <1>0, <1>8, <1>c DEF Q!Expire, Q!Row
<1>9. ASSUME UNCHANGED queueVars
      PROVE  Q!Owns(w) /\ held'[w] = held[w]
  BY <1>9, <1>c DEF queueVars
<1> QED
  BY <1>1, <1>2, <1>3, <1>4, <1>5, <1>6, <1>7, <1>8, <1>9

\* The steps of a job's status that ask nothing of the run.
Harmless(j) ==
    \/ job'[j].status = job[j].status
    \/ job'[j].status \in {"running", "failed"}
    \/ job'[j].status = "queued" /\ job[j].status \in {"absent", "dead"}
    \/ job'[j].status = "canceled" /\ job[j].status = "queued"

\* A step that leaves the run alone, changes the job harmlessly and brings no new
\* reporter keeps what the stores agree on.
LEMMA AgreedKept ==
    ASSUME NEW j \in Jobs, Agreed(j), Harmless(j), xrun'[j] = xrun[j],
           lock' \in Workers \X {j} => lock \in Workers \X {j},
           \A w \in Workers : Reporting(w, j)' => Reporting(w, j) /\ wk'[w].copy = wk[w].copy
    PROVE  Agreed(j)'
<1>1. /\ job'[j].status = "completed" => xrun'[j] = "completed"
      /\ job'[j].status = "dead" => xrun'[j] \in Ended
      /\ job'[j].status \in {"absent", "queued", "canceled"} => xrun'[j] # "running"
  BY DEF Agreed, Harmless, Ended
<1>2. lock' \in Workers \X {j} => xrun'[j] \in Ended
  BY DEF Agreed
<1>3. \A w \in Workers : Reporting(w, j)' => xrun'[j] = wk'[w].copy
  BY DEF Agreed
<1> QED
  BY <1>1, <1>2, <1>3 DEF Agreed

\* The queue's steps that ask nothing of the run.
LEMMA HarmlessStep ==
    ASSUME Q!TypeOK, NEW i \in Jobs,
           \/ \E v \in Workers, j \in Jobs : Q!ClaimNext(v, j)
           \/ \E v \in Workers : Q!Heartbeat(v) \/ Q!Complete(v, FALSE)
           \/ \E j \in Jobs : Q!Enqueue(j, Prio, Device) \/ Q!Cancel(j) \/ Q!RequeueDead(j) \/ Q!Expire(j)
           \/ UNCHANGED queueVars
    PROVE  Harmless(i)
<1>0. job \in [Jobs -> Q!Row] /\ held \in [Workers -> Q!Claim \cup {Q!NoClaim}]
  BY DEF Q!TypeOK
<1>1. ASSUME NEW v \in Workers, NEW j \in Jobs, Q!ClaimNext(v, j) PROVE Harmless(i)
  <2>1. PICK r : r = [job[j] EXCEPT !.status = "running", !.worker = v, !.token = @ + 1,
                                    !.beat = "fresh", !.attempts = @ + 1]
    OBVIOUS
  <2>2. job' = [job EXCEPT ![j] = r]
    BY <1>0, <1>1, <2>1 DEF Q!ClaimNext
  <2>3. r.status = "running"
    BY <1>0, <2>1 DEF Q!Row
  <2> QED
    BY <1>0, <2>2, <2>3 DEF Harmless
<1>2. ASSUME NEW v \in Workers, Q!Heartbeat(v) PROVE Harmless(i)
  BY <1>0, <1>2 DEF Harmless, Q!Heartbeat, Q!Row
<1>3. ASSUME NEW v \in Workers, Q!Complete(v, FALSE) PROVE Harmless(i)
  <2>1. job' = job \/ job' = [job EXCEPT ![held[v].job].status = "failed"]
    BY <1>3 DEF Q!Complete, Q!Outcome
  <2> QED
    BY <1>0, <2>1 DEF Harmless, Q!Row
<1>4. ASSUME NEW j \in Jobs, Q!Enqueue(j, Prio, Device) PROVE Harmless(i)
  BY <1>0, <1>4 DEF Harmless, Q!Enqueue, Q!NoRow
<1>5. ASSUME NEW j \in Jobs, Q!Cancel(j) PROVE Harmless(i)
  BY <1>0, <1>5 DEF Harmless, Q!Cancel, Q!Row
<1>6. ASSUME NEW j \in Jobs, Q!RequeueDead(j) PROVE Harmless(i)
  BY <1>0, <1>6, ZenonT(20) DEF Harmless, Q!RequeueDead, Q!Row
<1>7. ASSUME NEW j \in Jobs, Q!Expire(j) PROVE Harmless(i)
  BY <1>0, <1>7 DEF Harmless, Q!Expire, Q!Row
<1>8. ASSUME UNCHANGED queueVars PROVE Harmless(i)
  BY <1>8 DEF Harmless, queueVars
<1> QED
  BY <1>1, <1>2, <1>3, <1>4, <1>5, <1>6, <1>7, <1>8

\* Nobody comes to a final report by this step.
NoNewReporter ==
    \A w \in Workers :
        /\ wk'[w] = wk[w] \/ wk'[w].pc \notin {"closing", "finish"}
        /\ Q!Owns(w)' /\ wk'[w].pc \in {"closing", "finish"} => Q!Owns(w) /\ held'[w] = held[w]

\* A step that writes no projection and takes no lock keeps the settlement.
LEMMA CalmStep ==
    ASSUME Settlement, UNCHANGED <<xrun, tainted>>, lock' \in {lock, None}, NoNewReporter,
           \A j \in Jobs : Harmless(j)
    PROVE  Settlement'
<1>1. OutcomesCopied'
  BY DEF Settlement, OutcomesCopied, NoNewReporter
<1>2. ASSUME NEW j \in Jobs \ tainted PROVE Agreed(j)'
  <2>1. \A w \in Workers : Reporting(w, j)' => Reporting(w, j) /\ wk'[w].copy = wk[w].copy
    BY DEF Reporting, NoNewReporter
  <2>2. lock' \in Workers \X {j} => lock \in Workers \X {j}
    BY ExecAssumption
  <2> QED
    BY <2>1, <2>2, AgreedKept DEF Settlement
<1> QED
  BY <1>1, <1>2 DEF Settlement

\* A projection by the owner of a job that is not being dead-lettered concerns a
\* running job; any other taints the run.
LEMMA ProjectStep ==
    ASSUME TypeOK, Control, Settlement, NEW w \in Workers, NEW status, Project(w, status),
           wk[w].pc \in Executing, UNCHANGED <<queueVars, lock>>,
           \A v \in Workers \ {w} : wk'[v] = wk[v],
           wk'[w].pc \in {"closing", "finish"} => wk'[w].copy = status /\ status \in Ended
    PROVE  Settlement'
<1>1. PICK k : k = HeldJob(w)
  OBVIOUS
<1>2. k \in Jobs /\ xrun \in [Jobs -> RunStatuses \cup {"absent"}] /\ held[w].job = k
  BY <1>1, HeldClaim DEF TypeOK, HeldJob
<1>3. /\ xrun' = [xrun EXCEPT ![k] = status]
      /\ tainted' = tainted \/ tainted' = tainted \cup {k}
      /\ k \notin tainted' => tainted' = tainted /\ Q!Owns(w) /\ (lock = None \/ lock[2] # k)
  BY <1>1 DEF Project
<1>4. OutcomesCopied'
  BY DEF Settlement, OutcomesCopied
<1>5. \A v \in Workers : Q!Owns(v)' <=> Q!Owns(v)
  BY DEF Q!Owns, Q!Busy, queueVars
<1>6. ASSUME NEW j \in Jobs \ tainted', j # k PROVE Agreed(j)'
  <2>1. j \notin tainted /\ Agreed(j)
    BY <1>3, <1>6 DEF Settlement
  <2>2. xrun'[j] = xrun[j]
    BY <1>2, <1>3, <1>6
  <2>3. Harmless(j)
    BY DEF Harmless, queueVars
  <2>4. \A v \in Workers : Reporting(v, j)' => Reporting(v, j) /\ wk'[v].copy = wk[v].copy
    BY <1>2, <1>5, <1>6 DEF Reporting, queueVars
  <2> QED
    BY <2>1, <2>2, <2>3, <2>4, AgreedKept
<1>7. ASSUME k \notin tainted' PROVE Agreed(k)'
  <2>1. Q!Owns(w) /\ job[k].status = "running" /\ job[k].worker = w
    BY <1>2, <1>3, <1>7 DEF Q!Owns
  <2>2. job' = job /\ held' = held /\ lock' = lock /\ xrun'[k] = status
    BY <1>2, <1>3 DEF queueVars
  <2>3. lock \notin Workers \X {k}
    BY <1>3, <1>7, ExecAssumption, <1>2
  <2>4. ASSUME NEW v \in Workers, Reporting(v, k)' PROVE xrun'[k] = wk'[v].copy
    <3>1. v = w
      BY <2>1, <2>2, <2>4 DEF Reporting, Q!Owns
    <3> QED
      BY <3>1, <2>2, <2>4 DEF Reporting
  <2> QED
    BY <2>1, <2>2, <2>3, <2>4 DEF Agreed
<1> QED
  BY <1>2, <1>4, <1>6, <1>7 DEF Settlement

\* A step after which the memory of no worker says more than before, and whose
\* changes to the queue are harmless, makes no reporter.
LEMMA NoReporterStep ==
    ASSUME Q!TypeOK,
           \/ \E v \in Workers, j \in Jobs : Q!ClaimNext(v, j) /\ wk'[v].pc \notin {"closing", "finish"}
           \/ \E v \in Workers : Q!Heartbeat(v) \/ Q!Complete(v, FALSE)
           \/ \E j \in Jobs : Q!Enqueue(j, Prio, Device) \/ Q!Cancel(j) \/ Q!RequeueDead(j) \/ Q!Expire(j)
           \/ UNCHANGED queueVars,
           \A w \in Workers : wk'[w] = wk[w] \/ wk'[w].pc \notin {"closing", "finish"}
    PROVE  NoNewReporter /\ \A j \in Jobs : Harmless(j)
<1>1. \A j \in Jobs : Harmless(j)
  BY HarmlessStep
<1>2. ASSUME NEW w \in Workers, Q!Owns(w)', wk'[w].pc \in {"closing", "finish"}
      PROVE  Q!Owns(w) /\ held'[w] = held[w]
  BY <1>2, OwnersKept
<1> QED
  BY <1>1, <1>2 DEF NoNewReporter

\* Every step keeps the settlement.
LEMMA SettlementStep ==
    ASSUME TypeOK, Control, HandOver, Settlement, [Next]_vars
    PROVE  Settlement'
<1>t. Q!TypeOK /\ job \in [Jobs -> Q!Row] /\ held \in [Workers -> Q!Claim \cup {Q!NoClaim}]
  BY DEF TypeOK, Q!TypeOK
<1>w. wk \in [Workers -> [pc : WorkerPcs, prior : {0, 1}, copy : RunStatuses \cup {"absent"}]]
  BY DEF TypeOK
<1>g. ASSUME NEW w \in Workers, NEW pc, Goto(w, pc), pc \notin {"closing", "finish"}
      PROVE  \A v \in Workers : wk'[v] = wk[v] \/ wk'[v].pc \notin {"closing", "finish"}
  BY <1>w, <1>g DEF Goto
<1>1. ASSUME NEW p \in Enqueuers, NEW s \in Specs, NEW j \in Jobs, EnqRead(p, s, j) PROVE Settlement'
  <2>1. UNCHANGED <<xrun, tainted, lock>>
    BY <1>1 DEF EnqRead, farVars
  <2>2. UNCHANGED queueVars
    BY <1>1 DEF EnqRead
  <2>3. \A v \in Workers : wk'[v] = wk[v] \/ wk'[v].pc \notin {"closing", "finish"}
    BY <1>1 DEF EnqRead
  <2> QED
    BY <1>t, <2>1, <2>2, <2>3, NoReporterStep, CalmStep
<1>2. ASSUME NEW p \in Procs, NEW j \in Jobs, DrainFail(p, j) PROVE Settlement'
  <2>1. UNCHANGED <<xrun, tainted, lock>>
    BY <1>2 DEF DrainFail, farVars
  <2>2. UNCHANGED queueVars
    BY <1>2 DEF DrainFail
  <2>3. \A v \in Workers : wk'[v] = wk[v] \/ wk'[v].pc \notin {"closing", "finish"}
    BY <1>2 DEF DrainFail
  <2> QED
    BY <1>t, <2>1, <2>2, <2>3, NoReporterStep, CalmStep
<1>3. ASSUME NEW p \in Procs, DrainMark(p) PROVE Settlement'
  <2>1. UNCHANGED <<xrun, tainted, lock>>
    BY <1>3 DEF DrainMark, farVars
  <2>2. UNCHANGED queueVars
    BY <1>3 DEF DrainMark
  <2>3. \A v \in Workers : wk'[v] = wk[v] \/ wk'[v].pc \notin {"closing", "finish"}
    BY <1>3 DEF DrainMark
  <2> QED
    BY <1>t, <2>1, <2>2, <2>3, NoReporterStep, CalmStep
<1>4. ASSUME NEW p \in Enqueuers, EnqDrain(p) PROVE Settlement'
  <2>1. UNCHANGED <<xrun, tainted, lock>>
    BY <1>4 DEF EnqDrain, farVars
  <2>2. UNCHANGED queueVars
    BY <1>4 DEF EnqDrain
  <2>3. \A v \in Workers : wk'[v] = wk[v] \/ wk'[v].pc \notin {"closing", "finish"}
    BY <1>4 DEF EnqDrain
  <2> QED
    BY <1>t, <2>1, <2>2, <2>3, NoReporterStep, CalmStep
<1>5. ASSUME NEW p \in Enqueuers, EnqCrash(p) PROVE Settlement'
  <2>1. UNCHANGED <<xrun, tainted, lock>>
    BY <1>5 DEF EnqCrash, farVars
  <2>2. UNCHANGED queueVars
    BY <1>5 DEF EnqCrash
  <2>3. \A v \in Workers : wk'[v] = wk[v] \/ wk'[v].pc \notin {"closing", "finish"}
    BY <1>5 DEF EnqCrash
  <2> QED
    BY <1>t, <2>1, <2>2, <2>3, NoReporterStep, CalmStep
<1>6. ASSUME NEW p \in Procs, NEW j \in Jobs, DrainEnqueue(p, j) PROVE Settlement'
  <2>1. UNCHANGED <<xrun, tainted, lock>>
    BY <1>6 DEF DrainEnqueue, farVars
  <2>2. Q!Enqueue(j, Prio, Device) \/ UNCHANGED queueVars
    BY <1>6 DEF DrainEnqueue
  <2>3. \A v \in Workers : wk'[v] = wk[v] \/ wk'[v].pc \notin {"closing", "finish"}
    BY <1>6 DEF DrainEnqueue
  <2> QED
    BY <1>t, <2>1, <2>2, <2>3, NoReporterStep, CalmStep
<1>7. ASSUME NEW p \in Enqueuers, EnqReturn(p) PROVE Settlement'
  <2>1. UNCHANGED <<xrun, tainted, lock>>
    BY <1>7 DEF EnqReturn, farVars
  <2>2. (\E j \in Jobs : Q!Enqueue(j, Prio, Device)) \/ UNCHANGED queueVars
    BY <1>7 DEF EnqReturn, Control
  <2>3. \A v \in Workers : wk'[v] = wk[v] \/ wk'[v].pc \notin {"closing", "finish"}
    BY <1>7 DEF EnqReturn
  <2> QED
    BY <1>t, <2>1, <2>2, <2>3, NoReporterStep, CalmStep
<1>8. ASSUME NEW w \in Workers, WorkerStart(w) PROVE Settlement'
  <2>1. UNCHANGED <<xrun, tainted, lock>>
    BY <1>8 DEF WorkerStart, farVars
  <2>2. UNCHANGED queueVars
    BY <1>8 DEF WorkerStart
  <2>3. \A v \in Workers : wk'[v] = wk[v] \/ wk'[v].pc \notin {"closing", "finish"}
    BY <1>8, <1>g DEF WorkerStart
  <2> QED
    BY <1>t, <2>1, <2>2, <2>3, NoReporterStep, CalmStep
<1>9. ASSUME NEW w \in Workers, WorkerDrained(w) PROVE Settlement'
  <2>1. UNCHANGED <<xrun, tainted, lock>>
    BY <1>9 DEF WorkerDrained, farVars
  <2>2. UNCHANGED queueVars
    BY <1>9 DEF WorkerDrained
  <2>3. \A v \in Workers : wk'[v] = wk[v] \/ wk'[v].pc \notin {"closing", "finish"}
    BY <1>9, <1>g DEF WorkerDrained
  <2> QED
    BY <1>t, <2>1, <2>2, <2>3, NoReporterStep, CalmStep
<1>10. ASSUME NEW w \in Workers, WorkerExit(w) PROVE Settlement'
  <2>1. UNCHANGED <<xrun, tainted, lock>>
    BY <1>10 DEF WorkerExit, farVars
  <2>2. UNCHANGED queueVars
    BY <1>10 DEF WorkerExit
  <2>3. \A v \in Workers : wk'[v] = wk[v] \/ wk'[v].pc \notin {"closing", "finish"}
    BY <1>10, <1>g DEF WorkerExit
  <2> QED
    BY <1>t, <2>1, <2>2, <2>3, NoReporterStep, CalmStep
<1>11. ASSUME NEW w \in Workers, ExecTrain(w) PROVE Settlement'
  <2>1. UNCHANGED <<xrun, tainted, lock>>
    BY <1>11 DEF ExecTrain, farVars
  <2>2. UNCHANGED queueVars
    BY <1>11 DEF ExecTrain
  <2>3. \A v \in Workers : wk'[v] = wk[v] \/ wk'[v].pc \notin {"closing", "finish"}
    BY <1>11, <1>g DEF ExecTrain
  <2> QED
    BY <1>t, <2>1, <2>2, <2>3, NoReporterStep, CalmStep
<1>12. ASSUME NEW w \in Workers, ExecReport(w) PROVE Settlement'
  <2>1. UNCHANGED <<xrun, tainted, lock>>
    BY <1>12 DEF ExecReport, farVars
  <2>2. UNCHANGED queueVars
    BY <1>12 DEF ExecReport
  <2>3. \A v \in Workers : wk'[v] = wk[v] \/ wk'[v].pc \notin {"closing", "finish"}
    BY <1>12, <1>g DEF ExecReport
  <2> QED
    BY <1>t, <2>1, <2>2, <2>3, NoReporterStep, CalmStep
<1>13. ASSUME NEW w \in Workers, ExecFeedback(w) PROVE Settlement'
  <2>1. UNCHANGED <<xrun, tainted, lock>>
    BY <1>13 DEF ExecFeedback, farVars
  <2>2. UNCHANGED queueVars
    BY <1>13 DEF ExecFeedback
  <2>3. \A v \in Workers : wk'[v] = wk[v] \/ wk'[v].pc \notin {"closing", "finish"}
    BY <1>13, <1>w DEF ExecFeedback, NoWork
  <2> QED
    BY <1>t, <2>1, <2>2, <2>3, NoReporterStep, CalmStep
<1>14. ASSUME NEW w \in Workers, WorkerRefuse(w) PROVE Settlement'
  <2>1. UNCHANGED <<xrun, tainted, lock>>
    BY <1>14 DEF WorkerRefuse, farVars
  <2>2. Q!Complete(w, FALSE)
    BY <1>14 DEF WorkerRefuse
  <2>3. \A v \in Workers : wk'[v] = wk[v] \/ wk'[v].pc \notin {"closing", "finish"}
    BY <1>14, <1>g DEF WorkerRefuse
  <2> QED
    BY <1>t, <2>1, <2>2, <2>3, NoReporterStep, CalmStep
<1>15. ASSUME NEW w \in Workers, WorkerHeartbeat(w) PROVE Settlement'
  <2>1. UNCHANGED <<xrun, tainted, lock>>
    BY <1>15 DEF WorkerHeartbeat, farVars
  <2>2. Q!Heartbeat(w)
    BY <1>15 DEF WorkerHeartbeat
  <2>3. \A v \in Workers : wk'[v] = wk[v] \/ wk'[v].pc \notin {"closing", "finish"}
    BY <1>15 DEF WorkerHeartbeat
  <2> QED
    BY <1>t, <2>1, <2>2, <2>3, NoReporterStep, CalmStep
<1>16. ASSUME NEW j \in Jobs, OperatorCancel(j) PROVE Settlement'
  <2>1. UNCHANGED <<xrun, tainted, lock>>
    BY <1>16 DEF OperatorCancel, farVars
  <2>2. Q!Cancel(j)
    BY <1>16 DEF OperatorCancel
  <2>3. \A v \in Workers : wk'[v] = wk[v] \/ wk'[v].pc \notin {"closing", "finish"}
    BY <1>16 DEF OperatorCancel
  <2> QED
    BY <1>t, <2>1, <2>2, <2>3, NoReporterStep, CalmStep
<1>17. ASSUME NEW j \in Jobs, OperatorRequeue(j) PROVE Settlement'
  <2>1. UNCHANGED <<xrun, tainted, lock>>
    BY <1>17 DEF OperatorRequeue, farVars
  <2>2. Q!RequeueDead(j)
    BY <1>17 DEF OperatorRequeue
  <2>3. \A v \in Workers : wk'[v] = wk[v] \/ wk'[v].pc \notin {"closing", "finish"}
    BY <1>17 DEF OperatorRequeue
  <2> QED
    BY <1>t, <2>1, <2>2, <2>3, NoReporterStep, CalmStep
<1>18. ASSUME NEW j \in Jobs, HeartbeatExpires(j) PROVE Settlement'
  <2>1. UNCHANGED <<xrun, tainted, lock>>
    BY <1>18 DEF HeartbeatExpires, farVars
  <2>2. Q!Expire(j)
    BY <1>18 DEF HeartbeatExpires
  <2>3. \A v \in Workers : wk'[v] = wk[v] \/ wk'[v].pc \notin {"closing", "finish"}
    BY <1>18 DEF HeartbeatExpires
  <2> QED
    BY <1>t, <2>1, <2>2, <2>3, NoReporterStep, CalmStep
<1>19. ASSUME NEW w \in Workers, NEW j \in Jobs, WorkerClaim(w, j) PROVE Settlement'
  <2>1. UNCHANGED <<xrun, tainted, lock>>
    BY <1>19 DEF WorkerClaim, farVars
  <2>2. Q!ClaimNext(w, j) /\ wk'[w].pc \notin {"closing", "finish"}
    BY <1>19, <1>w DEF WorkerClaim, Goto
  <2>3. \A v \in Workers : wk'[v] = wk[v] \/ wk'[v].pc \notin {"closing", "finish"}
    BY <1>19, <1>g DEF WorkerClaim
  <2> QED
    BY <1>t, <2>1, <2>2, <2>3, NoReporterStep, CalmStep
<1>20. ASSUME UNCHANGED vars PROVE Settlement'
  <2>1. UNCHANGED <<xrun, tainted, lock>> /\ UNCHANGED queueVars /\ wk' = wk
    BY <1>20 DEF vars, queueVars
  <2> QED
    BY <1>t, <2>1, NoReporterStep, CalmStep
<1>21. ASSUME NEW w \in Workers, WorkerCrash(w) PROVE Settlement'
  <2>1. UNCHANGED <<xrun, tainted>> /\ lock' \in {lock, None} /\ job' = job
    BY <1>21 DEF WorkerCrash, farVars
  <2>2. wk'[w].pc = "off" /\ \A v \in Workers \ {w} : wk'[v] = wk[v] /\ held'[v] = held[v]
    BY <1>t, <1>w, <1>21 DEF WorkerCrash, NoWork
  <2>3. NoNewReporter
    BY <2>1, <2>2 DEF NoNewReporter, Q!Owns, Q!Busy
  <2>4. \A j \in Jobs : Harmless(j)
    BY <2>1 DEF Harmless
  <2> QED
    BY <2>1, <2>3, <2>4, CalmStep
<1>22. ASSUME NEW w \in Workers, ExecProject(w) PROVE Settlement'
  <2>1. Project(w, "queued") /\ wk[w].pc \in Executing /\ UNCHANGED <<queueVars, lock>>
    BY <1>22 DEF ExecProject, Executing
  <2>2. wk'[w].pc \notin {"closing", "finish"} /\ \A v \in Workers \ {w} : wk'[v] = wk[v]
    BY <1>w, <1>22 DEF ExecProject, NoWork
  <2> QED
    BY <2>1, <2>2, ProjectStep
<1>23. ASSUME NEW w \in Workers, ExecStart(w) PROVE Settlement'
  <2>1. Project(w, "running") /\ wk[w].pc \in Executing /\ UNCHANGED <<queueVars, lock>>
    BY <1>23 DEF ExecStart, Executing
  <2>2. wk'[w].pc \notin {"closing", "finish"} /\ \A v \in Workers \ {w} : wk'[v] = wk[v]
    BY <1>w, <1>23 DEF ExecStart, Goto
  <2> QED
    BY <2>1, <2>2, ProjectStep
<1>24. ASSUME NEW w \in Workers, NEW status \in RunStatuses, ExecEnd(w, status) PROVE Settlement'
  <2>1. /\ Project(w, status) /\ wk[w].pc \in Executing /\ UNCHANGED <<queueVars, lock>>
        /\ status \in Ended
    BY <1>24 DEF ExecEnd, Executing, Ended
  <2>2. wk'[w].copy = status /\ \A v \in Workers \ {w} : wk'[v] = wk[v]
    BY <1>w, <1>24 DEF ExecEnd, NoWork
  <2> QED
    BY <2>1, <2>2, ProjectStep
<1>25. ASSUME NEW w \in Workers, ExecClose(w) PROVE Settlement'
  <2>1. /\ wk[w].pc = "closing" /\ UNCHANGED <<queueVars, lock>>
        /\ Project(w, wk[w].copy) \/ UNCHANGED <<xrun, tainted>>
    BY <1>25 DEF ExecClose
  <2>2. /\ wk'[w].copy = wk[w].copy /\ \A v \in Workers \ {w} : wk'[v] = wk[v]
    BY <1>w, <1>25 DEF ExecClose, Goto
  <2>3. wk[w].copy \in Ended
    BY <2>1 DEF Settlement, OutcomesCopied
  <2>4. CASE Project(w, wk[w].copy)
    BY <2>1, <2>2, <2>3, <2>4, ProjectStep DEF Executing
  <2>5. CASE UNCHANGED <<xrun, tainted>>
    <3>1. OutcomesCopied'
      BY <2>2, <2>3 DEF Settlement, OutcomesCopied
    <3>2. ASSUME NEW j \in Jobs \ tainted' PROVE Agreed(j)'
      <4>1. Agreed(j) /\ Harmless(j) /\ xrun'[j] = xrun[j]
        BY <2>1, <2>5 DEF Settlement, Harmless, queueVars
      <4>2. \A v \in Workers : Q!Owns(v)' <=> Q!Owns(v)
        BY <2>1 DEF Q!Owns, Q!Busy, queueVars
      <4>3. \A v \in Workers : Reporting(v, j)' => Reporting(v, j) /\ wk'[v].copy = wk[v].copy
        BY <2>1, <2>2, <4>2 DEF Reporting, queueVars
      <4> QED
        BY <2>1, <4>1, <4>3, AgreedKept
    <3> QED
      BY <3>1, <3>2 DEF Settlement
  <2> QED
    BY <2>1, <2>4, <2>5
<1>26. ASSUME NEW p \in Enqueuers, EnqWrite(p) PROVE Settlement'
  <2>1. PICK k : k = enq[p].run
    OBVIOUS
  <2>2. k \in Jobs /\ xrun \in [Jobs -> RunStatuses \cup {"absent"}]
    BY <1>26, <2>1 DEF EnqWrite, Control, TypeOK
  <2>3. UNCHANGED <<queueVars, lock, wk>>
    BY <1>26 DEF EnqWrite
  <2>4. /\ \A j \in Jobs \ {k} : xrun'[j] = xrun[j]
        /\ tainted' = tainted \/ tainted' = tainted \cup {k}
        /\ k \notin tainted' /\ xrun[k] # "absent" => xrun'[k] = xrun[k]
        /\ k \notin tainted' /\ xrun[k] = "absent" => xrun'[k] = "queued"
    BY <1>26, <2>1, <2>2 DEF EnqWrite
  <2>5. OutcomesCopied'
    BY <2>3 DEF Settlement, OutcomesCopied
  <2>6. \A v \in Workers : Q!Owns(v)' <=> Q!Owns(v)
    BY <2>3 DEF Q!Owns, Q!Busy, queueVars
  <2>7. \A j \in Jobs, v \in Workers : Reporting(v, j)' => Reporting(v, j) /\ wk'[v].copy = wk[v].copy
    BY <2>3, <2>6 DEF Reporting, queueVars
  <2>8. ASSUME NEW j \in Jobs \ tainted' PROVE Agreed(j)'
    <3>1. Agreed(j) /\ Harmless(j)
      BY <2>3, <2>4 DEF Settlement, Harmless, queueVars
    <3>2. CASE xrun'[j] = xrun[j]
      BY <2>3, <2>7, <3>1, <3>2, AgreedKept
    <3>3. CASE xrun[j] = "absent" /\ xrun'[j] = "queued"
      <4>1. job'[j].status = "absent"
        BY <2>3, <3>3 DEF HandOver, NoLostIntent, queueVars
      <4>2. lock' \notin Workers \X {j}
        BY <2>3, <3>1, <3>3 DEF Agreed, Ended
      <4>3. \A v \in Workers : ~Reporting(v, j)'
        BY <2>7, <3>1, <3>3 DEF Agreed, Settlement, OutcomesCopied, Reporting, Ended
      <4> QED
        BY <3>3, <4>1, <4>2, <4>3 DEF Agreed
    <3> QED
      BY <2>2, <2>4, <3>2, <3>3
  <2> QED
    BY <2>5, <2>8 DEF Settlement
<1>27. ASSUME NEW w \in Workers, NEW j \in Jobs, DeadLetterProject(w, j) PROVE Settlement'
  <2>1. /\ UNCHANGED <<queueVars, tainted>> /\ lock' = <<w, j>>
        /\ job[j].status \in {"queued", "running"}
    BY <1>27 DEF DeadLetterProject, Q!Picked, Q!Claimable
  <2>2. xrun \in [Jobs -> RunStatuses \cup {"absent"}] /\ xrun[j] # "absent"
    BY <2>1 DEF TypeOK, HandOver, NoLostIntent
  <2>3. /\ \A i \in Jobs \ {j} : xrun'[i] = xrun[i]
        /\ xrun'[j] \in Ended /\ (xrun[j] \in Ended => xrun'[j] = xrun[j])
    BY <1>27, <2>2 DEF DeadLetterProject, Ended, RunStatuses
  <2>4. \A v \in Workers : wk'[v] = wk[v] \/ wk'[v].pc \notin {"closing", "finish"}
    BY <1>27, <1>g DEF DeadLetterProject
  <2>5. \A v \in Workers : Q!Owns(v)' <=> Q!Owns(v)
    BY <2>1 DEF Q!Owns, Q!Busy, queueVars
  <2>6. \A i \in Jobs, v \in Workers : Reporting(v, i)' => Reporting(v, i) /\ wk'[v].copy = wk[v].copy
    BY <2>1, <2>4, <2>5 DEF Reporting, queueVars
  <2>7. OutcomesCopied'
    BY <2>4 DEF Settlement, OutcomesCopied
  <2>8. ASSUME NEW i \in Jobs \ tainted', i # j PROVE Agreed(i)'
    <3>1. Agreed(i) /\ Harmless(i) /\ xrun'[i] = xrun[i]
      BY <2>1, <2>3, <2>8 DEF Settlement, Harmless, queueVars
    <3>2. lock' \notin Workers \X {i}
      BY <2>1, <2>8
    <3> QED
      BY <2>6, <3>1, <3>2, AgreedKept
  <2>9. ASSUME j \notin tainted' PROVE Agreed(j)'
    <3>1. Agreed(j)
      BY <2>1, <2>9 DEF Settlement
    <3>2. \A v \in Workers : Reporting(v, j)' => xrun'[j] = wk'[v].copy
      BY <2>3, <2>6, <3>1 DEF Agreed, Settlement, OutcomesCopied, Reporting
    <3> QED
      BY <2>1, <2>3, <3>2 DEF Agreed, Ended, queueVars
  <2> QED
    BY <2>7, <2>8, <2>9 DEF Settlement
<1>28. ASSUME NEW w \in Workers, DeadLetterCommit(w) PROVE Settlement'
  <2>1. PICK k \in Jobs : lock = <<w, k>>
    BY <1>28 DEF DeadLetterCommit, Control
  <2>2. Q!DeadLetter(w, k) /\ lock' = None /\ UNCHANGED <<xrun, tainted>>
    BY <1>28, <2>1 DEF DeadLetterCommit, farVars
  <2>3. job'[k].status = "dead" /\ \A i \in Jobs \ {k} : job'[i] = job[i]
    BY <1>t, <2>2 DEF Q!DeadLetter, Q!Row
  <2>4. \A v \in Workers : wk'[v] = wk[v] \/ wk'[v].pc \notin {"closing", "finish"}
    BY <1>28, <1>g DEF DeadLetterCommit
  <2>5. \A v \in Workers : Q!Owns(v)' => Q!Owns(v) /\ held'[v] = held[v]
    BY <1>t, <2>2, OwnersKept
  <2>6. \A i \in Jobs, v \in Workers : Reporting(v, i)' => Reporting(v, i) /\ wk'[v].copy = wk[v].copy
    BY <2>4, <2>5 DEF Reporting
  <2>7. OutcomesCopied'
    BY <2>4 DEF Settlement, OutcomesCopied
  <2>8. ASSUME NEW i \in Jobs \ tainted' PROVE Agreed(i)'
    <3>1. Agreed(i) /\ xrun'[i] = xrun[i] /\ lock' \notin Workers \X {i}
      BY <2>2, ExecAssumption DEF Settlement
    <3>2. CASE i # k
      BY <2>3, <2>6, <3>1, <3>2, AgreedKept DEF Harmless
    <3>3. CASE i = k
      <4>1. xrun[i] \in Ended
        BY <2>1, <3>1, <3>3 DEF Agreed
      <4>2. \A v \in Workers : Reporting(v, i)' => xrun'[i] = wk'[v].copy
        BY <2>6, <3>1 DEF Agreed
      <4> QED
        BY <2>3, <3>1, <3>3, <4>1, <4>2 DEF Agreed
    <3> QED
      BY <3>2, <3>3
  <2> QED
    BY <2>7, <2>8 DEF Settlement
<1>29. ASSUME NEW w \in Workers, WorkerComplete(w) PROVE Settlement'
  <2>1. /\ Q!Complete(w, wk[w].copy = "completed") /\ wk[w].pc = "finish"
        /\ UNCHANGED <<xrun, tainted, lock>>
    BY <1>29 DEF WorkerComplete, farVars
  <2>2. wk'[w].pc = "poll" /\ \A v \in Workers \ {w} : wk'[v] = wk[v]
    BY <1>w, <1>29 DEF WorkerComplete, NoWork
  <2>3. \A v \in Workers : Q!Owns(v)' => Q!Owns(v) /\ held'[v] = held[v]
    BY <1>t, <2>1, OwnersKept
  <2>4. \A i \in Jobs, v \in Workers : Reporting(v, i)' => Reporting(v, i) /\ wk'[v].copy = wk[v].copy
    BY <2>2, <2>3 DEF Reporting
  <2>5. OutcomesCopied'
    BY <2>2 DEF Settlement, OutcomesCopied
  <2>6. PICK k : k = held[w].job
    OBVIOUS
  <2>7. k \in Jobs
    BY <2>1, <2>6, HeldClaim DEF Executing, HeldJob
  <2>8. PICK o : o = IF wk[w].copy = "completed" THEN "completed" ELSE "failed"
    OBVIOUS
  <2>9. job' = job \/ (Q!Owns(w) /\ job' = [job EXCEPT ![k].status = o])
    BY <2>1, <2>6, <2>8 DEF Q!Complete, Q!Outcome
  <2>10. ASSUME NEW i \in Jobs \ tainted' PROVE Agreed(i)'
    <3>1. Agreed(i) /\ xrun'[i] = xrun[i]
      BY <2>1 DEF Settlement
    <3>2. CASE job'[i].status = job[i].status
      BY <2>1, <2>4, <3>1, <3>2, AgreedKept DEF Harmless
    <3>3. CASE job'[i].status # job[i].status
      <4>1. Q!Owns(w) /\ i = k /\ job'[i].status = o
        BY <1>t, <2>7, <2>9, <3>3 DEF Q!Row
      <4>2. CASE wk[w].copy # "completed"
        <5>1. Harmless(i)
          BY <2>8, <4>1, <4>2 DEF Harmless
        <5> QED
          BY <2>1, <2>4, <3>1, <5>1, AgreedKept
      <4>3. CASE wk[w].copy = "completed"
        <5>1. Reporting(w, i)
          BY <2>1, <2>6, <4>1 DEF Reporting
        <5>2. xrun'[i] = "completed" /\ job'[i].status = "completed"
          BY <2>8, <3>1, <4>1, <4>3, <5>1 DEF Agreed
        <5>3. lock' = lock /\ \A v \in Workers : Reporting(v, i)' => xrun'[i] = wk'[v].copy
          BY <2>1, <2>4, <3>1 DEF Agreed
        <5> QED
          BY <3>1, <5>2, <5>3 DEF Agreed, Ended
      <4> QED
        BY <4>2, <4>3
    <3> QED
      BY <3>2, <3>3
  <2> QED
    BY <2>5, <2>10 DEF Settlement
<1> QED
  BY <1>1, <1>2, <1>3, <1>4, <1>5, <1>6, <1>7, <1>8, <1>9, <1>10, <1>11, <1>12, <1>13,
     <1>14, <1>15, <1>16, <1>17, <1>18, <1>19, <1>20, <1>21, <1>22, <1>23, <1>24,
     <1>25, <1>26, <1>27, <1>28, <1>29
     DEF Next, EnqProceed, Drain, WorkerProceed, PollStep, Execute, Procs

\* The two stores agree on how every experiment ended to which no stale copy was
\* written: the projection precedes the completion, onDead runs inside the
\* dead-letter transaction, and a crash anywhere between them leaves neither a
\* completed job without its run nor a running run without a job to run it.
THEOREM StoresCorrect == Spec => []StoresAgree
<1>1. Init => HandOver /\ Settlement
  <2> SUFFICES ASSUME Init PROVE HandOver /\ Settlement
    OBVIOUS
  <2>1. \A j \in Jobs : job[j].status = "absent" /\ outbox[j] = "absent" /\ xrun[j] = "absent"
    BY DEF Init, Q!Init, Q!NoRow
  <2>2. \A p \in Procs : drain[p].todo = {} /\ drain[p].mark = None
    BY DEF Init, NoDrain
  <2>3. \A p \in Enqueuers : enq[p].pc = "idle"
    BY DEF Init, NoEnq
  <2>4. \A w \in Workers : wk[w].pc = "off"
    BY DEF Init, NoWork
  <2>5. lock = None
    BY DEF Init
  <2>6. HandOver
    BY <2>1, <2>2, <2>3, QueueAssumption
       DEF HandOver, NoLostIntent, IntentHasRun, DrainsKnown, Recorded
  <2>7. Settlement
    BY <2>1, <2>4, <2>5, ExecAssumption DEF Settlement, OutcomesCopied, Agreed, Reporting
  <2> QED
    BY <2>6, <2>7
<1>2. TypeOK /\ Control /\ HandOver /\ Settlement /\ [Next]_vars => HandOver' /\ Settlement'
  BY HandOverStep, SettlementStep
<1>3. Settlement => StoresAgree
  BY DEF Settlement, Agreed, Ended, StoresAgree
<1> QED
  BY <1>1, <1>2, <1>3, Inductive, PTL DEF Spec
=============================================================================
