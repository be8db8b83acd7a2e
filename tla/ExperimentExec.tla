--------------------------- MODULE ExperimentExec ---------------------------
(***************************************************************************)
(* Experiments across the two stores: enqueueExperiment and the worker     *)
(* loop (src/src/experiment/scheduler.ts), the executor                    *)
(* (src/src/experiment/executor.ts) and the outbox of far.db               *)
(* (src/src/persistence/store.ts), run by separate CLI processes           *)
(* (src/src/cli/experiment.ts).                                            *)
(*                                                                         *)
(* far.db holds the experiment_run projection, the outbox and the reports; *)
(* the scheduler file holds the job rows of JobQueue.  No transaction      *)
(* spans both, so every hand-over is two steps with a possible crash in    *)
(* between.  Each database transaction is one action.  The experiment run  *)
(* j and its job share the identifier j (the intent id is a hash of it).   *)
(* All experiments here belong to one research run.                        *)
(***************************************************************************)
EXTENDS Integers, FiniteSets

CONSTANTS
    Jobs, Workers, Devices, Priorities, DeviceOf, MaxRunning,
    MaxAttempts, MaxRequeues, None,
    Enqueuers,       \* processes that run enqueueExperiment
    Specs,           \* experiment specs (a spec id with its hash)
    DatasetOf,       \* the dataset a spec analyses
    Prio, Device,    \* priority and device of an intent's payload
    MaxEnqueues      \* bound: enqueueExperiment calls

ASSUME QueueAssumption ==
    /\ IsFiniteSet(Jobs)
    /\ Priorities \subseteq Int
    /\ DeviceOf \in [Workers -> Devices]
    /\ MaxRunning \in [Workers -> Nat \ {0}]
    /\ MaxAttempts \in Nat \ {0}
    /\ MaxRequeues \in Nat
    /\ None \notin Workers \cup Jobs

ASSUME ExecAssumption ==
    /\ Enqueuers \cap Workers = {} /\ None \notin Workers \X Jobs
    /\ Prio \in Priorities /\ Device \in Devices
    /\ MaxEnqueues \in Nat

VARIABLES
    \* ---- far-scheduler.db and the claims of worker processes (JobQueue)
    job, held, requeues,
    lock,      \* the dead-lettering transaction that holds the write lock
    \* ---- far.db
    xrun,      \* status of the experiment_run projection
    specOf,    \* the spec an experiment run was created for
    outbox,    \* outbox row of an intent: absent, pending, drained
    reports,   \* stat_report objects
    feedback,  \* feedback objects of source 'experiment'
    \* ---- processes
    enq,       \* enqueuer: where it is, its spec, its run and the status it read
    wk,        \* worker: where it is, its view of prior reports, its final run copy
    drain,     \* any process: the outbox drain it is in
    enqueues,  \* bound counter
    \* ---- history
    tainted,   \* runs whose projection was written from a stale copy
    owed       \* runs enqueued and neither claimed nor canceled since

queueVars == <<job, held, requeues>>
farVars == <<xrun, specOf, outbox, reports, feedback>>
vars == <<job, held, requeues, lock, xrun, specOf, outbox, reports, feedback,
          enq, wk, drain, enqueues, tainted, owed>>

Q == INSTANCE JobQueue

Procs == Enqueuers \cup Workers
RunStatuses == {"queued", "running", "completed", "failed", "canceled"}

NoEnq == [pc |-> "idle", spec |-> None, run |-> None, copy |-> "absent"]
NoWork == [pc |-> "off", prior |-> 0, copy |-> "absent"]
NoDrain == [todo |-> {}, mark |-> None, drained |-> 0]

WorkerPcs == {"off", "drain", "poll", "dead", "claimed", "projected", "training",
              "trained", "reported", "fed", "closing", "finish"}

TypeOK ==
    /\ Q!TypeOK
    /\ lock \in (Workers \X Jobs) \cup {None}
    /\ xrun \in [Jobs -> RunStatuses \cup {"absent"}]
    /\ specOf \in [Jobs -> Specs \cup {None}]
    /\ outbox \in [Jobs -> {"absent", "pending", "drained"}]
    /\ reports \subseteq [run : Jobs, token : Nat, exploratory : {0, 1}]
    /\ feedback \subseteq [run : Jobs, token : Nat]
    /\ enq \in [Enqueuers -> [pc : {"idle", "recover", "write", "drain", "return"},
                              spec : Specs \cup {None}, run : Jobs \cup {None},
                              copy : RunStatuses \cup {"absent"}]]
    /\ wk \in [Workers -> [pc : WorkerPcs, prior : {0, 1}, copy : RunStatuses \cup {"absent"}]]
    /\ drain \in [Procs -> [todo : SUBSET Jobs, mark : Jobs \cup {None}, drained : {0, 1}]]
    /\ enqueues \in 0..MaxEnqueues
    /\ tainted \subseteq Jobs
    /\ owed \subseteq Jobs

Init ==
    /\ Q!Init
    /\ lock = None
    /\ xrun = [j \in Jobs |-> "absent"]
    /\ specOf = [j \in Jobs |-> None]
    /\ outbox = [j \in Jobs |-> "absent"]
    /\ reports = {}
    /\ feedback = {}
    /\ enq = [p \in Enqueuers |-> NoEnq]
    /\ wk = [w \in Workers |-> NoWork]
    /\ drain = [p \in Procs |-> NoDrain]
    /\ enqueues = 0
    /\ tainted = {}
    /\ owed = {}

\* BEGIN IMMEDIATE and single statements of the scheduler file wait for the
\* transaction that holds the lock.
SchedulerFree == lock = None

-----------------------------------------------------------------------------
(* The outbox drain (drainOutbox), part of every enqueue and worker start  *)

Pending == {j \in Jobs : outbox[j] = "pending"}
Draining(p) == drain[p].todo # {} \/ drain[p].mark # None

\* Mutation of DrainEnqueue: a failed enqueue falls through to the mark.
DrainEnqueueSkipped(p, j) ==
    /\ drain[p].mark = None
    /\ j \in drain[p].todo
    /\ drain' = [drain EXCEPT ![p].todo = @ \ {j}, ![p].mark = j]
    /\ UNCHANGED <<queueVars, lock, farVars, enq, wk, enqueues, tainted, owed>>

\* scheduler.enqueue for one pending intent: INSERT OR IGNORE.
DrainEnqueue(p, j) ==
    /\ drain[p].mark = None
    /\ j \in drain[p].todo
    /\ SchedulerFree
    /\ IF job[j].status = "absent" THEN Q!Enqueue(j, Prio, Device) ELSE UNCHANGED queueVars
    /\ drain' = [drain EXCEPT ![p].todo = @ \ {j}, ![p].mark = j]
    /\ UNCHANGED <<lock, farVars, enq, wk, enqueues, tainted, owed>>

\* scheduler.enqueue throws (the file stays locked past the timeout): the
\* intent is reported as failed and stays pending.
DrainFail(p, j) ==
    /\ drain[p].mark = None
    /\ j \in drain[p].todo
    /\ drain' = [drain EXCEPT ![p].todo = @ \ {j}]
    /\ UNCHANGED <<queueVars, lock, farVars, enq, wk, enqueues, tainted, owed>>

DrainMark(p) ==
    /\ drain[p].mark # None
    /\ outbox' = [outbox EXCEPT ![drain[p].mark] = "drained"]
    /\ drain' = [drain EXCEPT ![p].mark = None, ![p].drained = 1]
    /\ UNCHANGED <<queueVars, lock, xrun, specOf, reports, feedback, enq, wk, enqueues, tainted, owed>>

-----------------------------------------------------------------------------
(* enqueueExperiment *)

\* Runs of spec s that enqueueExperiment would reuse.
Reusable(s) == {j \in Jobs : specOf[j] = s /\ xrun[j] \in {"queued", "canceled"}}

\* Reads far.db: reuse a queued or canceled run of the spec, or a new id.
\* The run object it will write is fixed here.
EnqRead(p, s, j) ==
    /\ enq[p].pc = "idle"
    /\ enqueues < MaxEnqueues
    /\ IF Reusable(s) # {} THEN j \in Reusable(s)
       ELSE /\ specOf[j] = None
            /\ \A q \in Enqueuers : enq[q].run # j
    /\ enq' = [enq EXCEPT ![p] = [pc |-> "recover", spec |-> s, run |-> j, copy |-> xrun[j]]]
    /\ drain' = [drain EXCEPT ![p] = [NoDrain EXCEPT !.todo = Pending]]
    /\ enqueues' = enqueues + 1
    /\ owed' = owed \cup {j}
    /\ UNCHANGED <<queueVars, lock, farVars, wk, tainted>>

\* putObjectEventedOutboxed: run object, event and intent in one transaction.
EnqWrite(p) ==
    LET j == enq[p].run
        fresh == enq[p].copy = "absent"
    IN  /\ enq[p].pc = "recover"
        /\ ~Draining(p)
        /\ xrun' = [xrun EXCEPT ![j] = IF fresh THEN "queued" ELSE enq[p].copy]
        /\ specOf' = [specOf EXCEPT ![j] = enq[p].spec]
        /\ outbox' = [outbox EXCEPT ![j] = IF @ = "absent" THEN "pending" ELSE @]
        /\ tainted' = IF xrun[j] = enq[p].copy THEN tainted ELSE tainted \cup {j}
        /\ enq' = [enq EXCEPT ![p].pc = "write"]
        /\ UNCHANGED <<queueVars, lock, reports, feedback, wk, drain, enqueues, owed>>

\* The second drain reads the pending intents.
EnqDrain(p) ==
    /\ enq[p].pc = "write"
    /\ drain' = [drain EXCEPT ![p] = [NoDrain EXCEPT !.todo = Pending]]
    /\ enq' = [enq EXCEPT ![p].pc = "drain"]
    /\ UNCHANGED <<queueVars, lock, farVars, wk, enqueues, tainted, owed>>

\* Nothing drained: enqueue directly.  Otherwise the job is only looked up.
EnqReturn(p) ==
    /\ enq[p].pc = "drain"
    /\ ~Draining(p)
    /\ IF drain[p].drained = 0 /\ job[enq[p].run].status = "absent"
       THEN SchedulerFree /\ Q!Enqueue(enq[p].run, Prio, Device)
       ELSE UNCHANGED queueVars
    /\ enq' = [enq EXCEPT ![p] = NoEnq]
    /\ drain' = [drain EXCEPT ![p] = NoDrain]
    /\ UNCHANGED <<lock, farVars, wk, enqueues, tainted, owed>>

EnqCrash(p) ==
    /\ enq[p].pc # "idle"
    /\ enq' = [enq EXCEPT ![p] = NoEnq]
    /\ drain' = [drain EXCEPT ![p] = NoDrain]
    /\ owed' = IF enq[p].pc = "recover" THEN owed \ {enq[p].run} ELSE owed
    /\ UNCHANGED <<queueVars, lock, farVars, wk, enqueues, tainted>>

-----------------------------------------------------------------------------
(* runSchedulerWorker and executeExperiment *)

HeldJob(w) == held[w].job
Goto(w, pc) == wk' = [wk EXCEPT ![w].pc = pc]

\* The worker's write of the run projection: a whole-object put from its own
\* copy, not fenced by the job row.  It is stale when the worker no longer owns
\* the job, or is being dead-lettered at this moment.
Project(w, status) ==
    LET j == HeldJob(w)
        entitled == Q!Owns(w) /\ (lock = None \/ lock[2] # j)
    IN  /\ xrun' = [xrun EXCEPT ![j] = status]
        /\ tainted' = IF entitled THEN tainted ELSE tainted \cup {j}

\* Mutation of WorkerStart: no drain at worker start.
WorkerStartNoDrain(w) ==
    /\ wk[w].pc = "off"
    /\ Goto(w, "drain")
    /\ UNCHANGED <<queueVars, lock, farVars, enq, drain, enqueues, tainted, owed>>

\* A worker process starts and drains the outbox first.
WorkerStart(w) ==
    /\ wk[w].pc = "off"
    /\ Goto(w, "drain")
    /\ drain' = [drain EXCEPT ![w] = [NoDrain EXCEPT !.todo = Pending]]
    /\ UNCHANGED <<queueVars, lock, farVars, enq, enqueues, tainted, owed>>

WorkerDrained(w) ==
    /\ wk[w].pc = "drain"
    /\ ~Draining(w)
    /\ Goto(w, "poll")
    /\ drain' = [drain EXCEPT ![w] = NoDrain]
    /\ UNCHANGED <<queueVars, lock, farVars, enq, enqueues, tainted, owed>>

WorkerClaim(w, j) ==
    /\ wk[w].pc = "poll"
    /\ SchedulerFree
    /\ Q!ClaimNext(w, j)
    /\ Goto(w, "claimed")
    /\ owed' = owed \ {j}
    /\ UNCHANGED <<lock, farVars, enq, drain, enqueues, tainted>>

\* claimNext returns null, or maxJobs is reached: the loop ends.
WorkerExit(w) ==
    /\ wk[w].pc = "poll"
    /\ Goto(w, "off")
    /\ UNCHANGED <<queueVars, lock, farVars, enq, drain, enqueues, tainted, owed>>

\* Mutation of DeadLetterProject: no onDead hook.
DeadLetterProjectSilent(w, j) ==
    /\ wk[w].pc = "poll"
    /\ SchedulerFree
    /\ Q!Picked(w, j)
    /\ job[j].attempts >= MaxAttempts
    /\ lock' = <<w, j>>
    /\ Goto(w, "dead")
    /\ UNCHANGED <<queueVars, farVars, enq, drain, enqueues, tainted, owed>>

\* Dead-lettering: onDead writes far.db while the scheduler transaction is
\* open ...
DeadLetterProject(w, j) ==
    /\ wk[w].pc = "poll"
    /\ SchedulerFree
    /\ Q!Picked(w, j)
    /\ job[j].attempts >= MaxAttempts
    /\ lock' = <<w, j>>
    /\ xrun' = [xrun EXCEPT ![j] = IF @ \in {"queued", "running"} THEN "failed" ELSE @]
    /\ Goto(w, "dead")
    /\ UNCHANGED <<queueVars, specOf, outbox, reports, feedback, enq, drain, enqueues, tainted, owed>>

\* ... and then the scheduler commits.  The null claim ends the worker.
DeadLetterCommit(w) ==
    /\ wk[w].pc = "dead"
    /\ Q!DeadLetter(w, lock[2])
    /\ lock' = None
    /\ Goto(w, "off")
    /\ UNCHANGED <<farVars, enq, drain, enqueues, tainted, owed>>

\* The spec is missing, fails validation in this process, or has drifted: the
\* executor throws before it writes anything, and the job is failed.
WorkerRefuse(w) ==
    /\ wk[w].pc = "claimed"
    /\ SchedulerFree
    /\ Q!Complete(w, FALSE)
    /\ Goto(w, "poll")
    /\ UNCHANGED <<lock, farVars, enq, drain, enqueues, tainted, owed>>

\* executeExperiment reads the prior reports of the research run and resets
\* the projection to queued.
ExecProject(w) ==
    /\ wk[w].pc = "claimed"
    /\ Project(w, "queued")
    /\ wk' = [wk EXCEPT ![w] = [NoWork EXCEPT !.pc = "projected",
                                               !.prior = IF reports = {} THEN 0 ELSE 1]]
    /\ UNCHANGED <<queueVars, lock, specOf, outbox, reports, feedback, enq, drain, enqueues, owed>>

CancelSeen(w) == job[HeldJob(w)].cancel = 1

\* Dataset acquired, sidecar warm, not canceled: the run is started.
ExecStart(w) ==
    /\ wk[w].pc = "projected"
    /\ ~CancelSeen(w)
    /\ Project(w, "running")
    /\ Goto(w, "training")
    /\ UNCHANGED <<queueVars, lock, specOf, outbox, reports, feedback, enq, drain, enqueues, owed>>

\* Every model trained or replayed, the result set stored.
ExecTrain(w) ==
    /\ wk[w].pc = "training"
    /\ ~CancelSeen(w)
    /\ Goto(w, "trained")
    /\ UNCHANGED <<queueVars, lock, farVars, enq, drain, enqueues, tainted, owed>>

\* computeStatReports: exploratory when any report of the research run was
\* there at the start of the execution.
ExecReport(w) ==
    /\ wk[w].pc = "trained"
    /\ reports' = reports \cup {[run |-> HeldJob(w), token |-> held[w].token,
                                 exploratory |-> wk[w].prior]}
    /\ Goto(w, "reported")
    /\ UNCHANGED <<queueVars, lock, xrun, specOf, outbox, feedback, enq, drain, enqueues, tainted, owed>>

\* buildFeedback: confirmatory reports only.
ExecFeedback(w) ==
    /\ wk[w].pc = "reported"
    /\ feedback' = IF wk[w].prior = 0
                   THEN feedback \cup {[run |-> HeldJob(w), token |-> held[w].token]}
                   ELSE feedback
    /\ wk' = [wk EXCEPT ![w] = [NoWork EXCEPT !.pc = "fed"]]
    /\ UNCHANGED <<queueVars, lock, xrun, specOf, outbox, reports, enq, drain, enqueues, tainted, owed>>

\* The three ways an execution ends in far.db: completed, failed (any throw
\* after the projection), canceled at a poll point.
ExecEnd(w, status) ==
    /\ \/ status = "completed" /\ wk[w].pc = "fed"
       \/ status = "failed" /\ wk[w].pc \in {"projected", "training", "trained", "reported", "fed"}
       \/ status = "canceled" /\ wk[w].pc \in {"projected", "training"} /\ CancelSeen(w)
    /\ Project(w, status)
    /\ wk' = [wk EXCEPT ![w] = [NoWork EXCEPT !.pc = "closing", !.copy = status]]
    /\ UNCHANGED <<queueVars, lock, specOf, outbox, reports, feedback, enq, drain, enqueues, owed>>

\* The finally block writes the run copy again if the sidecar left a log.
ExecClose(w) ==
    /\ wk[w].pc = "closing"
    /\ Project(w, wk[w].copy) \/ UNCHANGED <<xrun, tainted>>
    /\ Goto(w, "finish")
    /\ UNCHANGED <<queueVars, lock, specOf, outbox, reports, feedback, enq, drain, enqueues, owed>>

\* Mutation of WorkerComplete: the terminal write is not fenced.
WorkerCompleteUnfenced(w) ==
    /\ wk[w].pc = "finish"
    /\ SchedulerFree
    /\ job' = [job EXCEPT ![HeldJob(w)].status = Q!Outcome(wk[w].copy = "completed")]
    /\ held' = [held EXCEPT ![w] = Q!NoClaim]
    /\ wk' = [wk EXCEPT ![w] = [NoWork EXCEPT !.pc = "poll"]]
    /\ UNCHANGED <<requeues, lock, farVars, enq, drain, enqueues, tainted, owed>>

\* scheduler.complete with what the executor returned or threw.
WorkerComplete(w) ==
    /\ wk[w].pc = "finish"
    /\ SchedulerFree
    /\ Q!Complete(w, wk[w].copy = "completed")
    /\ wk' = [wk EXCEPT ![w] = [NoWork EXCEPT !.pc = "poll"]]
    /\ UNCHANGED <<lock, farVars, enq, drain, enqueues, tainted, owed>>

\* The heartbeat timer runs beside the execution.
WorkerHeartbeat(w) ==
    /\ SchedulerFree
    /\ Q!Heartbeat(w)
    /\ UNCHANGED <<lock, farVars, enq, wk, drain, enqueues, tainted, owed>>

\* The process dies: memory is gone, an open transaction rolls back.
WorkerCrash(w) ==
    /\ wk[w].pc # "off"
    /\ held' = [held EXCEPT ![w] = Q!NoClaim]
    /\ wk' = [wk EXCEPT ![w] = NoWork]
    /\ drain' = [drain EXCEPT ![w] = NoDrain]
    /\ lock' = IF wk[w].pc = "dead" THEN None ELSE lock
    /\ UNCHANGED <<job, requeues, farVars, enq, enqueues, tainted, owed>>

-----------------------------------------------------------------------------
(* The operator and time *)

OperatorCancel(j) ==
    /\ SchedulerFree
    /\ Q!Cancel(j)
    /\ owed' = owed \ {j}
    /\ UNCHANGED <<lock, farVars, enq, wk, drain, enqueues, tainted>>

OperatorRequeue(j) ==
    /\ SchedulerFree
    /\ Q!RequeueDead(j)
    /\ UNCHANGED <<lock, farVars, enq, wk, drain, enqueues, tainted, owed>>

\* Time passes only between the statements of a short transaction.
HeartbeatExpires(j) ==
    /\ SchedulerFree
    /\ Q!Expire(j)
    /\ UNCHANGED <<lock, farVars, enq, wk, drain, enqueues, tainted, owed>>

Drain(p) ==
    \/ \E j \in Jobs : DrainEnqueue(p, j)
    \/ \E j \in Jobs : DrainFail(p, j)
    \/ DrainMark(p)

EnqProceed(p) == Drain(p) \/ EnqWrite(p) \/ EnqDrain(p) \/ EnqReturn(p)

Execute(w) ==
    \/ WorkerRefuse(w) \/ ExecProject(w) \/ ExecStart(w) \/ ExecTrain(w)
    \/ ExecReport(w) \/ ExecFeedback(w)
    \/ \E status \in RunStatuses : ExecEnd(w, status)
    \/ ExecClose(w) \/ WorkerComplete(w)

PollStep(w) == \E j \in Jobs : WorkerClaim(w, j) \/ DeadLetterProject(w, j)

WorkerProceed(w) ==
    \/ WorkerStart(w) \/ Drain(w) \/ WorkerDrained(w)
    \/ PollStep(w) \/ WorkerExit(w) \/ DeadLetterCommit(w)
    \/ Execute(w)

Next ==
    \/ \E p \in Enqueuers, s \in Specs, j \in Jobs : EnqRead(p, s, j)
    \/ \E p \in Enqueuers : EnqProceed(p) \/ EnqCrash(p)
    \/ \E w \in Workers : WorkerProceed(w) \/ WorkerHeartbeat(w) \/ WorkerCrash(w)
    \/ \E j \in Jobs : OperatorCancel(j) \/ OperatorRequeue(j) \/ HeartbeatExpires(j)

Spec == Init /\ [][Next]_vars

\* Workers are started again and again and take their next step, and a crash or
\* a busy scheduler file does not for ever hit the same enqueue of a drain.
RecoveryFairness ==
    \A w \in Workers : /\ WF_vars(WorkerProceed(w))
                       /\ \A j \in Jobs : SF_vars(DrainEnqueue(w, j))

\* Moreover enqueuers take their next step, no other step of a worker's way to
\* its first claim is hit for ever either, and time passes.
Fairness ==
    /\ RecoveryFairness
    /\ \A p \in Enqueuers : WF_vars(EnqProceed(p))
    /\ \A w \in Workers : /\ SF_vars(DrainMark(w)) /\ SF_vars(WorkerDrained(w))
                         /\ SF_vars(PollStep(w))
    /\ \A j \in Jobs : WF_vars(HeartbeatExpires(j))

RecoverySpec == Spec /\ RecoveryFairness
FairSpec == Spec /\ Fairness

-----------------------------------------------------------------------------
(* Correctness *)

\* An intent is marked drained only when its job row exists, and a job row
\* exists only for an intent and a run that are in far.db: wherever a process
\* dies between the two stores, no accepted enqueue disappears and no job is
\* orphaned (drainOutbox, putObjectEventedOutboxed).
NoLostIntent ==
    \A j \in Jobs :
        /\ outbox[j] = "drained" => job[j].status # "absent"
        /\ job[j].status # "absent" => outbox[j] # "absent" /\ xrun[j] # "absent"

\* The two stores agree on how an experiment ended, as long as no process wrote
\* the projection from a stale copy: a completed job has a completed run, a dead
\* one has a run that is no longer queued or running, and a job that waits or
\* was canceled while waiting has no running run (complete after the projection,
\* onDead inside the dead-letter transaction).
StoresAgree ==
    \A j \in Jobs \ tainted :
        /\ job[j].status = "completed" => xrun[j] = "completed"
        /\ job[j].status = "dead" => xrun[j] \in {"completed", "failed", "canceled"}
        /\ job[j].status \in {"queued", "canceled"} => xrun[j] # "running"

\* Every intent written with its run reaches the queue, whichever process dies
\* in between (crash recovery by the drain at worker start).
IntentBecomesJob ==
    \A j \in Jobs : outbox[j] = "pending" ~> job[j].status # "absent"

\* The two-store system implements the job queue: splitting the dead-letter
\* transaction around onDead, crashes and drains never make a step of the
\* jobs table that the queue does not have.
ImplementsQueue == Q!Spec

-----------------------------------------------------------------------------
(* What the repository says and the code does not do *)

\* scheduler.ts:24-26: "a disowned zombie can never overwrite the adopter's
\* outcome".  The fence protects the job row; the projection in far.db is
\* written by whoever executes.
AdopterOutcomeStands ==
    \A j \in Jobs : job[j].status = "completed" => xrun[j] = "completed"

\* store.ts:784-787: "a crash after this call leaves a pending intent -- never
\* a lost enqueue".  An enqueue that returned is eventually claimed by a worker
\* or canceled afterwards.
EnqueueIsServed == \A j \in Jobs : (j \in owed) ~> (j \notin owed)

DatasetOfRun(j) == DatasetOf[specOf[j]]

\* domain/experiment.ts:502: the analysis iteration counts re-analyses "on this
\* dataset version".  A report is exploratory only when another execution
\* reported on the same dataset.
OnlyReanalysisIsExploratory ==
    \A r \in reports : r.exploratory = 1 =>
        \E q \in reports \ {r} : DatasetOfRun(q.run) = DatasetOfRun(r.run)

=============================================================================
