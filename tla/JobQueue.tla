------------------------------ MODULE JobQueue ------------------------------
(***************************************************************************)
(* The durable experiment job queue (src/src/experiment/scheduler.ts), its *)
(* own SQLite file shared by every CLI process.  Each SQL transaction of   *)
(* the scheduler is one atomic action.  A job row carries the fence token, *)
(* the worker, the heartbeat and the attempt counter; a worker process     *)
(* carries, in its own memory, the claim it was last handed.  A process    *)
(* that stalls long enough loses its job to a reclaimer and does not know  *)
(* it: the fence is what keeps the late process harmless.                  *)
(*                                                                         *)
(* Time is abstracted to what claimNext reads of it: a heartbeat is either *)
(* younger than the TTL ("fresh") or older ("stale").                      *)
(***************************************************************************)
EXTENDS Integers, FiniteSets

CONSTANTS
    Jobs,            \* job ids (an intent id is a hash of the experiment run id)
    Workers,         \* worker processes
    Devices,         \* execution devices; a worker binds to one
    Priorities,      \* the priorities jobs are enqueued with
    DeviceOf,        \* the device each worker serves
    MaxRunning,      \* the concurrency limit each worker passes to claimNext
    MaxAttempts,     \* MAX_JOB_ATTEMPTS
    MaxRequeues,     \* bound: operator resurrections of one job
    None             \* SQL NULL, and "holds no claim"

ASSUME ConstantsAssumption ==
    /\ IsFiniteSet(Jobs)
    /\ Priorities \subseteq Int
    /\ DeviceOf \in [Workers -> Devices]
    /\ MaxRunning \in [Workers -> Nat \ {0}]
    /\ MaxAttempts \in Nat \ {0}
    /\ MaxRequeues \in Nat
    /\ None \notin Workers \cup Jobs

VARIABLES
    job,       \* the jobs table: one row per job id, "absent" before INSERT
    held,      \* the claim each worker process believes it holds
    requeues   \* bound counter: requeueDead calls that took effect, per job

vars == <<job, held, requeues>>

Terminal == {"completed", "failed", "canceled", "dead"}
Statuses == {"queued", "running"} \cup Terminal

\* A row that has not been inserted.
NoRow == [status |-> "absent", token |-> 0, worker |-> None, beat |-> "none",
          attempts |-> 0, cancel |-> 0, prio |-> 0, device |-> None, id |-> 0]

Row == [status : Statuses \cup {"absent"}, token : Nat, worker : Workers \cup {None},
        beat : {"none", "fresh", "stale"}, attempts : 0..MaxAttempts, cancel : {0, 1},
        prio : Int, device : Devices \cup {None}, id : Nat]

Claim == [job : Jobs, token : Nat]
NoClaim == [job |-> None, token |-> 0]

TypeOK ==
    /\ job \in [Jobs -> Row]
    /\ \A j \in Jobs : job[j].status = "absent" => job[j] = NoRow
    /\ held \in [Workers -> Claim \cup {NoClaim}]
    /\ requeues \in [Jobs -> 0..MaxRequeues]

Init ==
    /\ job = [j \in Jobs |-> NoRow]
    /\ held = [w \in Workers |-> NoClaim]
    /\ requeues = [j \in Jobs |-> 0]

-----------------------------------------------------------------------------
Rows == {j \in Jobs : job[j].status # "absent"}
Busy(w) == held[w] # NoClaim

\* Mutations of Owns: the fence dropped, and the status test dropped.
OwnsUnfenced(w) == Busy(w) /\ job[held[w].job].status = "running"
OwnsAnyStatus(w) ==
    /\ Busy(w)
    /\ job[held[w].job].worker = w
    /\ job[held[w].job].token = held[w].token

\* The condition in the WHERE clause of heartbeat and complete.
Owns(w) ==
    /\ Busy(w)
    /\ job[held[w].job].status = "running"
    /\ job[held[w].job].worker = w
    /\ job[held[w].job].token = held[w].token

\* INSERT OR IGNORE: the first call for an intent id inserts, every later
\* one changes nothing (and is a stuttering step).
Enqueue(j, p, d) ==
    /\ job[j].status = "absent"
    /\ job' = [job EXCEPT ![j] = [NoRow EXCEPT !.status = "queued", !.prio = p,
                                               !.device = d, !.id = Cardinality(Rows) + 1]]
    /\ UNCHANGED <<held, requeues>>

Live(d) == {j \in Jobs : job[j].device = d /\ job[j].status = "running" /\ job[j].beat = "fresh"}

\* Mutation of Claimable: stale running jobs are not reclaimed.
ClaimableQueuedOnly(d) == {j \in Jobs : job[j].device = d /\ job[j].status = "queued"}

Claimable(d) ==
    {j \in Jobs : /\ job[j].device = d
                  /\ \/ job[j].status = "queued"
                     \/ job[j].status = "running" /\ job[j].beat = "stale"}

\* ORDER BY priority DESC, id ASC
Before(i, j) ==
    \/ job[i].prio > job[j].prio
    \/ job[i].prio = job[j].prio /\ job[i].id <= job[j].id

\* The row the dispatch query of claimNext returns to worker w.
Picked(w, j) ==
    /\ ~Busy(w)
    /\ Cardinality(Live(DeviceOf[w])) < MaxRunning[w]
    /\ j \in Claimable(DeviceOf[w])
    /\ \A i \in Claimable(DeviceOf[w]) : Before(j, i)

\* Mutations of ClaimNext: one attempt too many, and a reclaim that keeps the
\* token of the previous claim.
ClaimNextOverBudget(w, j) ==
    /\ Picked(w, j)
    /\ job[j].attempts <= MaxAttempts
    /\ job' = [job EXCEPT ![j].status = "running", ![j].worker = w,
                          ![j].token = @ + 1, ![j].beat = "fresh",
                          ![j].attempts = @ + 1]
    /\ held' = [held EXCEPT ![w] = [job |-> j, token |-> job[j].token + 1]]
    /\ UNCHANGED requeues
ClaimNextSameToken(w, j) ==
    LET token == job[j].token + IF job[j].status = "queued" THEN 1 ELSE 0
    IN  /\ Picked(w, j)
        /\ job[j].attempts < MaxAttempts
        /\ job' = [job EXCEPT ![j].status = "running", ![j].worker = w,
                              ![j].token = token, ![j].beat = "fresh",
                              ![j].attempts = @ + 1]
        /\ held' = [held EXCEPT ![w] = [job |-> j, token |-> token]]
        /\ UNCHANGED requeues

\* claimNext on a row with attempts left: a fresh claim or a reclaim.
ClaimNext(w, j) ==
    /\ Picked(w, j)
    /\ job[j].attempts < MaxAttempts
    /\ job' = [job EXCEPT ![j].status = "running", ![j].worker = w,
                          ![j].token = @ + 1, ![j].beat = "fresh",
                          ![j].attempts = @ + 1]
    /\ held' = [held EXCEPT ![w] = [job |-> j, token |-> job[j].token + 1]]
    /\ UNCHANGED requeues

\* claimNext on a row whose attempts are used up: it goes dead and the claim
\* returns null.
DeadLetter(w, j) ==
    /\ Picked(w, j)
    /\ job[j].attempts >= MaxAttempts
    /\ job' = [job EXCEPT ![j].status = "dead"]
    /\ UNCHANGED <<held, requeues>>

\* A fenced-out heartbeat changes nothing, and the worker ignores its result.
Heartbeat(w) ==
    /\ Owns(w)
    /\ job' = [job EXCEPT ![held[w].job].beat = "fresh"]
    /\ UNCHANGED <<held, requeues>>

Outcome(ok) == IF ok THEN "completed" ELSE "failed"

\* complete: the terminal write takes effect only under the fence; the worker
\* drops the claim in either case.
Complete(w, ok) ==
    /\ Busy(w)
    /\ job' = IF Owns(w) THEN [job EXCEPT ![held[w].job].status = Outcome(ok)] ELSE job
    /\ held' = [held EXCEPT ![w] = NoClaim]
    /\ UNCHANGED requeues

\* A queued job cancels at once, a running one gets the cooperative flag.
Cancel(j) ==
    /\ \/ /\ job[j].status = "queued"
          /\ job' = [job EXCEPT ![j].status = "canceled"]
       \/ /\ job[j].status = "running"
          /\ job' = [job EXCEPT ![j].cancel = 1]
    /\ UNCHANGED <<held, requeues>>

\* Mutation of RequeueDead: the attempt budget is not reset.
RequeueDeadKeepsAttempts(j) ==
    /\ job[j].status = "dead"
    /\ requeues[j] < MaxRequeues
    /\ job' = [job EXCEPT ![j].status = "queued", ![j].worker = None,
                          ![j].beat = "none", ![j].token = @ + 1]
    /\ requeues' = [requeues EXCEPT ![j] = @ + 1]
    /\ UNCHANGED held

\* Operator resurrection. cancel_requested is not in the SET list: it stays.
RequeueDead(j) ==
    /\ job[j].status = "dead"
    /\ requeues[j] < MaxRequeues
    /\ job' = [job EXCEPT ![j].status = "queued", ![j].attempts = 0, ![j].worker = None,
                          ![j].beat = "none", ![j].token = @ + 1]
    /\ requeues' = [requeues EXCEPT ![j] = @ + 1]
    /\ UNCHANGED held

\* heartbeatTtlMs pass without a heartbeat reaching the row.
Expire(j) ==
    /\ job[j].status = "running"
    /\ job[j].beat = "fresh"
    /\ job' = [job EXCEPT ![j].beat = "stale"]
    /\ UNCHANGED <<held, requeues>>

\* A worker process dies with its claim.
Crash(w) ==
    /\ Busy(w)
    /\ held' = [held EXCEPT ![w] = NoClaim]
    /\ UNCHANGED <<job, requeues>>

Poll(w) == \E j \in Jobs : ClaimNext(w, j) \/ DeadLetter(w, j)
Finish(w) == \E ok \in BOOLEAN : Complete(w, ok)

Next ==
    \/ \E j \in Jobs, p \in Priorities, d \in Devices : Enqueue(j, p, d)
    \/ \E w \in Workers, j \in Jobs : ClaimNext(w, j)
    \/ \E w \in Workers, j \in Jobs : DeadLetter(w, j)
    \/ \E w \in Workers : Heartbeat(w)
    \/ \E w \in Workers, ok \in BOOLEAN : Complete(w, ok)
    \/ \E j \in Jobs : Cancel(j)
    \/ \E j \in Jobs : RequeueDead(j)
    \/ \E j \in Jobs : Expire(j)
    \/ \E w \in Workers : Crash(w)

\* Some worker of every device keeps polling (an operator restarts workers),
\* a process that is alive finishes its execution, and time passes.
Fairness ==
    /\ \A w \in Workers : WF_vars(Poll(w))
    /\ \A w \in Workers : WF_vars(Finish(w))
    /\ \A j \in Jobs : WF_vars(Expire(j))

Spec == Init /\ [][Next]_vars
FairSpec == Spec /\ Fairness

-----------------------------------------------------------------------------
(* Correctness *)

\* Claims of one job held by different processes carry different tokens, and
\* none is ahead of the row: fence_token alone tells the process that was
\* handed the job last from every process that lost it (claimNext increments
\* the token on a reclaim too).
FenceUnique ==
    \A v, w \in Workers :
        Busy(v) /\ Busy(w) /\ held[v].job = held[w].job =>
            /\ held[v].token <= job[held[v].job].token
            /\ v # w => held[v].token # held[w].token

\* A job ends completed or failed only by the process that was handed it last:
\* a disowned process that finishes late never settles it, whatever expiries,
\* crashes, reclaims and resurrections came in between (complete's WHERE
\* clause).
OutcomeByLatestClaim ==
    [][\A j \in Jobs :
         job[j].status = "running" /\ job'[j].status \in {"completed", "failed"} =>
            \E w \in Workers :
                /\ held[w].job = j /\ held'[w] = NoClaim
                /\ held[w].token = job[j].token
                /\ \A v \in Workers \ {w} : held[v].job = j => held[v].token < held[w].token]_vars

\* A settled job never changes again, except that a dead one may be requeued;
\* and a requeued job starts with the full attempt budget and without an owner,
\* so no process of its former life can heartbeat or settle it.
SettledIsFinal ==
    [][\A j \in Jobs : job[j].status \in Terminal /\ job'[j] # job[j] =>
            /\ job[j].status = "dead" /\ job'[j].status = "queued"
            /\ job'[j].attempts = 0
            /\ \A w \in Workers : held[w].job = j => held[w].token < job'[j].token]_vars

\* A job is given up only when its whole attempt budget was spent on claims
\* that neither completed nor failed it; no claim is ever made beyond the
\* budget (RU-7.2 bounded redelivery).
DeadOnlyExhausted ==
    \A j \in Jobs :
        /\ job[j].status = "dead" => job[j].attempts = MaxAttempts
        /\ job[j].status = "queued" => job[j].attempts = 0
        /\ job[j].token >= job[j].attempts

\* Every job that was accepted is settled: however often workers crash, the
\* reclaim of stale jobs and the attempt cap end it.
EveryJobSettles ==
    \A j \in Jobs : job[j].status \in {"queued", "running"} ~> job[j].status \in Terminal

=============================================================================
