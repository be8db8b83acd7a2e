----------------------------- MODULE ModelCalls -----------------------------
(***************************************************************************)
(* A batch of model calls of one pipeline stage: mapBounded launches the   *)
(* items in index order on a few workers; every call goes through the      *)
(* run's token budget, the process-wide model slots and the spend gate,    *)
(* and then along the failover chain, each of whose routes makes its own   *)
(* bounded retries (transport failures) and re-asks (rejected output).     *)
(* One cancel signal reaches every call of the run.  The process may die,  *)
(* or lose the run's lease to another process while calls are in flight:   *)
(* the old process then goes on, on its own counter, until its batch is    *)
(* over or, in a stage that looks at the lease, until its next item.       *)
(*                                                                         *)
(* Time is abstracted: a backoff ends, a call's total budget runs out and  *)
(* a cooldown expires at any moment.                                       *)
(***************************************************************************)
EXTENDS Integers, Sequences, FiniteSets

CONSTANTS
    Items,        \* the number of items of the batch, indexed 1 .. Items
    RouteOrder,   \* the failover chain: a sequence of routes, the primary first
    Unnamed,      \* the routes without a config id, which are never cooled
    Workers,      \* STAGE_CONCURRENCY
    Slots,        \* MODEL_CALL_CONCURRENCY
    MaxRetries,   \* MAX_TRANSPORT_RETRIES
    MaxReasks,    \* MAX_INVALID_OUTPUT_RETRIES
    Cap,          \* the run's token cap
    Usages,       \* the usage an answer may report: 1, or 0 for a provider that
                  \* reports none
    Inputs,       \* what the stage's prompts may be built from
    NoInputs,     \* no fingerprint is stored
    MaxRestarts   \* bound on crashes, takeovers and reruns together

\* The stages that run their model calls through mapBounded, and how they treat
\* an item: the calls it makes, whether it begins by looking at the lease
\* (assertNotCancelled) or at the cancel flag alone, and whether its output is a
\* step checkpoint.
Rank == [calls |-> 1, fenced |-> TRUE, checkpointed |-> TRUE]
BuildEvidence == [calls |-> 1, fenced |-> FALSE, checkpointed |-> FALSE]
CritiqueFalsify == [calls |-> 2, fenced |-> TRUE, checkpointed |-> FALSE]
Stages == {Rank, BuildEvidence, CritiqueFalsify}

Places == 1 .. Len(RouteOrder)
Routes == {RouteOrder[k] : k \in Places}
Index == 1 .. Items

ASSUME CallsAssumption ==
    /\ {Items, Workers, Slots, Cap} \subseteq Nat \ {0}
    /\ {MaxRetries, MaxReasks, MaxRestarts} \subseteq Nat
    /\ Usages \subseteq 0 .. 1 /\ Usages # {}
    /\ RouteOrder \in Seq(Routes) /\ RouteOrder # <<>>
    /\ Inputs # {} /\ NoInputs \notin Inputs

VARIABLES
    stage,      \* the stage whose batch this is
    call,       \* per item: where its call stands
    next,       \* mapBounded's nextIndex
    batch,      \* "running", "done" or "failed"
    waiters,    \* modelCallWaiters: the items waiting for a slot, oldest first
    cooling,    \* cooldownUntilByConfig: the routes that are skipped
    cancelled,  \* the run's AbortSignal and its persisted cancelRequested
    spent,      \* the budget's counter, in the memory of the executing process
    receipts,   \* the usage on the run's persisted receipts
    inputs,     \* what this execution's prompts are built from
    stepInputs, \* the persisted fingerprint of the step family, or NoInputs
    steps,      \* per item: its persisted step output, or NoStep
    lost,       \* the processes that lost the lease, first to last: what is left
                \* of their batches
    restarts    \* crashes, takeovers and reruns so far

vars == <<stage, call, next, batch, waiters, cooling, cancelled, spent, receipts,
          inputs, stepInputs, steps, lost, restarts>>
runVars == <<stage, inputs, lost, restarts>>

\* A step output is told by the inputs it was computed from, and by whether a
\* process that had lost the lease wrote it.
Step == [of : Inputs, stray : BOOLEAN]
NoStep == [of |-> NoInputs, stray |-> FALSE]

\* What a process without the lease still has: the next item, whether it launches
\* items at all, its calls in flight, its counter when it lost the lease and what
\* it has spent since.
Flight == [item : Index, nth : 1 .. 2]
Lost == [of : Inputs, next : 1 .. Items + 1, open : BOOLEAN,
         flight : SUBSET Flight, spent : Nat, late : Nat]

Idle == [at |-> "pending", nth |-> 1, chain |-> {}, retries |-> 0, reasks |-> 0,
         used |-> 0, result |-> NoStep]
At(i, where) == call[i].at = where
Holding == {i \in Index : call[i].at \in {"entered", "trying", "sent", "backoff"}}
InFlight == {i \in Index : i \in Holding \/ At(i, "queued")}
Busy == {i \in Index : i \in InFlight \/ At(i, "answered")}
Errors == {i \in Index : At(i, "error")}
FirstError == CHOOSE i \in Errors : \A j \in Errors : i <= j

Init ==
    /\ stage \in Stages
    /\ call = [i \in Index |-> Idle]
    /\ next = 1
    /\ batch = "running"
    /\ waiters = <<>>
    /\ cooling = {}
    /\ cancelled = FALSE
    /\ spent = 0 /\ receipts = 0
    /\ inputs \in Inputs
    /\ stepInputs = NoInputs
    /\ steps = [i \in Index |-> NoStep]
    /\ lost = <<>>
    /\ restarts = 0

-----------------------------------------------------------------------------
(* The slots and the failover chain. *)

\* The places in the chain whose routes a call tries: those that are not
\* cooling, or all of them when every route is.
Usable ==
    LET warm == {k \in Places : RouteOrder[k] \notin cooling}
    IN  IF warm = {} THEN Places ELSE warm

\* The routes are tried in the order of the chain.
Current(chain) == CHOOSE k \in chain : \A j \in chain : k <= j

\* Mutation of SlotFree: one call too many is let in.
SlotFreeOffByOne == Cardinality(Holding) <= Slots

SlotFree == Cardinality(Holding) < Slots

\* The item's n-th call has its slot.
Started(n) == [Idle EXCEPT !.at = "entered", !.nth = n]

\* The item has its result.
Done == [Idle EXCEPT !.at = "ok", !.result = [of |-> inputs, stray |-> FALSE]]

\* Its n-th call failed.  The second one, the link audit of critique_falsify, is
\* an enrichment whose failure is caught.
Failed(n) == IF n = 1 THEN [Idle EXCEPT !.at = "error"] ELSE Done

\* Mutation of Release: the slot is given back and nobody is woken.
ReleaseSilently(i, ended) ==
    /\ call' = [call EXCEPT ![i] = ended]
    /\ UNCHANGED waiters

\* The call of i is over and its slot goes to the oldest waiter.
Release(i, ended) ==
    /\ call' = [j \in Index |-> CASE j = i -> ended
                                  [] j # i /\ waiters # <<>> /\ j = Head(waiters) -> Started(call[j].nth)
                                  [] OTHER -> call[j]]
    /\ waiters' = IF waiters = <<>> THEN <<>> ELSE Tail(waiters)

\* ... and its usage goes to the budget and to a receipt.
Land(i, ended, usage) ==
    /\ Release(i, ended)
    /\ spent' = spent + usage
    /\ receipts' = receipts + usage
    /\ UNCHANGED <<next, batch, cooling, cancelled, stepInputs, runVars>>

\* The places in the chain after the one that i is trying.
Untried(i) == call[i].chain \ {Current(call[i].chain)}

\* The route gave up on i.  A failure that another route may not share moves
\* the call to the next one and cools this one; any other failure is final.
GiveUp(i, worthy) ==
    \/ /\ worthy /\ Untried(i) # {}
       /\ call' = [call EXCEPT ![i] = [Idle EXCEPT !.at = "trying", !.nth = call[i].nth,
                                                        !.chain = Untried(i)]]
       /\ cooling' = cooling \cup ({RouteOrder[Current(call[i].chain)]} \ Unnamed)
       /\ UNCHANGED <<next, batch, waiters, cancelled, spent, receipts,
                      stepInputs, steps, runVars>>
    \/ /\ ~worthy \/ Untried(i) = {}
       /\ Land(i, Failed(call[i].nth), call[i].used)
       /\ UNCHANGED steps

\* The cooldown of a route is over.
CooldownEnds(r) ==
    /\ r \in cooling
    /\ cooling' = cooling \ {r}
    /\ UNCHANGED <<call, next, batch, waiters, cancelled, spent, receipts,
                   stepInputs, steps, runVars>>

-----------------------------------------------------------------------------
(* mapBounded: the items are launched in order, and the batch ends. *)

\* Mutation of StepsAfterGate: the stored fingerprint is not compared.
StepsAfterGateTrusting == steps

\* The step outputs after the fingerprint gate of checkpointed.
StepsAfterGate ==
    IF stepInputs \in {NoInputs, inputs} THEN steps
    ELSE [i \in Index |-> NoStep]

\* Workers return when an item has failed or none is left.
WorkerFree == Errors = {} /\ Cardinality(Busy) < Workers

\* invokeStructured up to the slot: the n-th call of i is refused, its budget
\* being spent or the exfil tripwire finding a secret in it; or it gets its slot;
\* or it waits for one.
Asks(i, n) ==
    \/ /\ call' = [call EXCEPT ![i] = Failed(n)]
       /\ UNCHANGED waiters
    \/ /\ spent < Cap /\ SlotFree
       /\ call' = [call EXCEPT ![i] = Started(n)]
       /\ UNCHANGED waiters
    \/ /\ spent < Cap /\ ~SlotFree
       /\ call' = [call EXCEPT ![i] = [Idle EXCEPT !.at = "queued", !.nth = n]]
       /\ waiters' = Append(waiters, i)

\* A worker takes the next item.  The cancel check comes first, then the step
\* checkpoint, if the stage has one, and then the first call.
Launch(i) ==
    /\ batch = "running" /\ i = next /\ WorkerFree
    /\ next' = next + 1
    /\ \/ /\ cancelled
          /\ call' = [call EXCEPT ![i] = Failed(1)]
          /\ UNCHANGED <<steps, stepInputs, waiters>>
       \/ /\ ~cancelled
          /\ steps' = StepsAfterGate
          /\ stepInputs' = IF stage.checkpointed THEN inputs ELSE stepInputs
          /\ \/ /\ StepsAfterGate[i] # NoStep
                /\ call' = [call EXCEPT ![i].at = "ok", ![i].result = StepsAfterGate[i]]
                /\ UNCHANGED waiters
             \/ /\ StepsAfterGate[i] = NoStep
                /\ Asks(i, 1)
    /\ UNCHANGED <<batch, cooling, cancelled, spent, receipts, runVars>>

\* The item goes on to its second call.  An item that needs none ends as one
\* whose second call is refused.
AskAgain(i) ==
    /\ At(i, "answered")
    /\ Asks(i, call[i].nth)
    /\ UNCHANGED <<next, batch, cooling, cancelled, spent, receipts,
                   stepInputs, steps, runVars>>

\* Mutation of EndBatch: the first error ends the batch, in-flight work or not.
EndBatchEarly ==
    /\ batch = "running"
    /\ Errors # {} \/ (Busy = {} /\ next > Items)
    /\ batch' = IF Errors = {} THEN "done" ELSE "failed"
    /\ UNCHANGED <<call, next, waiters, cooling, cancelled, spent, receipts,
                   stepInputs, steps, runVars>>

\* All workers have returned; an error, the first by index, fails the stage.
EndBatch ==
    /\ batch = "running"
    /\ Busy = {}
    /\ Errors # {} \/ next > Items
    /\ batch' = IF Errors = {} THEN "done" ELSE "failed"
    /\ UNCHANGED <<call, next, waiters, cooling, cancelled, spent, receipts,
                   stepInputs, steps, runVars>>

-----------------------------------------------------------------------------
(* One route: runOpenAICompatStructuredCall. *)

\* Only the call of i changes.
Only(i, changed) ==
    /\ call' = [call EXCEPT ![i] = changed]
    /\ UNCHANGED <<next, batch, waiters, cooling, cancelled, spent, receipts,
                   stepInputs, steps, runVars>>

\* With a slot, the call passes the workspace's spend gate and enters the chain.
\* The gate reads the limit, which settings may set or clear at any time, and
\* the receipts of every process.
Enter(i) ==
    /\ At(i, "entered")
    /\ \/ Only(i, [call[i] EXCEPT !.at = "trying", !.chain = Usable])
       \/ /\ receipts > 0
          /\ Land(i, Failed(call[i].nth), 0)
          /\ UNCHANGED steps

\* The egress guard rejects the route's endpoint: no request is made.
EndpointRefused(i) ==
    /\ At(i, "trying")
    /\ call[i].retries + call[i].reasks = 0
    /\ GiveUp(i, TRUE)

\* The total budget of the route is spent before the next attempt.  The first
\* attempt starts with all of it.
BudgetRunsOut(i) ==
    /\ At(i, "trying")
    /\ call[i].retries + call[i].reasks > 0
    /\ GiveUp(i, TRUE)

\* After the pacing wait the request goes out, unless the signal is aborted.
Send(i) ==
    /\ At(i, "trying")
    /\ ~cancelled
    /\ Only(i, [call[i] EXCEPT !.at = "sent"])

\* The signal is found aborted before the request, or aborts it on the wire:
\* a provider_error that is not retried, and that fails over.
CancelStops(i) ==
    /\ cancelled
    /\ At(i, "trying") \/ At(i, "sent")
    /\ GiveUp(i, TRUE)

\* The output is valid: the item has a call left to make, or its output is stored
\* and it is over.
Accept(i, usage) ==
    /\ At(i, "sent")
    /\ \/ /\ call[i].nth < stage.calls
          /\ Land(i, [Idle EXCEPT !.at = "answered", !.nth = call[i].nth + 1], usage)
          /\ UNCHANGED steps
       \/ /\ call[i].nth = stage.calls
          /\ Land(i, Done, usage)
          /\ steps' = IF stage.checkpointed THEN [steps EXCEPT ![i] = Done.result] ELSE steps

\* The output is valid and the stage refuses it: a judgment by the development
\* wire (refuseTemplateMode), or claims to bind in a run that is cancelled.
Refuse(i, usage) ==
    /\ At(i, "sent") /\ call[i].nth = 1
    /\ stage = BuildEvidence => cancelled
    /\ Land(i, Failed(1), usage)
    /\ UNCHANGED steps

\* The output is rejected: by the schema or the JSON parser, and its usage is
\* the call's from now on; or on the wire, and the usage stays what it was.
\* It is asked for again, or the call is over: no other route is tried.
RejectOutput(i, usage) ==
    /\ At(i, "sent")
    /\ \/ /\ call[i].reasks < MaxReasks
          /\ Only(i, [call[i] EXCEPT !.at = "trying", !.reasks = @ + 1, !.used = usage])
       \/ /\ call[i].reasks >= MaxReasks
          /\ Land(i, Failed(call[i].nth), usage)
          /\ UNCHANGED steps

\* A rate limit, a timeout, a transient 5xx or a network failure: retried after
\* a backoff, and fails over when the retries are spent.
TransientFailure(i) ==
    /\ At(i, "sent")
    /\ \/ /\ call[i].retries < MaxRetries
          /\ Only(i, [call[i] EXCEPT !.at = "backoff"])
       \/ /\ call[i].retries >= MaxRetries
          /\ GiveUp(i, TRUE)

\* Rejected credentials, a spent quota or another 5xx (worthy of another
\* route), or a malformed request (400, 404, 413), which is not.
PermanentFailure(i, worthy) ==
    /\ At(i, "sent")
    /\ GiveUp(i, worthy)

BackoffEnds(i) ==
    /\ At(i, "backoff")
    /\ Only(i, [call[i] EXCEPT !.at = "trying", !.retries = @ + 1])

-----------------------------------------------------------------------------
(* Cancel, crash, takeover and rerun. *)

\* The run is cancelled: one signal for all its calls.
Cancel ==
    /\ batch = "running" /\ ~cancelled
    /\ cancelled' = TRUE
    /\ UNCHANGED <<call, next, batch, waiters, cooling, spent, receipts,
                   stepInputs, steps, runVars>>

\* Mutation of Execute: the counter of the earlier execution is carried over
\* from what it had at its start.
ExecuteUnspent ==
    /\ restarts < MaxRestarts
    /\ restarts' = restarts + 1
    /\ call' = [i \in Index |-> Idle]
    /\ next' = 1
    /\ batch' = "running"
    /\ waiters' = <<>>
    /\ cancelled' = FALSE
    /\ spent' = 0
    /\ inputs' \in Inputs
    /\ UNCHANGED <<stage, receipts, stepInputs, steps>>

\* The run is executed again: the stage starts over, its prompts are rebuilt,
\* and the budget is re-derived from the receipts.
Execute ==
    /\ restarts < MaxRestarts
    /\ restarts' = restarts + 1
    /\ call' = [i \in Index |-> Idle]
    /\ next' = 1
    /\ batch' = "running"
    /\ waiters' = <<>>
    /\ cancelled' = FALSE
    /\ spent' = receipts
    /\ inputs' \in Inputs
    /\ UNCHANGED <<stage, receipts, stepInputs, steps>>

\* A failed or cancelled run is resumed in the same process.
Rerun ==
    /\ batch = "failed"
    /\ Execute
    /\ UNCHANGED <<cooling, lost>>

\* The process dies, and what was in flight in it is gone.
Crash ==
    /\ batch = "running"
    /\ Execute
    /\ cooling' = {}
    /\ UNCHANGED lost

\* The lease expires during a long call and another process executes the run.
\* The first one keeps its calls in flight, its counter and, in a stage that does
\* not look at the lease, the rest of its batch.
Takeover ==
    LET going == IF spent < Cap THEN Busy ELSE InFlight
        left == [of |-> inputs, next |-> next, open |-> ~stage.fenced /\ Errors = {},
                 flight |-> {[item |-> i, nth |-> call[i].nth] : i \in going},
                 spent |-> spent, late |-> 0]
    IN  /\ batch = "running"
        /\ Execute
        /\ cooling' = {}
        /\ lost' = Append(lost, left)

\* A process that lost the lease launches its next item, its own counter letting
\* it; or that item fails at the cancel check, the budget or the tripwire, and it
\* launches no more.
StrayLaunches(k) ==
    LET p == lost[k]
    IN  /\ p.open /\ p.next <= Items /\ Cardinality(p.flight) < Workers
        /\ \/ /\ ~cancelled /\ p.spent + p.late < Cap
              /\ lost' = [lost EXCEPT ![k].next = @ + 1,
                                      ![k].flight = @ \cup {[item |-> p.next, nth |-> 1]}]
           \/ lost' = [lost EXCEPT ![k].open = FALSE]
        /\ UNCHANGED <<stage, call, next, batch, waiters, cooling, cancelled, spent,
                       receipts, inputs, stepInputs, steps, restarts>>

\* A call of a process that lost the lease ends.  Its receipt is recorded and its
\* output stored, if there is one and the stage checkpoints it: nothing checks
\* the lease.  The item goes on to its second call if the counter lets it.
StrayLands(k, c, usage, valid) ==
    LET p == lost[k]
        again == valid /\ c.nth < stage.calls /\ p.spent + p.late + usage < Cap
        stored == [of |-> p.of, stray |-> TRUE]
    IN  /\ c \in p.flight
        /\ valid => usage \in Usages
        /\ receipts' = receipts + usage
        /\ lost' = [lost EXCEPT ![k] = [p EXCEPT
               !.flight = (p.flight \ {c}) \cup (IF again THEN {[c EXCEPT !.nth = @ + 1]} ELSE {}),
               !.late = @ + usage,
               !.open = @ /\ (valid \/ c.nth > 1)]]
        /\ steps' = IF valid /\ stage.checkpointed THEN [steps EXCEPT ![c.item] = stored]
                    ELSE steps
        /\ UNCHANGED <<stage, call, next, batch, waiters, cooling, cancelled, spent,
                       inputs, stepInputs, restarts>>

-----------------------------------------------------------------------------

Progress(i) ==
    \/ Launch(i) \/ AskAgain(i)
    \/ Enter(i) \/ EndpointRefused(i) \/ BudgetRunsOut(i) \/ Send(i) \/ CancelStops(i)
    \/ \E usage \in Usages : Accept(i, usage) \/ Refuse(i, usage)
    \/ \E usage \in Usages \cup {call[i].used} : RejectOutput(i, usage)
    \/ TransientFailure(i)
    \/ \E worthy \in BOOLEAN : PermanentFailure(i, worthy)
    \/ BackoffEnds(i)

Next ==
    \/ \E i \in Index : Progress(i)
    \/ EndBatch
    \/ \E r \in Routes : CooldownEnds(r)
    \/ Cancel \/ Rerun \/ Crash \/ Takeover
    \/ \E k \in 1 .. Len(lost) :
          \/ StrayLaunches(k)
          \/ \E c \in lost[k].flight, usage \in Usages \cup {0}, valid \in BOOLEAN :
                StrayLands(k, c, usage, valid)

Spec == Init /\ [][Next]_vars

\* The event loop runs something that is ready: fetches end (every attempt
\* carries an abort timer), backoff timers fire, workers go on.  Which of the
\* calls goes on is left open.
Fairness == WF_vars(EndBatch \/ \E i \in Index : Progress(i))
FairSpec == Spec /\ Fairness

-----------------------------------------------------------------------------
(* Properties. *)

\* The types, and the process-wide ceiling of acquireModelSlot: never more
\* calls in the provider than slots, exactly the queued ones in the queue, and
\* none of them there while a slot is free.
TypeOK ==
    /\ stage \in Stages
    /\ call \in [Index -> [at : {"pending", "queued", "entered", "trying", "sent",
                                 "backoff", "answered", "ok", "error"},
                           nth : 1 .. 2, chain : SUBSET Places, retries : 0 .. MaxRetries,
                           reasks : 0 .. MaxReasks, used : 0 .. 1,
                           result : Step \cup {NoStep}]]
    /\ next \in 1 .. Items + 1
    /\ batch \in {"running", "done", "failed"}
    /\ waiters \in Seq(Index)
    /\ cooling \subseteq Routes \ Unnamed
    /\ cancelled \in BOOLEAN
    /\ spent \in Nat /\ receipts \in Nat
    /\ inputs \in Inputs /\ stepInputs \in Inputs \cup {NoInputs}
    /\ steps \in [Index -> Step \cup {NoStep}]
    /\ lost \in Seq(Lost)
    /\ restarts \in 0 .. MaxRestarts
    /\ Cardinality(Holding) <= Slots
    /\ waiters # <<>> => Cardinality(Holding) = Slots
    /\ \A i \in Index : At(i, "queued") <=> \E k \in DOMAIN waiters : waiters[k] = i

\* mapBounded's overlap fails as the sequential loop would: when the batch has
\* failed, every item before the first failed one has its result.
FailsAsSequential ==
    batch = "failed" => \A i \in Index : i < FirstError => At(i, "ok")

\* The process that has the lease overshoots the token budget by no more than
\* the calls that had passed the gate, one per worker.  A process that lost it
\* spends on a counter of its own, which the others never see: up to as much
\* again, however long it goes on.
OvershootBounded ==
    receipts <= (1 + Len(lost)) * (Cap + Workers - 1)

\* A step result in use was computed from this execution's inputs; only a
\* process that lost the lease can have stored another one since.
StepsAreCurrent ==
    \A i \in Index : At(i, "ok") =>
        call[i].result.of = inputs \/ call[i].result.stray

\* Every batch ends: no lost wake-up of a queued call, no endless retrying.
BatchEnds == batch = "running" ~> batch # "running"

-----------------------------------------------------------------------------
(* What the repository says and the code does not do *)

\* orchestrator.ts:273: "never replay stale results under rebuilt prompts".
\* The gate clears what an earlier execution stored; a call of a process that
\* lost the lease stores its output after that.
StepsAreFresh == \A i \in Index : At(i, "ok") => call[i].result.of = inputs

\* run-budget.ts:9: "a resumed run never carries a stale in-memory counter as a
\* second authority".  The process that was resumed elsewhere does carry one, and
\* two processes together spend past what one could.
CapStopsCalls == receipts < Cap + Workers
=============================================================================
