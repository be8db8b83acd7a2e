---------------------------- MODULE RunLifecycle ----------------------------
(***************************************************************************)
(* One research run and the processes that may execute it                  *)
(* (src/src/app/orchestrator.ts, the lease statements of                   *)
(* src/src/persistence/store.ts, the watchdog and the launch, dispatch and *)
(* scope-proposal handlers of src/src/server/api.ts, and the resume        *)
(* command of src/src/cli/main.ts).                                        *)
(*                                                                         *)
(* The run document is one JSON value.  Every transition of the            *)
(* orchestrator reads it, computes the next one and writes it back whole:  *)
(* two SQL statements that those of other processes may fall between, so   *)
(* it is two steps here, Transition (lease check, getRun, patch, re-check) *)
(* and Write (updateRun, renewLease).  A lease lost between the two checks *)
(* ends like one lost before the first, so both are in the first step.     *)
(*                                                                         *)
(* The workflow plan is linear (defaultWorkflow).  What a stage handler    *)
(* finds out is a choice; what it costs the run's state is not.            *)
(***************************************************************************)
EXTENDS Integers, Sequences, FiniteSets

CONSTANTS
    Procs,              \* processes that may execute the run
    Servers,            \* those of them that are API servers
    Plan,               \* the stages in plan order
    StopStage,          \* the stage a limited execution stops before
    VerifyStage, RankStage, ReviseStage, ExportStage,
    EvidenceLeg, GateLeg, FeedbackLeg, ExperimentLeg,  \* the sets of stages that reopen together
    MaxQualityRounds, MaxIterationRounds,
    Limit,              \* bounds: how often each event below, and any of them, may happen
    Nobody, Gone        \* no lease holder, and a holder whose process has died

Events == {"resume", "limited", "dispatch", "cancel", "feedback", "evidence", "raise",
           "fail", "exhaust", "progress", "crash", "stall", "any"}
Stages == {Plan[i] : i \in 1..Len(Plan)}

ASSUME ConstantsAssumption ==
    /\ Servers \subseteq Procs
    /\ {StopStage, VerifyStage, RankStage, ReviseStage, ExportStage} \subseteq Stages
    /\ EvidenceLeg \cup GateLeg \cup FeedbackLeg \cup ExperimentLeg \subseteq Stages
    /\ MaxQualityRounds \in Nat \ {0} /\ MaxIterationRounds \in Nat \ {0}
    /\ Limit \in [Events -> Nat]
    /\ {Nobody, Gone} \cap Procs = {} /\ Nobody # Gone

\* A plan names no stage twice, and the gate reopens the stage it judges.
ASSUME PlanAssumption ==
    /\ Plan \in Seq(Stages) /\ \A i, j \in 1..Len(Plan) : Plan[i] = Plan[j] => i = j
    /\ RankStage \in GateLeg

VARIABLES
    run,        \* the run document: status, stage records, tags, cancel flag
    lease,      \* lease_holder and lease_expires_at (live or not) of the run's row
    qgRound,    \* meta qg:round
    itRound,    \* meta iteration round
    feedback,   \* the run's feedback signals: "none", "fresh" (one unconsumed), "consumed"
    debt,       \* "yes" when a source document has not been verified
    ranked,     \* the quality gate's verdict on the stored ranked set
    spent,      \* "yes" when the receipts of the run reach the token cap
    proc,       \* each process's execution of the run
    consent,    \* history: did the user last ask for a full execution?
    used        \* how often each bounded event has happened

vars == <<run, lease, qgRound, itRound, feedback, debt, ranked, spent, proc, consent, used>>
meta == <<qgRound, itRound>>
facts == <<feedback, debt, ranked, spent>>

Statuses == {"created", "running", "paused", "partial", "completed", "cancelled"}
\* A skip whose reason carries a marker (budget or template refusal) is "held":
\* terminal for the pass, reopened by the next execution.
Terminal == {"done", "skipped", "held"}
StageStates == {"pending", "running", "failed"} \cup Terminal

Doc == [status : Statuses, st : [Stages -> StageStates], att : [Stages -> Nat],
        flags : SUBSET {"cancel", "parking"}]
NewRun == [status |-> "created", st |-> [s \in Stages |-> "pending"],
           att |-> [s \in Stages |-> 0], flags |-> {}]

Idle == [pc |-> "idle", doc |-> NewRun, next |-> NewRun, cont |-> "idle", opts |-> {},
         stage |-> ExportStage, leg |-> {}, late |-> 0]
Pcs == {"idle", "open", "acquire", "feedback", "epoch", "debt", "held", "parking", "start",
        "walk", "applicable", "handler", "progress", "gate", "regen", "settle", "iterate", "round", "complete",
        "write", "leave", "propose", "put", "dispatch", "dispatched"}
Proc == [pc : Pcs, doc : Doc, next : Doc, cont : Pcs, stage : Stages, leg : SUBSET Stages,
         opts : SUBSET {"limited", "proposal", "wasCompleted", "exhausted", "disowned"}, late : Nat]

TypeOK ==
    /\ run \in Doc
    /\ lease \in [holder : Procs \cup {Nobody, Gone}, live : {"yes", "no"}]
    /\ qgRound \in 1..MaxQualityRounds /\ itRound \in 1..MaxIterationRounds
    /\ feedback \in {"none", "fresh", "consumed"} /\ ranked \in {"none", "weak", "strong"}
    /\ debt \in {"yes", "no"} /\ spent \in {"yes", "no"} /\ consent \in {"yes", "no"}
    /\ proc \in [Procs -> Proc]
    /\ used \in [Events -> Nat] /\ \A e \in Events : used[e] <= Limit[e]

Init ==
    /\ run = NewRun
    /\ lease = [holder |-> Nobody, live |-> "no"]
    /\ qgRound = 1 /\ itRound = 1
    /\ feedback = "none" /\ debt = "no" /\ ranked = "none" /\ spent = "no"
    /\ proc = [p \in Procs |-> Idle]
    /\ consent = "no"
    /\ used = [e \in Events |-> 0]

-----------------------------------------------------------------------------
Bounded(e) ==
    /\ used[e] < Limit[e] /\ used["any"] < Limit["any"]
    /\ used' = [used EXCEPT ![e] = @ + 1, !["any"] = @ + 1]
At(p, pc) == proc[p].pc = pc
Has(p, o) == o \in proc[p].opts
Goto(p, pc) == proc' = [proc EXCEPT ![p].pc = pc]

\* The stages of leg that are in one of the states from become pending.
Reopened(d, leg, from) ==
    [d EXCEPT !.st = [s \in Stages |-> IF s \in leg /\ d.st[s] \in from THEN "pending" ELSE d.st[s]]]
\* Mutation of Running: a reopen that does not touch the status.
RunningLater(d) == d

Running(d) == [d EXCEPT !.status = "running"]
Marked(d, s, state) == [d EXCEPT !.st[s] = state]

\* Mutation of Transition: called without the lease argument.
TransitionUnfenced(p, me, next, cont) ==
    proc' = [proc EXCEPT ![p] = [me EXCEPT !.pc = "write", !.next = next, !.cont = cont]]

\* The first half of transition(): throw if the lease is in other hands, else
\* patch the stored document (next is an expression over run).  me is the
\* process after its own assignments.  Every caller lets the lost-lease error
\* end the execution without another write.
Transition(p, me, next, cont) ==
    proc' = [proc EXCEPT ![p] = IF lease.holder = p
                                THEN [me EXCEPT !.pc = "write", !.next = next, !.cont = cont]
                                ELSE [me EXCEPT !.pc = "leave"]]

\* The second half: updateRun, then renewLease, which touches only a lease
\* this process still holds.  late counts the writes of an execution made
\* after losing it.
Write(p) ==
    /\ At(p, "write")
    /\ run' = proc[p].next
    /\ lease' = IF lease.holder = p THEN [lease EXCEPT !.live = "yes"] ELSE lease
    /\ proc' = [proc EXCEPT ![p].pc = proc[p].cont, ![p].doc = proc[p].next, ![p].next = NewRun,
                            ![p].cont = "idle", ![p].late = @ + IF lease.holder = p THEN 0 ELSE 1]
    /\ UNCHANGED <<meta, facts, consent, used>>

-----------------------------------------------------------------------------
(* Launching *)

Free == lease.live = "no"
Launch(p, me) == proc' = [proc EXCEPT ![p] = me]

\* A full execution: POST /runs, POST /runs/:id/resume and far research
\* resume.  The server refuses up front while any live lease exists.
UserResume(p) ==
    /\ At(p, "idle") /\ Bounded("resume")
    /\ p \in Servers => Free
    /\ Launch(p, [Idle EXCEPT !.pc = "open"]) /\ consent' = "yes"
    /\ UNCHANGED <<run, lease, meta, facts>>

\* A limited execution: the CLI's --stop-after, or the server's scope proposal
\* of a run that has not been launched.  Both first store the parking tag
\* with a whole-document write of their own.
UserLimited(p) ==
    /\ At(p, "idle") /\ Bounded("limited")
    /\ p \in Servers => run.status \in {"created", "paused"}
    /\ LET opts == {"limited"} \cup IF p \in Servers THEN {"proposal"} ELSE {}
       IN  IF "parking" \in run.flags
           THEN Launch(p, [Idle EXCEPT !.pc = "open", !.opts = opts])
           ELSE Launch(p, [Idle EXCEPT !.pc = "put", !.cont = "open", !.opts = opts,
                                       !.next = [run EXCEPT !.flags = @ \cup {"parking"}]])
    /\ consent' = "no"
    /\ UNCHANGED <<run, lease, meta, facts>>

\* updateRun outside the orchestrator: no lease is checked.  The write that
\* closes a scope proposal is one more late write when the execution had lost
\* its lease, or when somebody has claimed the run since.
Late(p) == proc[p].late + IF Has(p, "disowned") \/ lease.holder # Nobody THEN 1 ELSE 0
Put(p) ==
    /\ At(p, "put")
    /\ run' = proc[p].next
    /\ proc' = [proc EXCEPT ![p] = IF proc[p].cont = "idle" THEN [Idle EXCEPT !.late = Late(p)]
                                   ELSE [proc[p] EXCEPT !.pc = proc[p].cont, !.next = NewRun, !.cont = "idle"]]
    /\ UNCHANGED <<lease, meta, facts, consent, used>>

\* execute() reads the document before it claims the lease.
ExecRead(p) ==
    /\ At(p, "open")
    /\ proc' = [proc EXCEPT ![p].pc = "acquire", ![p].doc = run]
    /\ UNCHANGED <<run, lease, meta, facts, consent, used>>

\* Mutation of CanAcquire: an expired lease is not reclaimable.
CanAcquireUnheld(p) == lease.holder \in {Nobody, p}

\* acquireLease: only a live lease of another holder refuses.
CanAcquire(p) == Free \/ lease.holder = p

ExecAcquire(p) ==
    /\ At(p, "acquire")
    /\ IF CanAcquire(p)
       THEN lease' = [holder |-> p, live |-> "yes"] /\ Goto(p, "feedback")
       ELSE Goto(p, "leave") /\ UNCHANGED lease
    /\ UNCHANGED <<run, meta, facts, consent, used>>

\* Mutation of Adoptable: the watchdog does not look at the parking tag.
AdoptableParked == run.status = "running" /\ Free

\* sweepExpiredLeases: the frozen-run signature, parked drafts exempt.
Adoptable == run.status = "running" /\ Free /\ "parking" \notin run.flags

Watchdog(p) ==
    /\ p \in Servers /\ At(p, "idle") /\ Adoptable
    /\ Launch(p, [Idle EXCEPT !.pc = "open"])
    /\ UNCHANGED <<run, lease, meta, facts, consent, used>>

\* POST /runs/:id/dispatch of a settled run: claim the lease, reopen a leg,
\* release the lease, launch.
Dispatch(p, leg) ==
    /\ p \in Servers /\ At(p, "idle") /\ run.status # "running" /\ CanAcquire(p)
    /\ Bounded("dispatch")
    /\ \/ leg = ExperimentLeg
       \/ leg = FeedbackLeg /\ feedback = "fresh"
       \/ leg = EvidenceLeg /\ debt = "yes"
    /\ lease' = [holder |-> p, live |-> "yes"]
    /\ Launch(p, [Idle EXCEPT !.pc = "dispatch", !.leg = leg])
    /\ consent' = "yes"
    /\ UNCHANGED <<run, meta, facts>>

DispatchReopen(p) ==
    /\ At(p, "dispatch")
    /\ Transition(p, proc[p], Running(Reopened(run, proc[p].leg, Terminal \cup {"failed"})), "dispatched")
    /\ UNCHANGED <<run, lease, meta, facts, consent, used>>

DispatchLaunch(p) ==
    /\ At(p, "dispatched")
    /\ lease' = IF lease.holder = p THEN [holder |-> Nobody, live |-> "no"] ELSE lease
    /\ proc' = [proc EXCEPT ![p] = [Idle EXCEPT !.pc = "open"]]
    /\ UNCHANGED <<run, meta, facts, consent, used>>

-----------------------------------------------------------------------------
(* executeOwned, before the stage walk *)

\* wasCompleted is remembered for the reopens that follow.
Entered(p) ==
    [proc[p] EXCEPT !.opts = (@ \ {"wasCompleted"})
                                \cup IF proc[p].doc.status = "completed" THEN {"wasCompleted"} ELSE {}]
FeedbackReopens(p) == proc[p].doc.status = "completed" /\ feedback # "none"

FeedbackReopen(p) ==
    /\ At(p, "feedback")
    /\ IF FeedbackReopens(p)
       THEN Transition(p, Entered(p), Running(Reopened(run, FeedbackLeg, Terminal)), "epoch")
       ELSE proc' = [proc EXCEPT ![p] = [Entered(p) EXCEPT !.pc = "debt"]]
    /\ UNCHANGED <<run, lease, meta, facts, consent, used>>

\* A fresh iteration epoch: the meta write after the transition.
FeedbackEpoch(p) ==
    /\ At(p, "epoch")
    /\ itRound' = 1 /\ Goto(p, "debt")
    /\ UNCHANGED <<run, lease, qgRound, facts, consent, used>>

DebtReopen(p) ==
    /\ At(p, "debt")
    /\ IF Has(p, "wasCompleted") /\ debt = "yes"
       THEN Transition(p, proc[p], Running(Reopened(run, EvidenceLeg, Terminal)), "held")
       ELSE Goto(p, "held")
    /\ UNCHANGED <<run, lease, meta, facts, consent, used>>

\* makeRunBudget re-derives the spend from the receipts; then the marked
\* skips of this process's copy are reopened, whatever the status is.  (The
\* two kinds of marker are one state here, so their two reopens are one.)
HeldReopen(p) ==
    /\ At(p, "held")
    /\ LET held == {s \in Stages : proc[p].doc.st[s] = "held"}
           opts == (proc[p].opts \ {"exhausted"}) \cup IF spent = "yes" THEN {"exhausted"} ELSE {}
           me == [proc[p] EXCEPT !.opts = opts]
       IN  IF held # {}
           THEN Transition(p, me, Reopened(run, held, StageStates), "parking")
           ELSE proc' = [proc EXCEPT ![p] = [me EXCEPT !.pc = "parking"]]
    /\ UNCHANGED <<run, lease, meta, facts, consent, used>>

\* Mutation of ParkingClear: the tag is cleared only when the status changes too.
ParkingClearStopped(p) ==
    /\ At(p, "parking")
    /\ IF ~Has(p, "limited") /\ "parking" \in proc[p].doc.flags /\ proc[p].doc.status # "running"
       THEN Transition(p, proc[p], [run EXCEPT !.flags = @ \ {"parking"}], "start")
       ELSE Goto(p, "start")
    /\ UNCHANGED <<run, lease, meta, facts, consent, used>>

\* A full execution takes over: a parking tag left by a crashed draft goes.
ParkingClear(p) ==
    /\ At(p, "parking")
    /\ IF ~Has(p, "limited") /\ "parking" \in proc[p].doc.flags
       THEN Transition(p, proc[p], [run EXCEPT !.flags = @ \ {"parking"}], "start")
       ELSE Goto(p, "start")
    /\ UNCHANGED <<run, lease, meta, facts, consent, used>>

StatusRunning(p) ==
    /\ At(p, "start")
    /\ IF proc[p].doc.status # "running" THEN Transition(p, proc[p], Running(run), "walk") ELSE Goto(p, "walk")
    /\ UNCHANGED <<run, lease, meta, facts, consent, used>>

-----------------------------------------------------------------------------
(* The stage walk *)

Index(s) == CHOOSE i \in 1..Len(Plan) : Plan[i] = s
\* nextWorkflowStep on the linear plan: the first stage not done or skipped.
Unfinished(p) == {i \in 1..Len(Plan) : proc[p].doc.st[Plan[i]] \notin Terminal}
IsNext(p, i) == i \in Unfinished(p) /\ \A k \in Unfinished(p) : i <= k
StopsBefore(p, i) == Has(p, "limited") /\ i >= Index(StopStage)
BudgetGates(p, s) == s # ExportStage /\ Has(p, "exhausted")

WalkEnd(p) ==
    /\ At(p, "walk")
    /\ \A i \in 1..Len(Plan) : IsNext(p, i) => StopsBefore(p, i)
    /\ Goto(p, "settle")
    /\ UNCHANGED <<run, lease, meta, facts, consent, used>>

WalkBudgetSkip(p) ==
    /\ At(p, "walk")
    /\ \E i \in 1..Len(Plan) :
         /\ IsNext(p, i) /\ ~StopsBefore(p, i) /\ BudgetGates(p, Plan[i])
         /\ Transition(p, proc[p], Marked(run, Plan[i], "held"), "walk")
    /\ UNCHANGED <<run, lease, meta, facts, consent, used>>

\* The attempt number is computed from this process's copy of the document.
WalkStart(p) ==
    /\ At(p, "walk")
    /\ \E i \in 1..Len(Plan) :
         LET s == Plan[i] IN
         /\ IsNext(p, i) /\ ~StopsBefore(p, i) /\ ~BudgetGates(p, s)
         /\ Transition(p, [proc[p] EXCEPT !.stage = s],
                       [run EXCEPT !.st[s] = "running", !.att[s] = proc[p].doc.att[s] + 1],
                       "applicable")
    /\ UNCHANGED <<run, lease, meta, facts, consent, used>>

NotApplicable(p) ==
    /\ At(p, "applicable")
    /\ Transition(p, proc[p], Marked(run, proc[p].stage, "skipped"), "walk")
    /\ UNCHANGED <<run, lease, meta, facts, consent, used>>

\* The catch branch: a failure under a cancel request is a cancellation and
\* consumes the request.
FailTo(d, s, cancelled) ==
    IF cancelled
    THEN [Marked(d, s, "failed") EXCEPT !.status = "cancelled", !.flags = @ \ {"cancel"}]
    ELSE [Marked(d, s, "failed") EXCEPT !.status = "partial"]

CancelRequested == "cancel" \in run.flags

\* Before the handler runs: 'cancelled by user', or go ahead.
HandlerCancelled(p) ==
    /\ At(p, "applicable") \/ At(p, "handler")
    /\ CancelRequested
    /\ Transition(p, proc[p], FailTo(run, proc[p].stage, TRUE), "leave")
    /\ UNCHANGED <<run, lease, meta, facts, consent, used>>

HandlerEnter(p) ==
    /\ At(p, "applicable") /\ ~CancelRequested
    /\ Goto(p, "handler")
    /\ UNCHANGED <<run, lease, meta, facts, consent, used>>

\* A receipt: the lease is renewed, and the cap may be reached.
HandlerSpend(p) ==
    /\ At(p, "handler") /\ spent = "no" /\ Bounded("exhaust")
    /\ spent' = "yes"
    /\ proc' = [proc EXCEPT ![p].opts = @ \cup {"exhausted"}]
    /\ lease' = IF lease.holder = p THEN [lease EXCEPT !.live = "yes"] ELSE lease
    /\ UNCHANGED <<run, meta, feedback, debt, ranked, consent>>

HandlerReceipt(p) ==
    /\ At(p, "handler") /\ lease = [holder |-> p, live |-> "no"]
    /\ lease' = [lease EXCEPT !.live = "yes"]
    /\ UNCHANGED <<run, meta, facts, proc, consent, used>>

\* progress(): a read and a write of the document around nothing but subtask
\* counts, checked against the lease once and renewing nothing.
HandlerProgress(p) ==
    /\ At(p, "handler") /\ lease.holder = p /\ Bounded("progress")
    /\ proc' = [proc EXCEPT ![p].pc = "progress", ![p].next = run]
    /\ UNCHANGED <<run, lease, meta, facts, consent>>

ProgressWrite(p) ==
    /\ At(p, "progress")
    /\ run' = proc[p].next
    /\ proc' = [proc EXCEPT ![p].pc = "handler", ![p].next = NewRun,
                            ![p].late = @ + IF lease.holder = p THEN 0 ELSE 1]
    /\ UNCHANGED <<lease, meta, facts, consent, used>>

\* The handler's objects are stored before the stage is marked done: the
\* ranked set, the revisions that consume feedback, the verifications.
HandlerDone(p) ==
    LET s == proc[p].stage IN
    /\ At(p, "handler")
    /\ feedback' = IF s = ReviseStage /\ feedback = "fresh" THEN "consumed" ELSE feedback
    /\ debt' = IF s = VerifyStage THEN "no" ELSE debt
    /\ \/ s = RankStage /\ ranked' \in {"weak", "strong"}
       \/ s # RankStage /\ ranked' = ranked
    /\ Transition(p, proc[p], Marked(run, s, "done"), IF s = RankStage THEN "gate" ELSE "walk")
    /\ UNCHANGED <<run, lease, meta, spent, consent, used>>

\* The outcome is a skip: for a domain reason, or with a marker (the budget
\* ran out in the middle, or template content was refused).
HandlerSkip(p, state) ==
    /\ At(p, "handler")
    /\ Transition(p, proc[p], Marked(run, proc[p].stage, state), "walk")
    /\ UNCHANGED <<run, lease, meta, facts, consent, used>>

HandlerFail(p) ==
    /\ At(p, "applicable") \/ At(p, "handler")
    /\ ~CancelRequested /\ Bounded("fail")
    /\ Transition(p, proc[p], FailTo(run, proc[p].stage, FALSE), "leave")
    /\ UNCHANGED <<run, lease, meta, facts, consent>>

\* A checkpoint inside the handler finds the lease in other hands.
HandlerDisowned(p) ==
    /\ At(p, "handler") /\ lease.holder # p
    /\ Goto(p, "leave")
    /\ UNCHANGED <<run, lease, meta, facts, consent, used>>

\* Mutation of GateOpens: the round is compared with the wrong bound.
GateOpensEarly(p) == ranked = "weak" /\ qgRound < MaxQualityRounds - 1 /\ ~Has(p, "exhausted")

GateOpens(p) == ranked = "weak" /\ qgRound < MaxQualityRounds /\ ~Has(p, "exhausted")

\* The quality gate after rank: the round counter is stored first ...
GateRound(p) ==
    /\ At(p, "gate")
    /\ IF GateOpens(p)
       THEN qgRound' = qgRound + 1 /\ Goto(p, "regen")
       ELSE Goto(p, "walk") /\ UNCHANGED qgRound
    /\ UNCHANGED <<run, lease, itRound, facts, consent, used>>

\* ... then the stages are reopened.
GateReopen(p) ==
    /\ At(p, "regen")
    /\ Transition(p, proc[p], Reopened(run, GateLeg, StageStates), "walk")
    /\ UNCHANGED <<run, lease, meta, facts, consent, used>>

-----------------------------------------------------------------------------
(* The end of a pass *)

Parks(p) == Has(p, "limited") /\ proc[p].doc.status = "running"

Park(p) ==
    /\ At(p, "settle") /\ Parks(p)
    /\ Transition(p, proc[p], [run EXCEPT !.status = "paused", !.flags = @ \ {"parking"}], "leave")
    /\ UNCHANGED <<run, lease, meta, facts, consent, used>>

PassEnd(p) ==
    /\ At(p, "settle") /\ ~Parks(p)
    /\ Goto(p, IF Unfinished(p) = {} THEN "iterate" ELSE "leave")
    /\ UNCHANGED <<run, lease, meta, facts, consent, used>>

\* Mutation of MayIterate: an off-by-one at the round cap.
MayIteratePast(p) == itRound <= MaxIterationRounds /\ ~Has(p, "exhausted")

\* The stop rules that come first in evaluateIteration.
MayIterate(p) == itRound < MaxIterationRounds /\ ~Has(p, "exhausted")

\* The first trigger that applies: unconsumed feedback, else an executable
\* plan without an experiment.
IterateContinue(p) ==
    /\ At(p, "iterate") /\ MayIterate(p)
    /\ itRound' = itRound + 1
    /\ proc' = [proc EXCEPT ![p].pc = "round",
                            ![p].leg = IF feedback = "fresh" THEN FeedbackLeg ELSE ExperimentLeg]
    /\ UNCHANGED <<run, lease, qgRound, facts, consent, used>>

\* A stop rule, or no actionable leg.  In the first round fresh feedback
\* leaves no reason to stop; later a round without a material change does.
IterateStop(p) ==
    /\ At(p, "iterate")
    /\ MayIterate(p) /\ itRound = 1 => feedback # "fresh"
    /\ Goto(p, "complete")
    /\ UNCHANGED <<run, lease, meta, facts, consent, used>>

\* The next round recurses into executeOwned with the document just written.
IterateReopen(p) ==
    /\ At(p, "round")
    /\ Transition(p, [proc[p] EXCEPT !.leg = {}],
                  Reopened(run, proc[p].leg, StageStates), "feedback")
    /\ UNCHANGED <<run, lease, meta, facts, consent, used>>

Complete(p) ==
    /\ At(p, "complete")
    /\ Transition(p, proc[p], [run EXCEPT !.status = "completed"], "leave")
    /\ UNCHANGED <<run, lease, meta, facts, consent, used>>

\* An execution is over; the handler of a scope proposal goes on.
Left(p) == IF Has(p, "proposal")
           THEN [Idle EXCEPT !.pc = "propose", !.late = proc[p].late,
                             !.opts = IF lease.holder = p THEN {} ELSE {"disowned"}]
           ELSE Idle

\* Mutation of Leave: the release does not ask who holds the lease.
LeaveAnyLease(p) ==
    /\ At(p, "leave")
    /\ lease' = [holder |-> Nobody, live |-> "no"]
    /\ proc' = [proc EXCEPT ![p] = Left(p)]
    /\ UNCHANGED <<run, meta, facts, consent, used>>

\* execute()'s finally: release the lease if it is still ours.
Leave(p) ==
    /\ At(p, "leave")
    /\ lease' = IF lease.holder = p THEN [holder |-> Nobody, live |-> "no"] ELSE lease
    /\ proc' = [proc EXCEPT ![p] = Left(p)]
    /\ UNCHANGED <<run, meta, facts, consent, used>>

\* The scope proposal ends with a whole-document write of its own, whatever
\* became of the execution, if the first stage is done.
Propose(p) ==
    /\ At(p, "propose")
    /\ proc' = [proc EXCEPT ![p] = IF run.st[Plan[1]] = "done"
                                   THEN [proc[p] EXCEPT !.pc = "put", !.next = [run EXCEPT !.status = "paused"]]
                                   ELSE Idle]
    /\ UNCHANGED <<run, lease, meta, facts, consent, used>>

-----------------------------------------------------------------------------
(* Everybody else *)

\* requestCancel: one atomic statement on the flag alone.
RequestCancel ==
    /\ run.status \in {"created", "running", "paused", "partial"}
    /\ ~CancelRequested /\ Bounded("cancel")
    /\ run' = [run EXCEPT !.flags = @ \cup {"cancel"}]
    /\ UNCHANGED <<lease, meta, facts, proc, consent>>

InjectFeedback ==
    /\ feedback # "fresh" /\ Bounded("feedback")
    /\ feedback' = "fresh"
    /\ UNCHANGED <<run, lease, meta, debt, ranked, spent, proc, consent>>

SeedEvidence ==
    /\ debt = "no" /\ Bounded("evidence")
    /\ debt' = "yes"
    /\ UNCHANGED <<run, lease, meta, feedback, ranked, spent, proc, consent>>

\* The cap is read from the environment, so raising it takes a restart.
RaiseBudget ==
    /\ spent = "yes" /\ \A p \in Procs : At(p, "idle")
    /\ Bounded("raise")
    /\ spent' = "no"
    /\ UNCHANGED <<run, lease, meta, feedback, debt, ranked, proc, consent>>

\* A restarted process has a new holder id: the old one is nobody's.
Crash(p) ==
    /\ ~At(p, "idle") /\ Bounded("crash")
    /\ proc' = [proc EXCEPT ![p] = Idle]
    /\ lease' = IF lease.holder = p THEN [lease EXCEPT !.holder = Gone] ELSE lease
    /\ UNCHANGED <<run, meta, facts, consent>>

\* Time passes: a dead holder's lease expires.
LeaseExpires ==
    /\ lease = [holder |-> Gone, live |-> "yes"]
    /\ lease' = [lease EXCEPT !.live = "no"]
    /\ UNCHANGED <<run, meta, facts, proc, consent, used>>

\* A live executor is suspended, or sits in a call, past the lease's TTL.
Stall ==
    /\ lease.holder \in Procs /\ lease.live = "yes" /\ Bounded("stall")
    /\ lease' = [lease EXCEPT !.live = "no"]
    /\ UNCHANGED <<run, meta, facts, proc, consent>>

Prelude(p) ==
    \/ Write(p) \/ Put(p) \/ ExecRead(p) \/ ExecAcquire(p) \/ DispatchReopen(p) \/ DispatchLaunch(p)
    \/ FeedbackReopen(p) \/ FeedbackEpoch(p) \/ DebtReopen(p) \/ HeldReopen(p) \/ ParkingClear(p)
    \/ StatusRunning(p)
Walk(p) ==
    \/ WalkEnd(p) \/ WalkBudgetSkip(p) \/ WalkStart(p) \/ NotApplicable(p) \/ HandlerCancelled(p)
    \/ HandlerEnter(p) \/ HandlerSpend(p) \/ HandlerReceipt(p) \/ HandlerDone(p)
    \/ HandlerProgress(p) \/ ProgressWrite(p)
    \/ \E state \in {"skipped", "held"} : HandlerSkip(p, state)
    \/ HandlerFail(p) \/ HandlerDisowned(p) \/ GateRound(p) \/ GateReopen(p)
Finish(p) ==
    \/ Park(p) \/ PassEnd(p) \/ IterateContinue(p) \/ IterateStop(p) \/ IterateReopen(p)
    \/ Complete(p) \/ Leave(p) \/ Propose(p)
Execute(p) == Prelude(p) \/ Walk(p) \/ Finish(p)

Next ==
    \/ \E p \in Procs : \/ Execute(p) \/ UserResume(p) \/ UserLimited(p) \/ Watchdog(p) \/ Crash(p)
                        \/ \E leg \in {EvidenceLeg, FeedbackLeg, ExperimentLeg} : Dispatch(p, leg)
    \/ RequestCancel \/ InjectFeedback \/ SeedEvidence \/ RaiseBudget \/ LeaseExpires \/ Stall

Spec == Init /\ [][Next]_vars

\* A process that has not crashed keeps running its execution; the server's
\* sweep runs on a timer; the clock reaches the expiry of a lease.
Fairness ==
    /\ \A p \in Procs : WF_vars(Execute(p)) /\ WF_vars(Watchdog(p))
    /\ WF_vars(LeaseExpires)
FairSpec == Spec /\ Fairness

-----------------------------------------------------------------------------
(* Properties *)

\* A completed run holds no stage that is running or has failed: completion,
\* the reopens of executeOwned and of dispatch, and a crash in the middle of
\* any of them always move the status before a stage starts again.
CompletedIsSettled ==
    run.status = "completed" => \A s \in Stages : run.st[s] \in Terminal \cup {"pending"}

StopStageNeedsConsent ==
    \A s \in Stages : Index(s) >= Index(StopStage) /\ run'.att[s] > run.att[s] => consent = "yes"

\* A draft the user asked to stop early is never carried past the stop stage,
\* by the watchdog or anyone, until the user asks for a full execution: the
\* parking tag covers the crash before the park, the status covers the rest.
DraftStaysParked == [][StopStageNeedsConsent]_vars

\* As long as no live executor has outlasted its lease, no two processes are
\* inside the stage machine's paid work at once, whatever refusals, releases,
\* crashes and adoptions happen in between (acquireLease, execute's finally).
OneExecutor ==
    used["stall"] = 0 => \A p, q \in Procs : At(p, "handler") /\ At(q, "handler") => p = q

\* An execution that has lost its lease writes the run document at most once
\* more: the transition, or the progress report, that was past its check
\* (orchestrator.ts:169-177, :254-261).  Only the handler of a scope proposal
\* does so a second time, when its execution is over: it closes with a write
\* that asks for no lease (api.ts:1443-1444).
DisownedWritesBounded ==
    \A p \in Procs : proc[p].late <= IF At(p, "idle") THEN 2 ELSE 1

\* The gate has nothing left to ask of the ranked set, or was defeated.
Gated == \/ ranked # "weak" \/ qgRound = MaxQualityRounds \/ spent = "yes"
         \/ used["crash"] > 0 \/ used["raise"] > 0
StartsGated ==
    \A s \in Stages : Index(s) > Index(RankStage) /\ run'.att[s] > run.att[s]
                        /\ run'.st[RankStage] = "done" => Gated

\* No stage after a rank that is done starts on a ranked set that the quality
\* gate would still send back, whatever dispatches, feedback, drafts and new
\* evidence reopen.  Two things defeat the gate: a crash between rank and the
\* gate, and a budget that was exhausted at the gate and is raised afterwards.
RankedSetIsGated == [][StartsGated]_vars

\* A full execution that is under way carries no parking tag, so that a crash
\* of it can be adopted: a tag left by a crashed draft is cleared, whatever
\* status the draft died in.  (With one process: a second one may tag the run
\* of the first.)
FullExecutionIsAdoptable ==
    \A p \in Procs : At(p, "handler") /\ ~Has(p, "limited") => "parking" \notin run.flags

\* A run that is running and not parked comes to rest: whoever executes it
\* finishes, or dies and the watchdog adopts the run.
FrozenRunSettles ==
    run.status = "running" /\ "parking" \notin run.flags
        ~> run.status # "running" \/ "parking" \in run.flags

-----------------------------------------------------------------------------
(* What the repository says and the code does not do *)

\* store.ts:976-978, on requestCancel: a whole-document read-modify-write could
\* "erase the flag".  A cancel request, once stored, disappears only by
\* cancelling the run.
CancelIsKept ==
    [][CancelRequested /\ "cancel" \notin run'.flags => run'.status = "cancelled"]_vars

\* orchestrator.ts:170-171: "a disowned worker must never write run state".
DisownedNeverWrites == \A p \in Procs : proc[p].late = 0

\* orchestrator.ts:333: "A completed run reopens ONLY when new feedback signals
\* arrived".  A signal that a revision has consumed is not new.
ReopensOnlyOnNewFeedback ==
    [][run.status = "completed" /\ run.st[ReviseStage] = "done" /\ run'.st[ReviseStage] = "pending"
         => feedback = "fresh"]_vars
=============================================================================
