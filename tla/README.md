# A TLA+ verification project for FAR-Lab

FAR-Lab is a local-first research system.  A *run* takes a question through twelve
stages (scope, retrieve, verify_sources, build_evidence, generate_hypotheses,
critique_falsify, rank, plan, execute, feedback, revise, export).  A language model does
the work of the stages; experiments are trained by worker processes in between.  All that
must survive a crash lives in two SQLite files, `far.db` (objects, runs, events, leases,
outbox) and `far-scheduler.db` (the experiment job queue), with content-addressed
artifacts beside them.  The API server, CLI runs and CLI experiment workers are separate
operating-system processes that open the same files, so what one of them reads may have
changed by the time it writes, and any of them may die between two statements.  That is
what these specifications are about.

Paths below are relative to the repository's `src/` directory unless they say otherwise.

## Inventory

### The components that are modelled now

| Component | State | Operations | Interacts with |
|---|---|---|---|
| Job queue, `experiment/scheduler.ts` | `jobs` rows: status, fence token, worker, heartbeat, attempts, cancel flag, priority, device | `enqueue`, `claimNext`, `heartbeat`, `complete`, `cancel`, `requeueDead` | CLI processes; far.db through the `onDead` hook |
| Outbox, `persistence/store.ts` and `drainOutbox` | intents in far.db, pending or drained | record with the run object, list pending, mark | job queue |
| Experiment executor, `experiment/executor.ts` | `experiment_run`, `result_set`, `stat_report`, `feedback` objects | `executeExperiment` | far.db, the training sidecar, the job's cancel flag |
| Worker and operator, `runSchedulerWorker`, `cli/experiment.ts` | the claim held in memory | worker loop, enqueue, run, cancel, requeue | all of the above |
| Orchestrator, `app/orchestrator.ts` | the run document: status, a record per stage, tags, cancel flag; meta counters for quality and iteration rounds | `execute`, `cancel`, `reopenStages` | stage handlers, leases, budget, quality gate, iteration controller |
| Leases, `persistence/store.ts` | holder and expiry on the run's row | `acquireLease`, `renewLease`, `releaseLease`, `listExpiredLeaseRuns`, `requestCancel` | every executor |
| Launching, `server/api.ts`, `cli/main.ts` | the server's map of executions under way | create, resume, dispatch, scope proposal, cancel; the watchdog's sweep | orchestrator |
| Agent session, `agent/loop.ts`, `agent/rollout.ts`, `agent/compaction.ts` | transcript, effect ledger and counters in memory; the rollout file | start, resume, turn, compaction, tool call, finish | conversations and refinement, which start and resume sessions; tools |
| Conversations, `server/conversations.ts`, `server/conversation-agent.ts` | the conversation document: messages, proposals, grants, run ids; the gate of turns in flight | post, retry, land or fail a turn, approve, reject, forget grants, delete | agent session, runs it launches, automations |
| Automations, `server/automations.ts` | a row per automation: switch, last fire, announced runs | tick, claim, fire, markFired, PATCH, DELETE | conversations it fires into, completed runs |
| Model calls, `pipeline/llm.ts`, `pipeline/stages/shared.ts`, `providers/http.ts`, `providers/fallback.ts`, `app/spend-limit.ts`, `app/run-budget.ts` | slots and their queue, cooldowns, the budget's counter; receipts and step outputs in far.db | mapBounded, invokeStructured, failover, retries, re-asks, checkpointed, cancel | orchestrator (lease, cancel), every stage |
| Workspace, `app/backup-restore.ts`, `cli/gc.ts`, `persistence/artifacts.ts` | database files with their logs, files moved aside, backup sets, blobs and temporary files | put, delete a run, collect, back up, restore and roll back | the running server |

What makes them correct: a job is settled only by the process that was handed it last,
is retried a bounded number of times and always settles; an accepted enqueue reaches the
queue; the two files agree on how an experiment ended; a run has one executor; a disowned
executor soon stops writing; a run whose executor died is carried on, unless it is a draft the
user parked; completion means what it says; an effect that was committed is not repeated by a
resumed session, and crashes buy no model turns; nothing said in a conversation is lost,
misplaced or left without an outcome; a run that completes among the recent ones is
announced and a switched-off automation stays off; overlapped model calls fail as sequential ones would, spend a
bounded amount past the cap, use step outputs of the present inputs and end; a restore
destroys nothing and leaves no mixture.

### The components that are not modelled

The protocol ledger, research memory, the campaign driver and remote execution have state
or a crash to survive and are on the plan below.  Of the modelled parts these remain
outside: the event log's hash chain and object versions, the replay buffer and the
steering queue of the turn hub, sub-agents and MCP connections, agent steps and plan
revisions in the orchestrator.

Not planned: what the twelve stage handlers compute from model output (data), statistics
and numerics (floating point is out of TLC's reach), the parsers of `ingest` and adapters
of `sources` (I/O), the report renderers, the web workbench, desktop shell and terminal UI
(clients, well over half of the repository's lines), the Python runtime.  `PROJECT.json`
lists each with its sources and the reason.

### Where the difficulty is

* **Two stores.** An enqueue, a dead-letter and a completion touch both files and no
  transaction spans them.
* **Zombies.** A process that stalls past a heartbeat TTL or a lease TTL is replaced
  and does not know it.
* **Read-modify-write.** The run document is one JSON value that is read, patched and
  written whole by whoever executes, tags or parks the run.
* **Stale copies.** `execute` reads the run before it owns it; the executor of
  experiments reads the prior reports an hour before it uses them.
* **Crashes between a fact and its consequence.** A stage is stored as done and the
  quality gate has not been asked; a report is stored and its feedback is not.
* **Minutes between a read and a write.** A conversation's turn, a fired automation and a
  batch of model calls read a document, wait for a model, and write.
* **Append-only files.** A session is rebuilt from a file whose last lines may be missing
  or torn, after a compaction replaced what the earlier lines said.
* **Consent.** A draft must not be carried on by the recovery machinery that carries on
  everything else.

The `hazards` of `PROJECT.json` put each of these at its line.

## Modules

| Module | Models | Instances |
|---|---|---|
| `JobQueue` | the jobs table; one action per SQL transaction of the scheduler | `MCJobQueue` |
| `JobQueueProofs` | theorems about `JobQueue` | |
| `ExperimentExec` | enqueueing, draining, working and executing over both files; instantiates `JobQueue` for the table and is shown to implement it | `MCExperimentExec` |
| `RunLifecycle` | one run, its lease and the processes that may execute it | `MCRunLifecycle` |
| `ExperimentExecProofs` | theorems about `ExperimentExec` | |
| `RunLifecycleProofs` | theorems about `RunLifecycle` | |
| `AgentSession` | one agent session, its rollout file, its interruptions and resumes | `MCAgentSession` |
| `AgentSessionProofs` | theorems about `AgentSession` | |
| `Dialogue` | abstract: what may happen to the transcript of a conversation | |
| `Conversations` | one conversation with its turn, approvals and fired turns; shown to implement `Dialogue` | `MCConversations` |
| `ConversationsProofs` | theorems about `Conversations`, the refinement among them | |
| `Automations` | the stored automations and the server processes that pass over them | `MCAutomations` |
| `AutomationsProofs` | theorems about `Automations` | |
| `ModelCalls` | one batch of model calls of a stage, down to the attempts on the wire | `MCModelCalls` |
| `ModelCallsProofs` | theorems about `ModelCalls` | |
| `Workspace` | the files of a workspace and the commands that back up, restore and collect | `MCWorkspace` |
| `WorkspaceProofs` | theorems about `Workspace` | |

### JobQueue

`job` is the table, with a row per job id (`"absent"` before the insert).  `held` is the
claim each worker process has in memory, which may be out of date; that the two can
differ is the point of the module.  Time is reduced to what `claimNext` reads of it: a
heartbeat is fresh or stale, and `Expire` makes a fresh one stale at any moment.  `Owns`
is the WHERE clause shared by `heartbeat` and `complete`.  `ClaimNext` and `DeadLetter`
are the two outcomes of `claimNext` on the row that `Picked` selects: live rows of the
device are counted against the caller's limit, then the best queued or stale row by
priority and insertion order.  `requeueDead` resets attempts and raises the fence, and
keeps the cancel flag, as its SET list does.  `MaxRequeues` bounds the operator.

### ExperimentExec

Each transaction of either file is one action and a process may crash between any two.
An enqueuer reads far.db, drains what earlier processes left, writes run, event and
intent in one transaction, drains again and returns.  A worker drains, polls, executes
and completes.  The dead-letter hook writes far.db *inside* the open scheduler
transaction, so it is two steps (`DeadLetterProject`, `DeadLetterCommit`) with `lock`
held in between and a rollback if the process dies there.  The executor's far.db writes
are kept (`ExecProject`, `ExecStart`, `ExecReport`, `ExecFeedback`, `ExecEnd`,
`ExecClose`); acquiring a dataset, training, auditing and computing statistics are reduced
to whether they got that far.  `tainted` is a history variable: the runs whose projection
was written by a process that was not entitled to, so that `StoresAgree` can say
precisely what the code does guarantee.  `owed` remembers the enqueues not yet served.
The module of the jobs table is an instance, `Q`, and `ImplementsQueue` is its `Spec`:
the composed system makes no step of the table that the queue alone does not have.

### RunLifecycle

`transition()` of the orchestrator is two steps here, as it is two SQL statements:
`Transition` (lease check, read, patch, re-check) and `Write` (update, renew).  A lease
lost between the two checks ends like one lost before the first, so both checks are in
the first step; what can happen between the re-check and the update is kept.
`executeOwned` is followed from its reopens (feedback, evidence debt, marked skips, stale
parking tag) through the walk over the plan, the handler's outcomes and the catch
branches, to the park, the iteration decision and completion.  A stage handler is a
choice among its outcomes, with the facts that later decisions read: a verdict on the
ranked set, feedback consumed, documents verified, the cap reached.  `progress()` inside
a handler is a read and a write of the document of its own.

The plan is the default linear one; an instance keeps one stage of each group that the
code reopens together (rank for the evidence and quality legs, revise for the feedback
and experiment legs, export for what they share), which is what the reopens can tell
apart.  A skip that carries a marker (`budget_exhausted`, `template_mode_refused`) is the
state `held`, since a later execution reopens it and a domain skip stays.  A process
that dies and comes back has a new holder id, so its old lease belongs to `Gone`.

`late` counts the writes that an execution makes to the run document after it lost the
lease.  The handler of a scope proposal goes on when its execution is over, whoever owns
the run by then, and closes with a write that checks nothing (`Put`, `api.ts:1443-1444`);
that write is counted too when its execution was disowned or the run has been claimed
since (`Late`).  Launching anything starts the count anew.

Left out so far: agent steps and revisions of the plan, missing handlers, the reopen for
a template-tainted bundle, the `qg:active` flag read by the hypotheses stage, the
watchdog's adoption backoff (a delay), audit events and kernel-control records (nothing
modelled reads them).

### AgentSession

A handler of the loop appends its lines to the rollout one synchronous write after the
other, and the process may die between any two of them and inside one.  A step therefore
changes memory at once and puts its lines into `pending`; `Flush` writes one, `Crash`
drops the rest (and may leave a torn fragment), and the loop goes on when all are
written.  `file` is not the list of lines but what `reconstructSession` reads from them:
the baseline and entries, the committed effects, the records, the call left open.
`Appended` is that reader, one line at a time.  A conversation resumes with the number of
records, a refinement with the highest recorded turn (`PriorTurns`), as their callers do.
The turn's ways to end (invalid output, unknown tool, accepted or rejected finish, denied,
bad arguments, abort, replay of a committed effect, success, failure) are one action each.
Micro-compaction (`Microcompact`, `MicroCompact`) cuts the payloads of older results in
memory and writes no line; a full compaction keeps entries of the cut transcript and
writes them.  An entry says whether it is `cut`, so the file may have in full what the
model was shown in short.  The step and total timeouts and `stopWhen` are set by no production caller and are left
out.  `done` in `file`, `asked` and `ran` are ghosts for the properties.

### Dialogue and Conversations

`Dialogue` has a transcript, and four things that can happen to it: the researcher says
something at the end, a reply is put right behind the message it answers (once), a note
comes at the end, and the whole is deleted for good.  `Conversations` has the document as
it is stored, the one turn that holds the gate, approvals that are being executed, and a
fired automation turn.  What a handler does between two awaits is one step.  The
refinement maps `transcript` to the stored messages and `live` to the document's
existence: drafts, failure marks, cards, grants and crashes are stutters, and the landing
of a reply must be an `Answer` although records, replies and outcomes were stored since
its message was.  A fired turn's reply answers nobody (`Unprompted`).  The cards a turn
proposed are a set: no later step depends on their order.  A run is named by the card that
launched it.  Deleting a run takes its id out of the conversation (`DeleteRun`,
`DetachRun`); `detached` is a history variable of the runs that left that way.  The cascade
that deletes the run's own rows is in `Workspace`; a crash between the two leaves an id
in the conversation whose run is gone.

### Automations

`row` is the table, `proc` the pass of each server process over the rows it read at its
start.  `Fire` is the claim and the notice; a crash may fall between the two (`Crash`).
`TurnEnds` is `markFired` on the row as it is now; a turn that failed and cannot be
recorded, the conversation being gone or full, throws out of the pass (`TurnThrows`).  Runs
are numbered as they are created, complete, and may be reopened or deleted.  The engine
looks at the `Window` newest of them (`listRuns(60)`, `Recent`), newest first
(`NewestFirst`), and remembers the last `MaxNotified` ids (`slice(-50)`).  Time only moves
schedules.
Creating an automation is the initial state.  A row that is deleted before a pass reads it
keeps its place in the pass's list as `NoRow`, which the pass goes over.

### ModelCalls

A batch of `mapBounded` over items in index order, in one of the three stages that make
their model calls that way: `Rank` (one call per item, which begins by looking at the lease
and is a step checkpoint), `BuildEvidence` (one call, the cancel flag alone is looked at,
no checkpoint) and `CritiqueFalsify` (two calls, the second one's failure is caught).  Each
call passes the budget gate, the slot queue and the spend gate, and is then tried along the
failover chain with bounded retries and re-asks per route; a checkpointed item first passes
the fingerprint gate.  Usage is counted in answers: an answer of full size is 1, one
without reported usage 0, and the cap is a number of such answers.  The slot
handover is one step: the resolved promise's continuation runs before any other task.
The chain of a call is the set of its places in `RouteOrder` that are still to be tried, the
least of them first.  Backoffs, total budgets and cooldowns end at any time.  `Rerun`, `Crash` and `Takeover` are
the three ways a batch is started anew.  After a takeover the old process is a record of
`lost`: its calls in flight land later, their receipts and step outputs unchecked
(`StrayLands`), an item of two calls goes on to its second, and in `build_evidence` it
launches the rest of its batch (`StrayLaunches`), all on the counter it had when it lost the
lease.  Left out: the calls a stage makes one after the other behind its batch
(`build_evidence`'s gap round among them), the pair judging of rank, which catches the
failure of every call, and that `build_evidence` and `critique_falsify` skip on a rerun what
an earlier execution finished, so that the model redoes more of the batch than the code.

### Workspace

Each rename, copy, unlink and mkdir that matters is a step, and the command may be killed
or fail there.  Two of the three databases are modelled: far.db, which a backup must
have, and the scheduler's, which stands for the optional ones.  A write-ahead log appears
with an open database, disappears with the last clean close and stays after a kill, which
blocks a restore until somebody opens and closes the database.  Assumed: while a restore
is under way no server, collection or backup is started (the command tells the user to
stop them and checks for a log once).  Deadlock is checked here.

## Runs

All instances are small enough to be explored completely.

| Run | Instance | Shows |
|---|---|---|
| `queue` | 2 jobs, 2 workers with limits 1 and 2, 2 priorities, 2 attempts, 1 requeue; fairness | fencing, budget, finality, and every job settles |
| `exec_safety` | 1 job, 2 workers, 1 attempt, 1 requeue | both stores agree, no intent is lost, refinement of the queue |
| `exec_enqueue` | 1 job, 2 enqueuers of one spec, 1 worker; fairness of workers alone | every accepted enqueue becomes a job, whatever dies between the files |
| `run_lifecycle` | 1 server, 3 stages, 2 rounds of each kind, any 3 events | completion, drafts, parking and the gate under every order of reopens |
| `run_executors` | server and CLI, 1 stage, any 3 of 2 resumes, a draft or scope proposal, a crash, a stall and a progress report; fairness | one executor, a bounded number of late writes, a running run comes to rest |
| `session` | 1 effect and 1 read, 2 turns, 2 attempts, 2 invalid answers in a row, 1 re-ask, compaction to 1 entry; either caller; fairness | committed effects are not repeated, file and memory have the same entries, actions are answered, the turn budget holds, attempts end |
| `conversations` | 2 posts, 2 launch proposals, 1 approver, 1 fired turn, 1 crash, room for 5 messages; fairness of the turn | refinement of `Dialogue`, runs are attributed until they are deleted, messages settle, the message limit is passed by 2 at most |
| `automations` | 2 processes, a schedule and a completion trigger, 2 runs of which 1 is listed and 1 remembered, 1 request, reopening, deletion or crash; fairness of the processes | switching off lasts, recent completed runs are announced, the remembered list is bounded without repeats |
| `model_calls` | each of 3 stages, 3 items of 1 or 2 calls, 2 workers, 1 slot, 2 routes, 1 retry, 1 re-ask, cap 2, 2 inputs, 1 restart; fairness | fails as a sequential loop, bounded overshoot of each process, current step outputs, slots respected, batches end |
| `workspace` | 1 object, 2 backups, 2 restores, any 3 kills or I/O failures | nothing is destroyed by restores, no mixed set, a set always has far.db |

The environment of a run is a set of events (resumes, limited executions, dispatches,
cancels, feedback, evidence, a raised budget, failures, exhausted budgets, progress reports,
crashes, stalls).  `Limit` bounds each of them and, under `"any"`, all of them together:
`run_lifecycle` therefore covers every combination of three events, each at every point.

Two workers (or two executors) are what it takes to have a zombie and an adopter.  A job
with one attempt and a requeue has two claims, as one with two attempts has, and a
dead-letter between them; `queue` has both.  One crash, stall or cancel can fall at
every point of every execution because the exploration is complete; two rounds reach the
cap.  A session needs two turns for a compaction between an effect and its repetition and
two attempts for a resume; a conversation needs two posts for a reply to land behind a
later message; of two runs with one listed, the newer hides the older; two restores are what it takes to move aside what the first one left.
More of each repeats these cases with more bystanders.  The theorems do not depend
on the bounds.

Some properties are stated for less than every behaviour, because the code guarantees no
more: `OneExecutor` as long as no live executor outlasted its lease, `RankedSetIsGated` for
a rank that is done, as long as nothing crashed and no budget was raised, `StoresAgree` for
the runs no stale copy was written to.  `DisownedWritesBounded` admits one write of the
execution and, at the end of a scope proposal, one of its handler.  `OvershootBounded` gives
every process that ever executed the run a cap of its own, since the counter of one that
lost the lease is seen by nobody.  `RunsAreAttributed` is for runs that were not deleted,
`CompletedIsAnnounced` for runs that stay among those the engine lists.  `CompletedIsSettled`, `FullExecutionIsAdoptable`,
`DraftStaysParked` and `RankedSetIsGated` are about a run with one process: with two they
fail, since `execute` reads the document before it owns the lease and the launch paths
store it without one.  `RolloutMatchesMemory` is for refinements, since a conversation that
is started afresh appends to its old file, and allows payloads that were cut in memory only;
`MessagesSettle` until the server dies, since
nothing looks for unanswered messages at a start; `StepsAreCurrent` but for what a process
that lost its lease stored.

Deadlock is not checked but for `workspace`: a run, a queue, a session, a conversation and a
bounded operator really may come to rest.

### Fairness

The queue: some worker keeps polling (workers are restarted by their operator), a process
that is alive finishes, and clocks advance.  Crashes are not bounded in the queue's
liveness run: the attempt cap is what makes jobs settle.  Two-store execution: a worker that is
alive takes its next step and is started again after a crash, and a crash or a lock does
not for ever hit the same enqueue of its drain; the code offers nothing against that
either (`RecoveryFairness`, all that `IntentBecomesJob` needs).  The configuration
`EnqueueServed.cfg` assumes more, so that what it finds is not a matter of fairness: that
enqueuers proceed, that every step on a worker's way to its first claim eventually
succeeds, and that clocks advance (`Fairness`).  Runs:
an executor that has not crashed takes its next step, the server's sweep is a timer, and
the lease of a dead process expires.  Sessions: the loop of a live process goes on, since every model call and tool has an end.
Conversations: the turn under way lands or fails, and what it executes in advance ends (a
model call has a timeout, a session its turns, a command its time limit).  Automations: every
process's timer starts a pass again, and a pass goes on.  Model calls: something
of the batch goes on while anything can (every attempt has an abort timer, backoffs are
timers), whichever call it is.  The workspace run has no liveness.  No fairness is assumed of users, handlers'
outcomes, crashes or stalls.

### Disagreements between the repository and its code

Two runs check what a comment of the repository says, and TLC finds a behaviour of the
code that contradicts it.  The quotations are in `findings`.

* `session_ledger`: the result of an effect and its commit line are two appends.  Die
  between them, resume, compact, die again and resume: the effect is run once more.
* `candidate_ids`: a fired turn numbers its candidates from the conversation as it was
  before the model call, so a reply that lands meanwhile gets the same ids.

Further configurations, each of which TLC refutes in the same way:

| Configuration (with module) | Property | What the repository says, and what happens |
|---|---|---|
| `AdopterOutcome.cfg` (`MCExperimentExec`) | `AdopterOutcomeStands` | `scheduler.ts:24-26` "a disowned zombie can never overwrite the adopter's outcome"; the fence protects the job row, the experiment's record in far.db can be overwritten by a worker that lost the job (`executor.ts:253-263`) |
| `EnqueueServed.cfg` (`MCExperimentExec`) | `EnqueueIsServed` | `store.ts:785-786` "never a lost enqueue"; enqueue, cancel, enqueue again: the second one meets the job row of the first, which stays canceled |
| `DatasetScope.cfg` (`MCExperimentExec`) | `OnlyReanalysisIsExploratory` | `executor.ts:226` "confirmatory history on THIS dataset"; prior reports are counted per research run |
| `RunCancel.cfg` (`MCRunLifecycle`) | `CancelIsKept` | `store.ts:975-979` on not erasing the flag; a transition that had read the document erases a cancel request |
| `RunFeedback.cfg` (`MCRunLifecycle`) | `ReopensOnlyOnNewFeedback` | `orchestrator.ts:333-334` "reopens ONLY when new feedback signals arrived"; consumed feedback reopens a completed run at every resume |
| `SessionUnknown.cfg` (`MCAgentSession`) | `UnknownIsSurfaced` | `rollout.ts:12-14`: a started call without a result is surfaced as of unknown outcome; a turn number is used again after a resume and the markers of the earlier turn answer for the later one (`rollout.ts:144-149`) |
| `DisownedNeverWrites.cfg` (`MCRunLifecycle`) | `DisownedNeverWrites` | `orchestrator.ts:170-171` "a disowned worker must never write run state"; the lease can change hands between the re-check and the write, and the closing write of a scope proposal asks for no lease (`api.ts:1443-1444`) |
| `RolloutDrift.cfg` (`MCAgentSession`) | `RolloutIsMemory` | `loop.ts:189` says that every mutation of the transcript goes through `pushEntry`, so that the rollout cannot drift from memory; micro-compaction replaces payloads in memory without a line (`loop.ts:361-363`), and a resume shows the model the full ones again |
| `AnsweredFailed.cfg` (`MCConversations`) | `AnsweredIsNotFailed` | `domain/conversation.ts:110-115` "landing a reply ... clears this"; an exception while approved-in-advance proposals execute marks a message failed whose reply has landed (`conversations.ts:446-452`, `500-503`) |
| `AnnouncedOnce.cfg` (`MCAutomations`) | `AnnouncedOnce` | `automations.ts:138-140` on a second process firing the same trigger; the claim compares the time of the last fire only, and a process whose pass starts during another's turn reads the claimed time with the old list of announced runs |
| `AnnouncedAgain.cfg` (`MCAutomations`) | `AnnouncedOnce` | `domain/automation.ts:35` "Run ids already reported by a run_completed automation (dedupe, bounded)"; with one process: 50 ids are remembered and 60 runs are looked at (`automations.ts:151`, `:200`), so a run whose id was dropped is news again |
| `AnnouncedAll.cfg` (`MCAutomations`) | `EveryCompletedIsAnnounced` | `domain/automation.ts:6` "either on a schedule or when a research run completes"; a run that is not among the 60 newest when it completes is never announced (`automations.ts:151`, `store.ts:284-288`) |
| `Overspent.cfg` (`MCModelCalls`) | `CapStopsCalls` | `run-budget.ts:9` "a resumed run never carries a stale in-memory counter as a second authority"; the process it was resumed from does, and goes on spending on it |
| `StaleStep.cfg` (`MCModelCalls`) | `StepsAreFresh` | `orchestrator.ts:273` "never replay stale results under rebuilt prompts"; a call of a process that lost the lease stores its output after the gate cleared the family |
| `GcRace.cfg` (`MCWorkspace`) | `BlobsResolve` | `gc.ts` removes what no object refers to; a blob that has landed and whose object is not stored yet is removed, and the object is then stored without it |
| `GcTemps.cfg` (`MCWorkspace`) | `TempsSwept` | `gc.ts:24-25` "Orphaned put-temps ... removed only with --apply"; `putStream` stages `.incoming-*` at the root of the store, where the collection does not look |

The models also show, without a run of their own:

* `requeueDead` keeps the cancel flag of the job's former life (`RequeueDead`), and
  canceling a queued job leaves its experiment `queued` in far.db (`OperatorCancel`).
* Prior reports are read at the start of an execution and written at its end, so two
  overlapping executions are both confirmatory (`ExecProject`, `ExecReport`).
* A lease can change hands between the re-check and the write of a transition: the
  late write of an execution that `DisownedWritesBounded` admits.  The other one, the closing
  write of a scope proposal, may turn a run that its adopter completed back to `paused`.
* A crash after rank is stored as done skips the quality gate for good; the crash that
  `RankedSetIsGated` excepts.  The gate is also passed when the budget is exhausted, and is
  not asked again after the budget is raised: the stages held for the budget are reopened
  and start on a set the gate would have sent back.
* A `--stop-after` that is refused by another process's lease has already stored its
  parking tag, which with two processes breaks `FullExecutionIsAdoptable`; and a resume
  counts attempts from the copy it read before it owned the run.
* Conversations: two concurrent approvals, or a crash before the status is written, execute
  a proposal twice (`conversations.ts:712-714`); the proposals of a crashed attempt are
  not in its resumed turn; a record appended behind a failed message makes it
  impossible to retry; a grant forgotten during a turn still executes what that turn
  proposed; the deletion of a run that is cut short before the detach leaves its id behind.
* Automations: `PATCH` writes a row it read before the request's body arrived; `markFired`
  brings back a deleted row (`?? automation`) and may set `lastFiredAt` back; a pass
  fires an automation that was switched off after the pass read it; a turn that throws ends
  the pass for every automation behind it.
* Model calls: a cancel has the kind of a provider error, so the chain goes on to the next
  route and cools a healthy one (`fallback.ts:98-102`); the lease's TTL allows for one call's
  total budget and a chain of routes multiplies it; the budget is read before the wait
  for a slot; usage of discarded attempts is on no receipt; `build_evidence` looks at the
  cancel flag and never at the lease, so a process without it extracts the rest of its
  documents.
* Workspace: a backup copies far.db before the scheduler's file, so a restored queue may hold
  jobs whose runs are not in far.db; an install renames over a file created meanwhile.

## Proofs

`JobQueueProofs` holds for every finite set of jobs, any workers, devices, priorities,
limits and attempt cap, from `ConstantsAssumption` alone.

* `TypeCorrect`: `TypeOK` is inductive by itself.  It carries `attempts <= MaxAttempts`,
  and that a row not inserted is blank, which the other proofs need.
* `FenceCorrect`: `FenceUnique` is inductive relative to `TypeOK`.  A claim takes a token
  one above the row's; every token in a process's hands is at most the row's; so the new
  token differs from all of them.  No other action hands out a token, and a requeue only
  raises the row's.
* `BudgetCorrect`: `DeadOnlyExhausted` is inductive relative to `TypeOK`: only a claim
  counts an attempt, only an exhausted row dies, only a requeue starts afresh.
* `OutcomeCorrect`: the step that settles a running job satisfies `Owns`, so its token is
  the row's, and by `FenceUnique` every other claim of the job is older.
* `FinalCorrect` (`SettledIsFinal`): only a requeue has a guard that a settled row can
  satisfy, and it raises the token above everything `FenceUnique` lets a process hold.

`ExperimentExecProofs` holds for every set of jobs, workers, enqueuers and specs, from
`QueueAssumption` (the queue's own) and `ExecAssumption`.

* `TypeCorrect`: `TypeOK` with `Control`, which says what a process between two commits
  has in its hands (an enqueuer past its read has a run, a worker in the dead-letter
  transaction has the scheduler's lock, one in the executor has a claim).
* `QueueImplemented` (`ImplementsQueue`): under `TypeOK` and `Control`, each action is a
  step of `JobQueue` or leaves its variables alone (`QueueStep`).  `FenceInherited` then
  carries `FenceCorrect` over to the composed system.
* `IntentCorrect` (`NoLostIntent`): not inductive, since it says nothing of a drain under
  way.  `HandOver` adds that a drain only works on recorded intents and marks only what it
  has enqueued, that an intent has its run, and that an enqueuer past its write has
  recorded its intent.  Actions that touch none of this share one lemma (`QuietStep`).
* `StoresCorrect` (`StoresAgree`): the outcome is written to far.db first and to the job
  later, so the invariant (`Settlement`) has to say what a process on its way between the
  two knows: a worker that is closing or completing an experiment carries an ended
  projection, and as long as it owns the job that projection is the one stored; the
  experiment of a job that is being dead-lettered has ended; one whose job is absent,
  queued or canceled is not running.  Only untainted jobs are followed, and a write by
  a process that does not own its job taints it in the same step.

`RunLifecycleProofs` holds for every set of processes and servers, every plan and choice
of legs, every cap and every bound on the environment, from that module's
`ConstantsAssumption`, and in its last part from `PlanAssumption` (a plan names no stage
twice; the gate reopens the stage it judges, `orchestrator.ts:704`).

* `TypeCorrect`: `TypeOK` is inductive by itself.  It says that the round counters stay
  within their caps, for any interruption of the rounds.
* `ExecutorCorrect` (`OneExecutor`) and `DisownedCorrect` (`DisownedWritesBounded`) follow from
  one inductive invariant, `ControlInv`.  Neither is inductive: that two processes are not
  in a handler says nothing about the one that waits to write, and one late write says
  nothing about the next.  `ControlInv` adds where a transition may go on after its
  write; that a process anywhere between acquiring and releasing is the live holder while
  nothing has stalled; and that a process which wrote after losing the lease is not its
  holder and has no write pending but the closing one of a scope proposal, so the next
  check stops it.  The forty actions
  are first sorted into six forms by their effect on the lease and the program counter
  (`PreludeShape`, `WalkShape`, `FinishShape`, `LaunchShape`), and the invariant is shown
  for the forms (`ShapeControl`).

* `CompletionCorrect` (`CompletedIsSettled`), `AdoptionCorrect` (`FullExecutionIsAdoptable`),
  `DraftCorrect` (`DraftStaysParked`) and `GateCorrect` (`RankedSetIsGated`) assume one
  process, `Procs = {p}`, which may crash at any point, outlast its lease, be launched
  again and be swept by the watchdog.  None is inductive, since each speaks of the
  document at one moment and a transition writes one that was made a step before.
  `SoloInv` adds to `ControlInv` what the document says at each point of the execution
  (`Sound`: a walk is over a running document; iterating and completing come after every
  stage is terminal; a full execution carries no parking tag; the stage of a handler is
  running; a done rank has passed the gate; a draft of a server is tagged while it runs),
  that a document waiting to be written is sound for the point where the process goes on,
  that the process's copy differs from the stored document in the cancel flag at
  most (`Stands`), and that what is under way was asked for (`Allowed`).

`WorkspaceProofs` holds for every set of rows and any number of backups, restores, kills and
failed renames, from `WorkspaceAssumption`.  `TypeCorrect`, `NoRowLost` (`RowsKept`) and
`RestoreAtomic` (`RestoreIsAtomic`) follow from one invariant.  A restore runs alone
(`Alone`): it starts only when no database has a log, and an open database has one.  So the
files can be followed member by member, forward (`Forward`: moved aside, absent, installed)
and back (`Backward`: unlinked, moved back, and exactly as found while every step of the
rollback succeeds).  What was moved aside is the latest file aside (`MovedIsLatest`), so
that moving back takes the right one, and rows of an installed far.db are spare
(`InstalledIsSpare`), so that unlinking it loses none.

`ConversationsProofs` holds for any number of proposals, approvers, posts, fired turns and
crashes, from the module's three assumptions.

* `TypeCorrect`: the limit on messages is passed by two at most, which needs the replies due
  to be counted with the messages stored (`Transcript`).
* `RunsAttributed` (`RunsAreAttributed`): every step writes a document it has just read
  through a few operators, and each of them keeps `GoodDoc`; the one that takes a run away
  notes that it was deleted.
* `DialogueImplemented` (`ImplementsDialogue`): a landing reply is an `Answer` of `Dialogue`
  because the message of a turn that is generating is stored once and has no reply yet
  (`WellReplied`, `Unanswered`), whatever was stored since it was posted.

`ModelCallsProofs` holds for any number of items, workers, slots, routes, retries and
restarts, from `CallsAssumption`.

* `TypeCorrect`: no more calls hold a slot than there are, and a call waits only while all
  are taken (`Queue`).
* `FailureIsSequential` (`FailsAsSequential`): items are launched in order and none is in
  flight when the batch is over (`Order`).
* `OvershootIsBounded` (`OvershootBounded`): the gate of a process lets a call in only while
  its own counter is below the cap, and at most one call per worker has passed it, so a
  counter stays below the cap plus the workers, and so does what a lost process has spent
  (`GoodLost`).  Receipts are at most the counter of the owner plus what the lost processes
  spent since they lost the lease (`Budget`, `Balanced`); that sum is a sequence of partial
  sums (`IsTally`), bounded term by term with a least counterexample in the place of an
  induction (`TotalBound`).
* `ReplaysAreCurrent` (`StepsAreCurrent`): the gate clears what other inputs left behind, and
  while calls are in flight the stored fingerprint is that of their inputs (`Fresh`).  What a
  process without the lease stores is excepted, as in the property.

`AgentSessionProofs` holds for any calls, limits, compactions, crashes and resumes, from
`CallsAssumption` and `BoundsAssumption`.  The lines of a step reach the file one by one and
a crash keeps any prefix of them, so the invariant speaks of the transcripts the file will
hold: `m[0]` now, `m[k]` after `k` more lines (`Answers`).

* `TypeCorrect`, and `CommittedOnce` (`CommittedNeverRerun`): the ledger in memory holds what
  is committed on disk and in the lines to come, and an effect about to run is not
  in it (`Ledger`).
* `TurnBudget` (`TurnBudgetHolds`): the record of the turn before is on disk or among the
  lines to come, so a crash hides at most one paid turn from the next attempt (`Turns`).
* `RolloutAgrees` (`RolloutMatchesMemory`): the last of the transcripts to come is the one in
  memory, but for what micro-compaction cut there (`Alike`); a torn fragment costs the line that says the session was resumed and no
  other (`Fragments`).
* `ActionsAnswered` (`ActionsAreAnswered`): each of those transcripts leaves at most its last
  action open, which a resume repairs.

`AutomationsProofs` holds for any processes, automations, runs and bounds, from
`AutosAssumption` and `BoundsAssumption`.  `TypeCorrect` (the list of announced runs stays
within its cap, without repeats) is not inductive: rows are written back from the copies of
passes and requests, so the copies have to be sound too (`Passing`, `Patching`).
`SwitchCorrect` (`SwitchedOffStaysOff`) follows: `markFired` and the claim take the switch
from the row that is there.

Every safety invariant and action property of the passing runs is stated by one of these
theorems.  Model-checked only are the seven liveness properties (`EveryJobSettles`,
`IntentBecomesJob`, `FrozenRunSettles`, `SessionEnds`, `MessagesSettle`,
`CompletedIsAnnounced`, `BatchEnds`): the prover does not handle fairness or ENABLED.  What
the refuted configurations show is TLC's as well.

## Plan

1. `RunLifecycle`: agent steps, plan revisions, missing handlers and the taint reopen; the
   handlers of one server as separate threads of control; and what several processes still
   guarantee of the run document, which the theorems so far say for one.
2. The event log and its hash chain under concurrent appenders; the turn hub's replay
   buffer and steering queue.
3. The protocol ledger, research memory, the campaign driver, remote execution.

## Running the checks

    tlc -workers 2 -config JobQueue.cfg MCJobQueue
    tlapm JobQueueProofs.tla

and likewise for the other pairs of `runs` in `PROJECT.json` and for
`ExperimentExecProofs`, `RunLifecycleProofs`, `AgentSessionProofs`, `ConversationsProofs`,
`AutomationsProofs`, `ModelCallsProofs` and `WorkspaceProofs`.
