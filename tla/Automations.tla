---------------------------- MODULE Automations ----------------------------
(***************************************************************************)
(* The automation engine (server/automations.ts): each server process      *)
(* passes over the stored automations, claims one that is due by a         *)
(* compare-and-set of lastFiredAt (persistence/store.ts), announces it in  *)
(* its conversation, runs a model turn, and marks it fired.  Researchers   *)
(* switch automations on and off, delete them and delete conversations and *)
(* runs meanwhile (server/api.ts); processes crash and start again.        *)
(*                                                                         *)
(* A pass works on the rows it read at its start.  What a process does     *)
(* between two awaits is one step, and a crash may cut the claim from the  *)
(* announcement.                                                           *)
(***************************************************************************)
EXTENDS Naturals, Sequences, FiniteSets

CONSTANTS Procs,         \* server processes over one store
          Schedules,     \* automations with a schedule trigger
          OnCompletion,  \* automations with a run_completed trigger
          Listed,        \* all automations, in the order listObjects returns them
          MaxRuns,       \* bound: runs created after the automations were
          Window,        \* runs that listRuns returns to the engine
          Interval,      \* intervalMinutes
          MaxNotified,   \* run ids an automation remembers
          MaxTime,       \* bound: the clock
          MaxDisturbances \* bound: requests and crashes

Autos == Schedules \cup OnCompletion
Runs == 1..MaxRuns       \* numbered as they are created
None == "none"

ASSUME AutosAssumption ==
    /\ Schedules \cap OnCompletion = {} /\ None \notin Autos
    /\ Listed \in Seq(Autos) /\ {Listed[i] : i \in DOMAIN Listed} = Autos
ASSUME BoundsAssumption ==
    /\ Interval \in Nat \ {0} /\ MaxNotified \in Nat
    /\ MaxRuns \in Nat /\ Window \in Nat
    /\ MaxTime \in Nat \ {0} /\ MaxDisturbances \in Nat

VARIABLES row,        \* the stored automations
          open,       \* the conversation exists and has room
          run,        \* the runs
          now,        \* the clock
          proc,       \* the pass of each process
          patch,      \* the PATCH request between its read and its write
          disturbed,  \* requests and crashes so far
          announced   \* how often each run was announced for an automation, up to twice

vars == <<row, open, run, now, proc, patch, disturbed, announced>>

-----------------------------------------------------------------------------
(* The rows and their writers.                                             *)

\* A row that never fired has last 0; the clock starts at 1.
NewRow == [exists |-> TRUE, enabled |-> TRUE, last |-> 0, notified |-> <<>>]
NoRow == [exists |-> FALSE, enabled |-> FALSE, last |-> 0, notified |-> <<>>]

Elems(s) == {s[i] : i \in DOMAIN s}
LastOf(s, n) == IF Len(s) <= n THEN s ELSE SubSeq(s, Len(s) - n + 1, Len(s))

NoRepeats(s) == \A i, j \in DOMAIN s : s[i] = s[j] => i = j

(* The list of some runs in the order of listRuns, the newest first: a set *)
(* with one element.                                                       *)
NewestFirst(S) == {s \in [1..Cardinality(S) -> S] : \A i, j \in DOMAIN s : i < j => s[i] > s[j]}

\* Mutation of MarkFired: the row read at the start of the pass is written back.
MarkFiredStale(fresh, snapshot, new, at) ==
    {[snapshot EXCEPT !.last = at, !.notified = LastOf(@ \o s, MaxNotified)] :
        s \in NewestFirst(new \ Elems(snapshot.notified))}
\* Mutation of MarkFired: the list of run ids is not cut.
MarkFiredUncut(fresh, snapshot, new, at) ==
    LET base == IF fresh.exists THEN fresh ELSE snapshot
    IN {[base EXCEPT !.last = at, !.notified = @ \o s] : s \in NewestFirst(new \ Elems(base.notified))}
(* markFired: the row is read again; one deleted meanwhile is the one the  *)
(* pass had read.                                                          *)
MarkFired(fresh, snapshot, new, at) ==
    LET base == IF fresh.exists THEN fresh ELSE snapshot
    IN {[base EXCEPT !.last = at, !.notified = LastOf(@ \o s, MaxNotified)] :
           s \in NewestFirst(new \ Elems(base.notified))}

-----------------------------------------------------------------------------
(* A pass of a process: what is left of its list, the time it started at,  *)
(* and while a turn runs the automation, its row as read and the runs it   *)
(* announced.                                                              *)

Idle == [pc |-> "idle", left |-> <<>>, at |-> 0, auto |-> None, snapshot |-> NoRow, new |-> {}]
NoPatch == [auto |-> None, snapshot |-> NoRow]

Init == /\ row = [a \in Autos |-> NewRow]
        /\ open = TRUE /\ run = [r \in Runs |-> "none"] /\ now = 1
        /\ proc = [p \in Procs |-> Idle]
        /\ patch = NoPatch
        /\ disturbed = 0
        /\ announced = [a \in OnCompletion |-> [r \in Runs |-> 0]]

(* tick: passes of one process do not overlap; the list is read once.  A   *)
(* place of the list whose row is deleted is NoRow, never due and passed   *)
(* over.                                                                   *)
StartTick(p) ==
    /\ proc[p].pc = "idle" /\ \E a \in Autos : row[a].exists
    /\ proc' = [proc EXCEPT ![p] =
                  [Idle EXCEPT !.pc = "loop", !.at = now,
                               !.left = [i \in DOMAIN Listed |-> [auto |-> Listed[i],
                                                                  snapshot |-> row[Listed[i]]]]]]
    /\ UNCHANGED <<row, open, run, now, patch, disturbed, announced>>

(* listRuns: the newest of the runs there are.                             *)
Existing == {r \in Runs : run[r] \in {"active", "completed"}}
Recent == {r \in Existing : Cardinality({q \in Existing : q > r}) < Window}
Completed == {r \in Runs : run[r] = "completed"}

(* The recent completed runs an automation has not announced.              *)
News(snapshot) == (Recent \cap Completed) \ Elems(snapshot.notified)
Due(p, a, snapshot) ==
    /\ snapshot.enabled
    /\ a \in Schedules => proc[p].at >= snapshot.last + Interval
    /\ a \in OnCompletion => News(snapshot) # {}

(* claimAutomationFire: the row still has the lastFiredAt that was read.   *)
Claims(a, snapshot) == row[a].exists /\ row[a].last = snapshot.last

Working(p) == proc[p].pc = "loop"
Remaining(p) == Tail(proc[p].left)
(* On to the next automation; behind the last one the pass is over.        *)
Continue(p, left) ==
    IF left = <<>> THEN Idle ELSE [Idle EXCEPT !.pc = "loop", !.left = left, !.at = proc[p].at]

Skip(p) ==
    /\ Working(p)
    /\ LET h == Head(proc[p].left)
       IN ~Due(p, h.auto, h.snapshot) \/ ~Claims(h.auto, h.snapshot)
    /\ proc' = [proc EXCEPT ![p] = Continue(p, Remaining(p))]
    /\ UNCHANGED <<row, open, run, now, patch, disturbed, announced>>

Announce(a, new) ==
    IF a \in Schedules THEN announced
    ELSE [announced EXCEPT ![a] = [r \in Runs |-> IF r \in new /\ @[r] < 2 THEN @[r] + 1 ELSE @[r]]]
NewsOf(a, snapshot) == IF a \in Schedules THEN {} ELSE News(snapshot)

(* The claim, then fire up to its model turn: the notice is in the         *)
(* conversation.                                                           *)
Fire(p) ==
    /\ Working(p) /\ open
    /\ LET h == Head(proc[p].left)
           new == NewsOf(h.auto, h.snapshot)
       IN /\ Due(p, h.auto, h.snapshot) /\ Claims(h.auto, h.snapshot)
          /\ row' = [row EXCEPT ![h.auto].last = proc[p].at]
          /\ announced' = Announce(h.auto, new)
          /\ proc' = [proc EXCEPT ![p] = [@ EXCEPT !.pc = "turn", !.left = Remaining(p),
                                                   !.auto = h.auto, !.snapshot = h.snapshot,
                                                   !.new = new]]
    /\ UNCHANGED <<open, run, now, patch, disturbed>>

(* A conversation that is gone or full: the automation is switched off,    *)
(* written as it was read; the rewind of the claim finds nothing to undo.  *)
FireNowhere(p) ==
    /\ Working(p) /\ ~open
    /\ LET h == Head(proc[p].left)
       IN /\ Due(p, h.auto, h.snapshot) /\ Claims(h.auto, h.snapshot)
          /\ row' = [row EXCEPT ![h.auto] = [h.snapshot EXCEPT !.enabled = FALSE]]
    /\ proc' = [proc EXCEPT ![p] = Continue(p, Remaining(p))]
    /\ UNCHANGED <<open, run, now, patch, disturbed, announced>>

\* Mutation of TurnEnds: the completed runs are listed again for markFired.
TurnEndsRereads(p) ==
    /\ proc[p].pc = "turn"
    /\ LET t == proc[p]
       IN \E r \in MarkFired(row[t.auto], t.snapshot, NewsOf(t.auto, t.snapshot), t.at) :
             row' = [row EXCEPT ![t.auto] = r]
    /\ proc' = [proc EXCEPT ![p] = Continue(p, proc[p].left)]
    /\ UNCHANGED <<open, run, now, patch, disturbed, announced>>
(* The turn ended, well or badly: markFired, and on to the next.  The      *)
(* reply of a turn that ended well is not written when the conversation is *)
(* gone.                                                                   *)
TurnEnds(p) ==
    /\ proc[p].pc = "turn"
    /\ LET t == proc[p]
       IN \E r \in MarkFired(row[t.auto], t.snapshot, t.new, t.at) : row' = [row EXCEPT ![t.auto] = r]
    /\ proc' = [proc EXCEPT ![p] = Continue(p, proc[p].left)]
    /\ UNCHANGED <<open, run, now, patch, disturbed, announced>>

(* The turn ended badly and the conversation has no room for the record of *)
(* that, or is gone: the record throws out of the handler, and the pass    *)
(* ends without markFired.                                                 *)
TurnThrows(p) ==
    /\ proc[p].pc = "turn" /\ ~open
    /\ proc' = [proc EXCEPT ![p] = Idle]
    /\ UNCHANGED <<row, open, run, now, patch, disturbed, announced>>

-----------------------------------------------------------------------------
(* Requests, the runs, the clock, and crashes.                             *)

(* PATCH reads the row, awaits the request's body, and writes what it read *)
(* with the new switch.  cancel_automation switches off in one go.         *)
PatchRead(a) ==
    /\ patch = NoPatch /\ disturbed < MaxDisturbances /\ row[a].exists
    /\ patch' = [auto |-> a, snapshot |-> row[a]]
    /\ disturbed' = disturbed + 1
    /\ UNCHANGED <<row, open, run, now, proc, announced>>
PatchWrite ==
    /\ patch # NoPatch
    /\ \E on \in BOOLEAN : row' = [row EXCEPT ![patch.auto] = [patch.snapshot EXCEPT !.enabled = on]]
    /\ patch' = NoPatch
    /\ UNCHANGED <<open, run, now, proc, disturbed, announced>>
CancelAutomation(a) ==
    /\ disturbed < MaxDisturbances /\ row[a].exists
    /\ row' = [row EXCEPT ![a].enabled = FALSE]
    /\ disturbed' = disturbed + 1
    /\ UNCHANGED <<open, run, now, proc, patch, announced>>
DeleteAutomation(a) ==
    /\ disturbed < MaxDisturbances /\ row[a].exists
    /\ row' = [row EXCEPT ![a] = NoRow]
    /\ disturbed' = disturbed + 1
    /\ UNCHANGED <<open, run, now, proc, patch, announced>>

CloseConversation ==
    /\ disturbed < MaxDisturbances /\ open
    /\ open' = FALSE
    /\ disturbed' = disturbed + 1
    /\ UNCHANGED <<row, run, now, proc, patch, announced>>

(* A run is created, completes, is reopened or is deleted.                 *)
CreateRun(r) ==
    /\ run[r] = "none" /\ \A q \in Runs : q < r => run[q] # "none"
    /\ run' = [run EXCEPT ![r] = "active"]
    /\ UNCHANGED <<row, open, now, proc, patch, disturbed, announced>>
CompleteRun(r) ==
    /\ run[r] = "active"
    /\ run' = [run EXCEPT ![r] = "completed"]
    /\ UNCHANGED <<row, open, now, proc, patch, disturbed, announced>>
ReopenRun(r) ==
    /\ disturbed < MaxDisturbances /\ run[r] = "completed"
    /\ run' = [run EXCEPT ![r] = "active"]
    /\ disturbed' = disturbed + 1
    /\ UNCHANGED <<row, open, now, proc, patch, announced>>
DeleteRun(r) ==
    /\ disturbed < MaxDisturbances /\ r \in Existing
    /\ run' = [run EXCEPT ![r] = "deleted"]
    /\ disturbed' = disturbed + 1
    /\ UNCHANGED <<row, open, now, proc, patch, announced>>
TimePasses ==
    /\ now < MaxTime
    /\ now' = now + 1
    /\ UNCHANGED <<row, open, run, proc, patch, disturbed, announced>>

(* A process dies; it may have claimed and not yet announced.  A request   *)
(* in flight is lost with the process that serves it.                      *)
Crash(p) ==
    /\ disturbed < MaxDisturbances
    /\ disturbed' = disturbed + 1
    /\ \/ UNCHANGED row
       \/ /\ Working(p)
          /\ LET h == Head(proc[p].left)
             IN /\ Due(p, h.auto, h.snapshot) /\ Claims(h.auto, h.snapshot)
                /\ row' = [row EXCEPT ![h.auto].last = proc[p].at]
    /\ proc' = [proc EXCEPT ![p] = Idle]
    /\ patch' \in {patch, NoPatch}
    /\ UNCHANGED <<open, run, now, announced>>

Pass(p) == Skip(p) \/ Fire(p) \/ FireNowhere(p) \/ TurnEnds(p) \/ TurnThrows(p)

Next == \/ \E p \in Procs : StartTick(p) \/ Pass(p) \/ Crash(p)
        \/ \E a \in Autos : PatchRead(a) \/ CancelAutomation(a) \/ DeleteAutomation(a)
        \/ PatchWrite \/ CloseConversation \/ TimePasses
        \/ \E r \in Runs : CreateRun(r) \/ CompleteRun(r) \/ ReopenRun(r) \/ DeleteRun(r)

Spec == Init /\ [][Next]_vars

(* setInterval starts a pass again and again, and a turn ends within the   *)
(* bounds of its session, in every process.                                *)
FairSpec == Spec /\ \A p \in Procs : WF_vars(StartTick(p)) /\ WF_vars(Pass(p))

-----------------------------------------------------------------------------
(* Properties.                                                             *)

Rows == [exists : BOOLEAN, enabled : BOOLEAN, last : 0..MaxTime, notified : Seq(Runs)]

\* Type correctness; the ids an automation remembers stay within their bound and
\* do not repeat.
TypeOK ==
    /\ row \in [Autos -> Rows]
    /\ \A a \in Autos : Len(row[a].notified) <= MaxNotified /\ NoRepeats(row[a].notified)
    /\ open \in BOOLEAN /\ now \in 1..MaxTime
    /\ run \in [Runs -> {"none", "active", "completed", "deleted"}]
    /\ proc \in [Procs -> [pc : {"idle", "loop", "turn"},
                           left : Seq([auto : Autos, snapshot : Rows]), at : 0..MaxTime,
                           auto : Autos \cup {None}, snapshot : Rows, new : SUBSET Runs]]
    /\ patch \in [auto : Autos \cup {None}, snapshot : Rows]
    /\ disturbed \in 0 .. MaxDisturbances
    /\ announced \in [OnCompletion -> [Runs -> 0..2]]

\* An automation that was switched off is switched on by a PATCH only: a turn that
\* ends after the switch does not bring the old row back.
OnlyPatchSwitchesOn ==
    \A a \in Autos : (row[a].exists /\ ~row[a].enabled /\ row'[a].enabled) => patch.auto = a
SwitchedOffStaysOff == [][OnlyPatchSwitchesOn]_vars

\* A completed run that is among the recent ones is announced by every automation
\* that stays switched on, whatever crashes, lost claims and turns that throw come
\* in between, unless it is reopened, deleted or overtaken by newer runs first.
CompletedIsAnnounced ==
    \A a \in OnCompletion, r \in Runs :
        (r \in Recent \cap Completed /\ open)
            ~> (announced[a][r] > 0 \/ ~row[a].enabled \/ ~open \/ r \notin Recent \cap Completed)

\* domain/automation.ts:6: an automation fires "when a research run completes",
\* however many runs were created after it.
EveryCompletedIsAnnounced ==
    \A a \in OnCompletion, r \in Runs :
        (r \in Completed /\ open)
            ~> (announced[a][r] > 0 \/ ~row[a].enabled \/ ~open \/ r \notin Completed)

\* automations.ts:138-140: the claim keeps a second process from firing the same
\* trigger; domain/automation.ts:35: the ids already reported are remembered.
AnnouncedOnce == \A a \in OnCompletion, r \in Runs : announced[a][r] <= 1
=============================================================================
