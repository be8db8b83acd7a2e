---------------------------- MODULE AgentSession ----------------------------
(***************************************************************************)
(* One agent session: the turn loop of agent/loop.ts, its append-only      *)
(* rollout file (agent/rollout.ts), transcript compaction                  *)
(* (agent/compaction.ts), and the two callers that continue a session from *)
(* its file: a conversation turn that is retried                           *)
(* (server/conversation-agent.ts) and a refinement that is resumed         *)
(* (agent/capabilities/refine.ts).                                         *)
(*                                                                         *)
(* A handler appends its lines to the file one synchronous write at a      *)
(* time, and the process may die between any two of them.  A step of the   *)
(* loop therefore changes memory at once and queues its lines in pending;  *)
(* Flush writes one, Crash loses the rest, and the loop goes on only when  *)
(* all are written.  The file is kept as what reconstructSession reads     *)
(* from it.                                                                *)
(***************************************************************************)
EXTENDS Naturals, Sequences, FiniteSets

CONSTANTS Effects,      \* calls (tool and arguments) of a tool that is not read-class
          Reads,        \* calls of a read-class tool
          Tool,         \* the tool of a call
          MaxTurns,     \* cfg.maxTurns
          KeepLast,     \* cfg.keepLast: entries a full compaction keeps
          MaxInvalid,   \* cfg.maxConsecutiveInvalid
          MaxReasks,    \* cfg.maxFinishReasks
          MaxAttempts   \* bound: how often the session is started or resumed

Calls == Effects \cup Reads
NoCall == "none"
Callers == {"conversation", "refine"}

ASSUME CallsAssumption == Effects \cap Reads = {} /\ NoCall \notin Calls
ASSUME BoundsAssumption == /\ MaxTurns \in Nat \ {0} /\ KeepLast \in Nat \ {0}
                           /\ MaxInvalid \in Nat \ {0} /\ MaxReasks \in Nat
                           /\ MaxAttempts \in Nat

VARIABLES caller,      \* who runs the session and may continue it
          file,        \* the rollout on disk
          torn,        \* the last line on disk is a fragment
          pending,     \* lines of the current step not yet on disk
          pc,          \* where the loop is
          transcript,  \* what the model is shown
          turn,        \* the turn number of the loop
          effects,     \* completedEffectfulActions
          invalid,     \* consecutiveInvalid
          reasks,      \* finishReasks
          call,        \* the call of the current action
          attempts,    \* sessions started or resumed so far
          asked,       \* model turns paid for since the session was started
          ran          \* calls whose effect has taken place, with their number

mem == <<transcript, turn, effects, invalid, reasks, call>>
vars == <<caller, file, torn, pending, pc, mem, attempts, asked, ran>>

-----------------------------------------------------------------------------
(* Transcript entries, and the lines of the file.  A result that is cut    *)
(* has lost its payload to a summary or a stub.                            *)

Entry(kind, n, c) == [kind |-> kind, turn |-> n, call |-> c, cut |-> FALSE]
Kinds == {"task", "blank", "context", "steer", "handoff", "action", "finish",
          "error", "done", "failed", "unstarted", "unknown"}
Entries == [kind : Kinds, turn : 0..MaxTurns, call : Calls \cup {NoCall}, cut : BOOLEAN]
IsResult(e) == e.kind \in {"done", "failed", "unstarted", "unknown"}

Line(type, e) == [type |-> type, entry |-> e, kept |-> <<>>]
TurnRecord(n) == Line("turn_record", Entry("context", n, NoCall))
SessionEnd == Line("session_end", Entry("context", 0, NoCall))
Resumed == Line("resumed", Entry("context", 0, NoCall))
Compacted(kept) == [type |-> "compacted", entry |-> Entry("context", 0, NoCall), kept |-> kept]

EmptyFile == [items |-> <<>>, base |-> FALSE, meta |-> FALSE, any |-> FALSE,
              records |-> 0, lastTurn |-> 0, effects |-> {},
              started |-> {}, finished |-> {}, ended |-> FALSE,
              inTool |-> FALSE, done |-> {}]

MaxOf(a, b) == IF a < b THEN b ELSE a

(* What one appended line adds to what a reader reconstructs.  Two fields  *)
(* are in the file and read by no code: inTool, a call was started and has *)
(* no result since, and done, the effects with a successful result.        *)
Appended(f, l) ==
    LET e == l.entry
        g == [f EXCEPT !.any = TRUE]
    IN CASE l.type = "item" ->
                [g EXCEPT !.items = Append(@, e), !.inTool = @ /\ ~IsResult(e),
                          !.done = @ \cup ({e.call : k \in {e.kind} \cap {"done"}} \cap Effects)]
         [] l.type = "compacted" -> [g EXCEPT !.items = l.kept, !.base = TRUE]
         [] l.type = "turn_record" ->
                [g EXCEPT !.records = @ + 1, !.lastTurn = MaxOf(@, e.turn)]
         [] l.type = "effect_committed" -> [g EXCEPT !.effects = @ \cup {e.call}]
         [] l.type = "started" ->
                [g EXCEPT !.started = @ \cup {<<e.turn, Tool[e.call]>>}, !.inTool = TRUE]
         [] l.type = "finished" -> [g EXCEPT !.finished = @ \cup {<<e.turn, Tool[e.call]>>}]
         [] l.type = "session_meta" -> [g EXCEPT !.meta = TRUE]
         [] l.type = "session_end" -> [g EXCEPT !.ended = TRUE]
         [] OTHER -> g

(* reconstructSession: the transcript from the last baseline on.  The      *)
(* baseline's task entry is the one of the session_meta line.              *)
ReconstructTranscript(f) ==
    IF f.base /\ ~f.meta /\ f.items # <<>>
    THEN <<Entry("blank", 0, NoCall)>> \o Tail(f.items)
    ELSE f.items

DoneCalls(s) == {s[i].call : i \in {j \in DOMAIN s : s[j].kind = "done"}}
\* Mutation of CommittedEffects: only results still in the transcript count.
CommittedEffectsLive(f) == DoneCalls(ReconstructTranscript(f))
CommittedEffects(f) == f.effects \cup DoneCalls(ReconstructTranscript(f))

(* The last use_tool action and the results of its turn that follow it.    *)
\* Mutation of OpenAction: an interrupted call is not noticed.
OpenActionNever(s) == {}
OpenAction(s) ==
    {i \in DOMAIN s : /\ s[i].kind = "action"
                      /\ \A j \in DOMAIN s : s[j].kind = "action" => j <= i
                      /\ \A j \in DOMAIN s : j > i => ~(IsResult(s[j]) /\ s[j].turn = s[i].turn)}
Disposition(f, e) ==
    LET key == <<e.turn, Tool[e.call]>>
    IN IF e.call \in Calls /\ key \in f.started /\ key \notin f.finished
       THEN "unknown" ELSE "unstarted"

-----------------------------------------------------------------------------
(* The loop: what a step does to memory, the lines it queues, and where    *)
(* the loop goes next.                                                     *)

(* The lines of a step: its new entries, and then the marks it leaves.     *)
Log(entries, marks) == [i \in DOMAIN entries |-> Line("item", entries[i])] \o marks
Write(entries, marks) == /\ pending' = Log(entries, marks)
                         /\ transcript' = transcript \o entries
Running(at) == pc = at /\ pending = <<>>

NextTurn == pc' = "loop" /\ turn' = turn + 1 /\ call' = NoCall
Forget == /\ transcript' = <<>> /\ turn' = 0 /\ effects' = {}
          /\ invalid' = 0 /\ reasks' = 0 /\ call' = NoCall
Finish(lines) == /\ pending' = Append(lines, SessionEnd)
                 /\ pc' = "idle"
                 /\ Forget
External == <<caller, file, torn, attempts, ran>>

Init == /\ caller \in Callers
        /\ file = EmptyFile /\ torn = FALSE /\ pending = <<>>
        /\ pc = "idle" /\ transcript = <<>> /\ turn = 0 /\ effects = {}
        /\ invalid = 0 /\ reasks = 0 /\ call = NoCall
        /\ attempts = 0 /\ asked = 0
        /\ ran = [c \in Effects |-> 0]

(* Whether the caller continues the session of the file: a refinement when *)
(* it finds any line, a conversation only an unfinished one.               *)
Resumable == /\ file.any
             /\ caller = "conversation" => ~file.ended /\ ReconstructTranscript(file) # <<>>

(* The turns a resumed session has used up: the highest number for a       *)
(* refinement, the number of records for a conversation.                   *)
\* Mutation of PriorTurns: a resumed session counts its turns from one again.
PriorTurnsForgotten == 0
PriorTurns == IF caller = "refine" THEN file.lastTurn ELSE file.records

(* A refinement starts once under a new session id.  A conversation whose  *)
(* session has ended starts the next one behind the old lines, never to be *)
(* resumed; module Conversations takes it from there.                      *)
NewAttempt == /\ Running("idle")
              /\ attempts < MaxAttempts
              /\ attempts' = attempts + 1
              /\ pc' = "loop"
              /\ invalid' = 0 /\ reasks' = 0 /\ call' = NoCall
              /\ UNCHANGED <<caller, file, torn, ran>>

StartFresh == /\ NewAttempt
              /\ IF caller = "refine" THEN attempts = 0 ELSE ~Resumable /\ ~file.ended
              /\ turn' = 1
              /\ effects' = {}
              /\ asked' = 0
              /\ transcript' = <<Entry("task", 0, NoCall), Entry("context", 0, NoCall)>>
              /\ pending' = Log(<<Entry("task", 0, NoCall), Entry("context", 0, NoCall)>>,
                                <<Line("session_meta", Entry("context", 0, NoCall))>>)

(* What an action without a result is closed with.                         *)
Repair(e) == Entry(Disposition(file, e), e.turn, e.call)

\* Mutation of Resume: the repair goes to memory only, as a bare push would.
ResumeUnlogged ==
    /\ NewAttempt
    /\ Resumable
    /\ turn' = PriorTurns + 1
    /\ effects' = CommittedEffects(file)
    /\ UNCHANGED asked
    /\ LET s == ReconstructTranscript(file)
       IN \/ /\ OpenAction(s) = {}
             /\ pending' = <<Resumed>> /\ transcript' = s
          \/ \E i \in OpenAction(s) :
                /\ pending' = <<Resumed>>
                /\ transcript' = Append(s, Repair(s[i]))
Resume ==
    /\ NewAttempt
    /\ Resumable
    /\ turn' = PriorTurns + 1
    /\ effects' = CommittedEffects(file)
    /\ UNCHANGED asked
    /\ LET s == ReconstructTranscript(file)
       IN \/ /\ OpenAction(s) = {}
             /\ pending' = <<Resumed>> /\ transcript' = s
          \/ \E i \in OpenAction(s) :
                /\ pending' = <<Resumed, Line("item", Repair(s[i])), TurnRecord(s[i].turn)>>
                /\ transcript' = Append(s, Repair(s[i]))

(* The top of the loop: out of turns, told to stop (the caller may do so   *)
(* at any time and the loop asks here and before a tool), or a turn        *)
(* begins, taking in a steering message of the conversation first.         *)
\* Mutation of OutOfTurns: the turn after the last is neither run nor refused.
OutOfTurnsLater == /\ Running("loop") /\ turn > MaxTurns + 1
                   /\ Finish(<<>>)
                   /\ UNCHANGED <<External, asked>>
OutOfTurns == /\ Running("loop") /\ turn > MaxTurns
              /\ Finish(<<>>)
              /\ UNCHANGED <<External, asked>>

StopAtTop == /\ Running("loop") /\ turn <= MaxTurns
             /\ Finish(<<>>)
             /\ UNCHANGED <<External, asked>>

BeginTurn == /\ Running("loop") /\ turn <= MaxTurns
             /\ \/ Write(<<>>, <<>>)
                \/ /\ caller = "conversation"
                   /\ Write(<<Entry("steer", 0, NoCall)>>, <<TurnRecord(turn)>>)
             /\ pc' = "gate"
             /\ UNCHANGED <<External, turn, effects, invalid, reasks, call, asked>>

(* The compaction gate.  Micro-compaction cuts the results of turns before *)
(* that of the KeepLast-th last result.  A full compaction keeps the       *)
(* objective, a handoff and at most KeepLast of the latest entries of the  *)
(* cut transcript, fewer when they do not fit, and it writes what it kept  *)
(* as the new baseline; a task that alone does not fit ends the session.   *)
Results(s) == {i \in DOMAIN s : IsResult(s[i])}
IsOld(s, i) == /\ Cardinality(Results(s)) > KeepLast
               /\ \E c \in Results(s) : /\ Cardinality({j \in Results(s) : j >= c}) = KeepLast
                                        /\ s[i].turn < s[c].turn
Microcompact(s) ==
    [i \in DOMAIN s |-> IF IsResult(s[i]) /\ IsOld(s, i) THEN [s[i] EXCEPT !.cut = TRUE] ELSE s[i]]

Baseline(handoff, n) ==
    <<Entry("task", 0, NoCall)>>
      \o (IF handoff THEN <<Entry("handoff", 0, NoCall)>> ELSE <<>>)
      \o SubSeq(Microcompact(transcript), Len(transcript) + 1 - n, Len(transcript))
Baselines == {Baseline(TRUE, n) : n \in 0..(IF Len(transcript) < KeepLast THEN Len(transcript) ELSE KeepLast)}
               \cup {Baseline(FALSE, 0)}

Compact == /\ Running("gate")
           /\ \E kept \in Baselines :
                \/ /\ pending' = <<Compacted(kept), TurnRecord(turn)>>
                   /\ transcript' = kept
                   /\ pc' = "call"
                   /\ UNCHANGED <<turn, effects, invalid, reasks, call>>
                \/ /\ kept = Baseline(FALSE, 0)
                   /\ Finish(<<Compacted(kept), TurnRecord(turn)>>)
           /\ UNCHANGED <<External, asked>>

(* A transcript that is cut and fits replaces the one in memory; no line   *)
(* says so.                                                                *)
MicroCompact == /\ Running("gate")
                /\ transcript' = Microcompact(transcript) /\ transcript' # transcript
                /\ pc' = "call"
                /\ UNCHANGED <<External, pending, turn, effects, invalid, reasks, call, asked>>

NoCompact == /\ Running("gate")
             /\ pc' = "call"
             /\ UNCHANGED <<External, pending, mem, asked>>

BudgetSpent == /\ Running("call") /\ caller = "refine"
               /\ Finish(<<>>)
               /\ UNCHANGED <<External, asked>>

-----------------------------------------------------------------------------
(* The model call and the action it answers with.                          *)

Call == Running("call") /\ asked' = asked + 1 /\ UNCHANGED External

(* One more invalid answer in a row ends the session at MaxInvalid.        *)
\* Mutation of Invalid: one invalid answer too many.
InvalidOnce(entries, marks) ==
    \/ /\ invalid >= MaxInvalid
       /\ Finish(Log(entries, marks))
    \/ /\ invalid < MaxInvalid
       /\ Write(entries, marks) /\ NextTurn
       /\ invalid' = invalid + 1
       /\ UNCHANGED <<effects, reasks>>
Invalid(entries, marks) ==
    \/ /\ invalid + 1 >= MaxInvalid
       /\ Finish(Log(entries, marks))
    \/ /\ invalid + 1 < MaxInvalid
       /\ Write(entries, marks) /\ NextTurn
       /\ invalid' = invalid + 1
       /\ UNCHANGED <<effects, reasks>>

CallFails == /\ Call
             /\ Finish(<<>>)

InvalidOutput == /\ Call
                 /\ Invalid(<<Entry("error", turn, NoCall)>>, <<TurnRecord(turn)>>)

UnknownTool == /\ Call
               /\ Invalid(<<Entry("action", turn, NoCall), Entry("error", turn, NoCall)>>,
                          <<TurnRecord(turn)>>)

FinishAccepted == /\ Call
                  /\ Finish(Log(<<Entry("finish", turn, NoCall)>>, <<TurnRecord(turn)>>))

FinishRejected == /\ Call
                  /\ \/ /\ reasks + 1 > MaxReasks
                        /\ Finish(Log(<<Entry("finish", turn, NoCall)>>, <<>>))
                     \/ /\ reasks + 1 <= MaxReasks
                        /\ Write(<<Entry("finish", turn, NoCall), Entry("error", turn, NoCall)>>,
                                 <<TurnRecord(turn)>>)
                        /\ NextTurn
                        /\ reasks' = reasks + 1
                        /\ UNCHANGED <<effects, invalid>>

(* A conversation has read-class tools only.                               *)
UseTool == /\ Call
           /\ \E c \in IF caller = "refine" THEN Calls ELSE Reads :
                call' = c /\ Write(<<Entry("action", turn, c)>>, <<>>)
           /\ pc' = "tool"
           /\ UNCHANGED <<turn, effects, invalid, reasks>>

-----------------------------------------------------------------------------
(* The tool phase.                                                         *)

Tools == Running("tool") /\ UNCHANGED <<External, asked>>

(* Refused by the outbound tripwire or by the permission rules.            *)
Denied == /\ Tools
          /\ Write(<<Entry("failed", turn, call)>>, <<TurnRecord(turn)>>) /\ NextTurn
          /\ UNCHANGED <<effects, invalid, reasks>>

BadArgs == /\ Tools
           /\ Invalid(<<Entry("failed", turn, call)>>, <<TurnRecord(turn)>>)

AbortBeforeTool == /\ Tools
                   /\ Finish(<<>>)

(* An effect that is known to have succeeded is not run again: its result  *)
(* is replayed.                                                            *)
Replay == /\ Tools
          /\ call \in Effects \cap effects
          /\ Write(<<Entry("done", turn, call)>>, <<TurnRecord(turn)>>) /\ NextTurn
          /\ invalid' = 0
          /\ UNCHANGED <<effects, reasks>>

StartTool == /\ Tools
             /\ call \notin Effects \cap effects
             /\ Write(<<>>, <<Line("started", Entry("context", turn, call))>>)
             /\ pc' = "exec"
             /\ invalid' = 0
             /\ UNCHANGED <<turn, effects, reasks, call>>

(* A tool that succeeds has had its effect when its result is written.     *)
ToolSucceeds ==
    /\ Running("exec")
    /\ Write(<<Entry("done", turn, call)>>,
             (IF call \in Effects
              THEN <<Line("effect_committed", Entry("context", turn, call))>>
              ELSE <<>>)
               \o <<Line("finished", Entry("context", turn, call)), TurnRecord(turn)>>)
    /\ NextTurn
    /\ effects' = IF call \in Effects THEN effects \cup {call} ELSE effects
    /\ ran' = IF call \in Effects THEN [ran EXCEPT ![call] = @ + 1] ELSE ran
    /\ UNCHANGED <<caller, file, torn, attempts, invalid, reasks, asked>>

ToolFails == /\ Running("exec")
             /\ Write(<<Entry("failed", turn, call)>>,
                      <<Line("finished", Entry("context", turn, call)), TurnRecord(turn)>>)
             /\ NextTurn
             /\ UNCHANGED <<External, effects, invalid, reasks, asked>>

-----------------------------------------------------------------------------
(* The world: one line reaches the disk, or the process dies.  A line that *)
(* is written behind a fragment is read as one malformed line with it.     *)

Flush == /\ pending # <<>>
         /\ file' = IF torn THEN file ELSE Appended(file, Head(pending))
         /\ torn' = FALSE
         /\ pending' = Tail(pending)
         /\ UNCHANGED <<caller, pc, mem, attempts, asked, ran>>

Crash == /\ pc # "idle" \/ pending # <<>>
         /\ torn' \in IF pending # <<>> /\ ~torn THEN BOOLEAN ELSE {torn}
         /\ pending' = <<>> /\ pc' = "idle"
         /\ Forget
         /\ UNCHANGED <<caller, file, attempts, asked, ran>>

Loop == \/ OutOfTurns \/ StopAtTop \/ BeginTurn \/ Compact \/ MicroCompact \/ NoCompact \/ BudgetSpent
        \/ CallFails \/ InvalidOutput \/ UnknownTool \/ FinishAccepted \/ FinishRejected \/ UseTool
        \/ Denied \/ BadArgs \/ AbortBeforeTool \/ Replay \/ StartTool \/ ToolSucceeds \/ ToolFails
        \/ Flush
Next == StartFresh \/ Resume \/ Loop \/ Crash

Spec == Init /\ [][Next]_vars
FairSpec == Spec /\ WF_vars(Loop)

-----------------------------------------------------------------------------
(* Properties.                                                             *)

Lines == [type : {"item", "resumed", "session_meta", "started", "finished", "effect_committed",
                  "compacted", "turn_record", "session_end"},
          entry : Entries, kept : Seq(Entries)]
Files == [items : Seq(Entries), base : BOOLEAN, meta : BOOLEAN, any : BOOLEAN,
          records : Nat, lastTurn : Nat, effects : SUBSET Effects,
          started : SUBSET (Nat \X {Tool[c] : c \in Calls}),
          finished : SUBSET (Nat \X {Tool[c] : c \in Calls}),
          ended : BOOLEAN, inTool : BOOLEAN, done : SUBSET Effects]

(* Every variable has its type.                                            *)
TypeOK == /\ caller \in Callers
          /\ file \in Files /\ torn \in BOOLEAN /\ pending \in Seq(Lines)
          /\ pc \in {"idle", "loop", "gate", "call", "tool", "exec"}
          /\ transcript \in Seq(Entries) /\ turn \in Nat
          /\ effects \subseteq Calls /\ invalid \in 0..MaxInvalid-1
          /\ reasks \in 0..MaxReasks
          /\ call \in Calls \cup {NoCall}
          /\ attempts \in Nat /\ asked \in Nat /\ ran \in [Effects -> Nat]

(* An effect with an effect_committed line is never run again, whatever    *)
(* compactions, crashes and resumes lie between (loop.ts:555-592).         *)
CommittedNotRun == \A c \in file.effects : ran'[c] = ran[c]
CommittedNeverRerun == [][CommittedNotRun]_vars

(* A session that is interrupted and resumed does not get its turn budget  *)
(* back: beyond maxTurns it pays for at most one model turn per resume,    *)
(* the one whose record was lost (conversation-agent.ts:127,               *)
(* refine.ts:350).                                                         *)
TurnBudgetHolds == asked < MaxTurns + attempts

(* The rollout does not drift from memory (loop.ts:189): whenever all      *)
(* lines of a step are on disk, a process that died now would be resumed   *)
(* with the transcript the model has been shown, entry by entry, but for   *)
(* results that micro-compaction cut in memory only (loop.ts:361-363) and  *)
(* the file still has in full.  A conversation that is restarted appends   *)
(* to the old file, and a session that died before its session_meta line   *)
(* has no task text after a compaction.                                    *)
MayBeCut(e, f) == f = e \/ (IsResult(e) /\ f = [e EXCEPT !.cut = TRUE])
Alike(s, t) == DOMAIN s = DOMAIN t /\ \A i \in DOMAIN s : MayBeCut(s[i], t[i])
OnDisk == caller = "refine" /\ pc # "idle" /\ pending = <<>> /\ (file.base => file.meta)
RolloutMatchesMemory == OnDisk => Alike(ReconstructTranscript(file), transcript)

(* Every transcript mutation flows through pushEntry, so the rollout       *)
(* cannot drift from memory (loop.ts:189).                                 *)
RolloutIsMemory == OnDisk => ReconstructTranscript(file) = transcript

(* The model is never shown a tool action without an answer: a result or   *)
(* an error of its turn follows each one, the repair of a resumed session  *)
(* included (rollout.ts:15-16, loop.ts:205-219).                           *)
ActionsAreAnswered ==
    pc \in {"loop", "gate", "call"} =>
        \A i \in DOMAIN transcript : transcript[i].kind = "action" =>
            \E j \in DOMAIN transcript :
                /\ j > i
                /\ IsResult(transcript[j]) \/ transcript[j].kind = "error"
                /\ transcript[j].turn = transcript[i].turn

(* Every attempt ends: no answer of the model keeps the loop going.        *)
SessionEnds == pc # "idle" ~> pc = "idle"

(* The durable effect ledger survives compaction and seeds resume          *)
(* deduplication (rollout.ts:24): an effect whose successful result has    *)
(* reached the rollout is not run again.                                   *)
RecordedNeverRerun == [][\A c \in Effects : ran'[c] > ran[c] => c \notin file.done]_vars

(* A call that was started and has no result is surfaced to the model as   *)
(* of unknown outcome, never as one that is safe to run again              *)
(* (rollout.ts:12-14).                                                     *)
UnknownIsSurfaced ==
    [][file.inTool /\ Resume => transcript'[Len(transcript')].kind = "unknown"]_vars
=============================================================================
