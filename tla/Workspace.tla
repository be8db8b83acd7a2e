------------------------------ MODULE Workspace ------------------------------
(***************************************************************************)
(* The files of a workspace and the commands that work on them: the        *)
(* databases, of which far.db is the authority and the scheduler's stands  *)
(* for the optional ones, and the content-addressed artifact area.  The    *)
(* application puts an artifact (temporary file, then rename) and then the *)
(* object that refers to it; `far gc --apply` lists, reads the references  *)
(* and sweeps in another process; `far backup` copies one database after   *)
(* the other; `far restore` moves the live files aside and installs the    *)
(* set, and rolls back when a step fails.  Each may be killed between any  *)
(* two steps.                                                              *)
(*                                                                         *)
(* A row stands for an object of far.db and for the artifact it refers to, *)
(* and in the scheduler's database for a job.                              *)
(***************************************************************************)
EXTENDS Integers, Sequences, FiniteSets

CONSTANTS
    Rows,        \* the objects, and the artifacts they refer to
    MaxBackups,  \* bound on the backups that are taken
    MaxRestores, \* bound on the restores that are started
    MaxFaults    \* bound on kills and I/O failures together

ASSUME WorkspaceAssumption == {MaxBackups, MaxRestores, MaxFaults} \subseteq Nat

Dbs == <<"far", "sched">>
DbNames == {"far", "sched"}

\* A database file, or its absence.
Gone == [here |-> FALSE, rows |-> {}]
Holding(rows) == [here |-> TRUE, rows |-> rows]
Files == {Gone} \cup {Holding(rows) : rows \in SUBSET Rows}

VARIABLES
    db,      \* the live database files
    aside,   \* per database, the files moved aside, by the time in their names
    sets,    \* the backup sets with a manifest, by their members
    blobs,   \* the artifacts that have landed
    temps,   \* the temporary files of the artifact area
    app,     \* is the application up
    wal,     \* the databases with a write-ahead log beside them
    put,     \* the put the application is in
    gc,      \* the sweep
    bk,      \* the backup: the members it has dealt with, and their copies
    rs,      \* the restore
    written, \* ghost: the rows committed to far.db and not deleted since
    used     \* how often each bounded thing has happened

vars == <<db, aside, sets, blobs, temps, app, wal, put, gc, bk, rs, written, used>>

NoPut == [pc |-> "idle", row |-> {}]
NoGc == [pc |-> "idle", seen |-> {}]
NoFiles == [d \in DbNames |-> Gone]
NoBackup == [at |-> 0, copies |-> NoFiles]
\* from: the set that is restored; was: the files when it began (ghost).
NoRestore == [pc |-> "idle", at |-> 1, moved |-> <<>>, installed |-> <<>>,
              clean |-> TRUE, from |-> NoFiles, was |-> NoFiles]

Fault == /\ used.faults < MaxFaults
         /\ used' = [used EXCEPT !.faults = @ + 1]

Init ==
    /\ db = NoFiles
    /\ aside = [d \in DbNames |-> <<>>]
    /\ sets = {}
    /\ blobs = {}
    /\ temps = {}
    /\ app = FALSE
    /\ wal = {}
    /\ put = NoPut
    /\ gc = NoGc
    /\ bk = NoBackup
    /\ rs = NoRestore
    /\ written = {}
    /\ used = [backups |-> 0, restores |-> 0, faults |-> 0]

-----------------------------------------------------------------------------
(* The application. *)

\* openDb creates a database that is not there, and writes ahead.
Open(d) == /\ db' = [db EXCEPT ![d].here = TRUE]
           /\ wal' = wal \cup {d}

\* The databases that some process has open; the last close removes the log.
HeldOpen(up, sweeping) == {d \in DbNames : up \/ (sweeping /\ d = "far")}

\* The server is not started while a restore is under way.
StartApp ==
    /\ ~app /\ rs.pc = "idle"
    /\ app' = TRUE
    /\ Open("far")
    /\ UNCHANGED <<aside, sets, blobs, temps, put, gc, bk, rs, written, used>>

StopApp ==
    /\ app /\ put = NoPut
    /\ app' = FALSE
    /\ wal' = wal \cap HeldOpen(FALSE, gc # NoGc)
    /\ UNCHANGED <<db, aside, sets, blobs, temps, put, gc, bk, rs, written, used>>

\* A kill leaves the logs and the temporary file.
KillApp ==
    /\ app /\ Fault
    /\ app' = FALSE
    /\ put' = NoPut
    /\ UNCHANGED <<db, aside, sets, blobs, temps, wal, gc, bk, rs, written>>

\* putStream: the bytes go to a temporary file ...
PutStage(r) ==
    /\ app /\ put = NoPut /\ r \notin db["far"].rows
    /\ put' = [pc |-> "staged", row |-> {r}]
    /\ temps' = temps \cup {r}
    /\ UNCHANGED <<db, aside, sets, blobs, app, wal, gc, bk, rs, written, used>>

\* ... which is renamed into place, or dropped when the artifact is there.
PutLand ==
    /\ put.pc = "staged"
    /\ put' = [put EXCEPT !.pc = "landed"]
    /\ blobs' = blobs \cup put.row
    /\ temps' = temps \ put.row
    /\ UNCHANGED <<db, aside, sets, app, wal, gc, bk, rs, written, used>>

\* The object that refers to the artifact is stored.
PutObject ==
    /\ put.pc = "landed"
    /\ put' = NoPut
    /\ db' = [db EXCEPT !["far"].rows = @ \cup put.row]
    /\ written' = written \cup put.row
    /\ UNCHANGED <<aside, sets, blobs, temps, app, wal, gc, bk, rs, used>>

\* A job for a stored object reaches the scheduler's database, which the first
\* enqueue creates.
EnqueueJob(r) ==
    /\ app /\ r \in db["far"].rows \ db["sched"].rows
    /\ db' = [db EXCEPT !["sched"] = Holding(@.rows \cup {r})]
    /\ wal' = wal \cup {"sched"}
    /\ UNCHANGED <<aside, sets, blobs, temps, app, put, gc, bk, rs, written, used>>

\* deleteRunCascade: one transaction on far.db; the artifacts are left to gc.
DeleteRunCascade(r) ==
    /\ app /\ r \in db["far"].rows
    /\ db' = [db EXCEPT !["far"].rows = @ \ {r}]
    /\ written' = written \ {r}
    /\ UNCHANGED <<aside, sets, blobs, temps, app, wal, put, gc, bk, rs, used>>

-----------------------------------------------------------------------------
(* far gc --apply, in a process of its own. *)

GcList ==
    /\ gc = NoGc /\ rs.pc = "idle"
    /\ Open("far")
    /\ gc' = [pc |-> "listed", seen |-> blobs]
    /\ UNCHANGED <<aside, sets, blobs, temps, app, put, bk, rs, written, used>>

\* referencedArtifactHashes
GcRead ==
    /\ gc.pc = "listed"
    /\ gc' = [pc |-> "sweep", seen |-> gc.seen \ db["far"].rows]
    /\ UNCHANGED <<db, aside, sets, blobs, temps, app, wal, put, bk, rs, written, used>>

\* The candidates are unlinked one by one.  The temporary files of a put are
\* at the root of the area, where the sweep does not look.
GcSweep(r) ==
    /\ gc.pc = "sweep" /\ r \in gc.seen
    /\ gc' = [gc EXCEPT !.seen = @ \ {r}]
    /\ blobs' = blobs \ {r}
    /\ UNCHANGED <<db, aside, sets, temps, app, wal, put, bk, rs, written, used>>

GcEnds ==
    /\ gc.pc = "sweep" /\ gc.seen = {}
    /\ gc' = NoGc
    /\ wal' = wal \ ({"far"} \ HeldOpen(app, FALSE))
    /\ UNCHANGED <<db, aside, sets, blobs, temps, app, put, bk, rs, written, used>>

GcKilled ==
    /\ gc # NoGc /\ Fault
    /\ gc' = NoGc
    /\ UNCHANGED <<db, aside, sets, blobs, temps, app, wal, put, bk, rs, written>>

-----------------------------------------------------------------------------
(* far backup. *)

BackupStart ==
    /\ bk = NoBackup /\ rs.pc = "idle"
    /\ used.backups < MaxBackups
    /\ used' = [used EXCEPT !.backups = @ + 1]
    /\ bk' = [NoBackup EXCEPT !.at = 1]
    /\ UNCHANGED <<db, aside, sets, blobs, temps, app, wal, put, gc, rs, written>>

\* VACUUM INTO: a consistent copy of one database; an absent one is left out.
\* The connection writes, so closing it may remove a log that was left behind.
BackupMember ==
    LET d == Dbs[bk.at]
    IN  /\ bk.at \in 1 .. Len(Dbs)
        /\ bk' = [at |-> bk.at + 1, copies |-> [bk.copies EXCEPT ![d] = db[d]]]
        /\ wal' = wal \ ({d} \ HeldOpen(app, gc # NoGc))
        /\ UNCHANGED <<db, aside, sets, blobs, temps, app, put, gc, rs, written, used>>

\* Mutation of BackupEnds: a set without far.db gets its manifest.
BackupEndsAlways ==
    /\ bk.at > Len(Dbs)
    /\ bk' = NoBackup
    /\ sets' = sets \cup {bk.copies}
    /\ UNCHANGED <<db, aside, blobs, temps, app, wal, put, gc, rs, written, used>>

\* The manifest comes last, and never for a set without far.db.
BackupEnds ==
    /\ bk.at > Len(Dbs)
    /\ bk' = NoBackup
    /\ sets' = IF bk.copies["far"].here THEN sets \cup {bk.copies} ELSE sets
    /\ UNCHANGED <<db, aside, blobs, temps, app, wal, put, gc, rs, written, used>>

\* What is left has no manifest, and no restore takes it.
BackupKilled ==
    /\ bk # NoBackup /\ Fault
    /\ bk' = NoBackup
    /\ UNCHANGED <<db, aside, sets, blobs, temps, app, wal, put, gc, rs, written>>

-----------------------------------------------------------------------------
(* far restore <set> --replace. *)

\* Every member is verified and staged, and no log is beside a database, before
\* anything is moved; what fails until then changes nothing.
RestoreStart(from) ==
    /\ rs.pc = "idle" /\ bk = NoBackup
    /\ wal = {}
    /\ used.restores < MaxRestores
    /\ used' = [used EXCEPT !.restores = @ + 1]
    /\ rs' = [NoRestore EXCEPT !.pc = "moving", !.from = from, !.was = db]
    /\ UNCHANGED <<db, aside, sets, blobs, temps, app, wal, put, gc, bk, written>>

\* Mutation of MoveAside: a database the set has no member for stays in place.
MoveAsideMembers ==
    LET d == Dbs[rs.at]
        moves == db[d].here /\ rs.from[d].here
    IN  /\ rs.pc = "moving" /\ rs.at <= Len(Dbs)
        /\ rs' = [rs EXCEPT !.at = @ + 1, !.moved = IF moves THEN Append(@, d) ELSE @]
        /\ aside' = [aside EXCEPT ![d] = IF moves THEN Append(@, db[d]) ELSE @]
        /\ db' = [db EXCEPT ![d] = IF moves THEN Gone ELSE @]
        /\ UNCHANGED <<sets, blobs, temps, app, wal, put, gc, bk, written, used>>

\* Mutation of MoveAside: the name has no stamp, so the file that an earlier
\* restore moved aside is overwritten.
MoveAsideUnstamped ==
    LET d == Dbs[rs.at]
    IN  /\ rs.pc = "moving" /\ rs.at <= Len(Dbs)
        /\ rs' = [rs EXCEPT !.at = @ + 1, !.moved = IF db[d].here THEN Append(@, d) ELSE @]
        /\ aside' = [aside EXCEPT ![d] = IF db[d].here THEN <<db[d]>> ELSE @]
        /\ db' = [db EXCEPT ![d] = Gone]
        /\ UNCHANGED <<sets, blobs, temps, app, wal, put, gc, bk, written, used>>

\* The live files are moved aside, also one the set has no member for.
MoveAside ==
    LET d == Dbs[rs.at]
    IN  /\ rs.pc = "moving" /\ rs.at <= Len(Dbs)
        /\ rs' = [rs EXCEPT !.at = @ + 1, !.moved = IF db[d].here THEN Append(@, d) ELSE @]
        /\ aside' = [aside EXCEPT ![d] = IF db[d].here THEN Append(@, db[d]) ELSE @]
        /\ db' = [db EXCEPT ![d] = Gone]
        /\ UNCHANGED <<sets, blobs, temps, app, wal, put, gc, bk, written, used>>

Moved ==
    /\ rs.pc = "moving" /\ rs.at > Len(Dbs)
    /\ rs' = [rs EXCEPT !.pc = "installing", !.at = 1]
    /\ UNCHANGED <<db, aside, sets, blobs, temps, app, wal, put, gc, bk, written, used>>

\* The staged members are renamed into place.
Install ==
    LET d == Dbs[rs.at]
        has == rs.from[d].here
    IN  /\ rs.pc = "installing" /\ rs.at <= Len(Dbs)
        /\ rs' = [rs EXCEPT !.at = @ + 1, !.installed = IF has THEN Append(@, d) ELSE @]
        /\ db' = [db EXCEPT ![d] = IF has THEN rs.from[d] ELSE @]
        /\ UNCHANGED <<aside, sets, blobs, temps, app, wal, put, gc, bk, written, used>>

RestoreEnds ==
    /\ rs.pc = "installing" /\ rs.at > Len(Dbs)
    /\ rs' = NoRestore
    /\ UNCHANGED <<db, aside, sets, blobs, temps, app, wal, put, gc, bk, written, used>>

\* A rename fails: what was installed is unlinked, latest first, and then what
\* was moved is moved back.
RestoreFails ==
    /\ rs.pc \in {"moving", "installing"} /\ rs.at <= Len(Dbs)
    /\ Fault
    /\ rs' = [rs EXCEPT !.pc = "unlinking"]
    /\ UNCHANGED <<db, aside, sets, blobs, temps, app, wal, put, gc, bk, written>>

LastOf(s) == s[Len(s)]
ButLast(s) == SubSeq(s, 1, Len(s) - 1)

Unlink ==
    /\ rs.pc = "unlinking" /\ rs.installed # <<>>
    /\ rs' = [rs EXCEPT !.installed = ButLast(@)]
    /\ db' = [db EXCEPT ![LastOf(rs.installed)] = Gone]
    /\ UNCHANGED <<aside, sets, blobs, temps, app, wal, put, gc, bk, written, used>>

Unlinked ==
    /\ rs.pc = "unlinking" /\ rs.installed = <<>>
    /\ rs' = [rs EXCEPT !.pc = "movingBack"]
    /\ UNCHANGED <<db, aside, sets, blobs, temps, app, wal, put, gc, bk, written, used>>

\* An installed file cannot be unlinked: it stays, and the rollback goes on.
UnlinkFails ==
    /\ rs.pc = "unlinking" /\ rs.installed # <<>>
    /\ Fault
    /\ rs' = [rs EXCEPT !.installed = ButLast(@), !.clean = FALSE]
    /\ UNCHANGED <<db, aside, sets, blobs, temps, app, wal, put, gc, bk, written>>

\* A moved file is renamed back ...
MoveBack ==
    LET d == LastOf(rs.moved)
    IN  /\ rs.pc = "movingBack" /\ rs.moved # <<>>
        /\ ~db[d].here
        /\ db' = [db EXCEPT ![d] = LastOf(aside[d])]
        /\ aside' = [aside EXCEPT ![d] = ButLast(@)]
        /\ rs' = [rs EXCEPT !.moved = ButLast(@)]
        /\ UNCHANGED <<sets, blobs, temps, app, wal, put, gc, bk, written, used>>

\* ... unless something is in its place, or the rename fails.
MoveBackFails ==
    /\ rs.pc = "movingBack" /\ rs.moved # <<>>
    /\ \/ db[LastOf(rs.moved)].here /\ UNCHANGED used
       \/ ~db[LastOf(rs.moved)].here /\ Fault
    /\ rs' = [rs EXCEPT !.moved = ButLast(@), !.clean = FALSE]
    /\ UNCHANGED <<db, aside, sets, blobs, temps, app, wal, put, gc, bk, written>>

RolledBack ==
    /\ rs.pc = "movingBack" /\ rs.moved = <<>>
    /\ rs' = NoRestore
    /\ UNCHANGED <<db, aside, sets, blobs, temps, app, wal, put, gc, bk, written, used>>

\* The command is killed, and nothing rolls back.
RestoreKilled ==
    /\ rs.pc # "idle" /\ Fault
    /\ rs' = NoRestore
    /\ UNCHANGED <<db, aside, sets, blobs, temps, app, wal, put, gc, bk, written>>

-----------------------------------------------------------------------------
Application ==
    \/ StartApp \/ StopApp \/ KillApp
    \/ PutLand \/ PutObject
    \/ \E r \in Rows : PutStage(r) \/ EnqueueJob(r) \/ DeleteRunCascade(r)

Gc == \/ GcList \/ GcRead \/ GcEnds \/ GcKilled
      \/ \E r \in Rows : GcSweep(r)

Backup == BackupStart \/ BackupMember \/ BackupEnds \/ BackupKilled

Restore ==
    \/ \E from \in sets : RestoreStart(from)
    \/ MoveAside \/ Moved \/ Install \/ RestoreEnds
    \/ RestoreFails \/ Unlink \/ UnlinkFails \/ Unlinked
    \/ MoveBack \/ MoveBackFails \/ RolledBack
    \/ RestoreKilled

Next == Application \/ Gc \/ Backup \/ Restore

Spec == Init /\ [][Next]_vars

-----------------------------------------------------------------------------
(* Properties. *)

\* The state is well formed; in particular every set with a manifest has far.db
\* among its members, so that no restore leaves the workspace without it.
TypeOK ==
    /\ db \in [DbNames -> Files]
    /\ \A d \in DbNames : \A i \in 1 .. Len(aside[d]) : aside[d][i] \in Files \ {Gone}
    /\ \A s \in sets : s \in [DbNames -> Files] /\ s["far"].here
    /\ {blobs, temps, written} \subseteq SUBSET Rows
    /\ app \in BOOLEAN /\ wal \subseteq {d \in DbNames : db[d].here}
    /\ put.pc \in {"idle", "staged", "landed"} /\ put.row \subseteq Rows
    /\ gc.pc \in {"idle", "listed", "sweep"} /\ gc.seen \subseteq Rows
    /\ bk.at \in 0 .. Len(Dbs) + 1 /\ bk.copies \in [DbNames -> Files]
    /\ rs.pc \in {"idle", "moving", "installing", "unlinking", "movingBack"}
    /\ rs.at \in 1 .. Len(Dbs) + 1

\* A committed object that nobody deleted is in far.db or in a file that a
\* restore moved aside: no restore, rollback, kill or second restore destroys
\* it ("moved aside (not deleted) as the rollback path").
RowsKept ==
    written \subseteq db["far"].rows
                      \cup UNION {aside["far"][i].rows : i \in 1 .. Len(aside["far"])}

\* A restore that reports success leaves exactly the databases of the set, and
\* one that reports a complete rollback exactly the databases it found: no mix
\* of the two outlives a command that was not killed.
RestoreLeavesNoMix ==
    /\ RestoreEnds => db' = rs.from
    /\ RolledBack /\ rs.clean => db' = rs.was
RestoreIsAtomic == [][RestoreLeavesNoMix]_vars

\* Every object of far.db finds its artifact.  `far gc` promises to sweep only
\* what no stored object refers to; it lists and reads the references while the
\* application may be between the put of an artifact and of its object.
BlobsResolve == rs.pc = "idle" => db["far"].rows \subseteq blobs

\* A temporary file is one a put is writing, or gc will report and remove it:
\* once a sweep has ended, none is left over from a killed put.
TempsSwept == [][GcEnds => temps \subseteq put.row]_vars
=============================================================================
