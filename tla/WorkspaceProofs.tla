-------------------------- MODULE WorkspaceProofs --------------------------
(***************************************************************************)
(* Proofs about the workspace's files, for every set of rows and every     *)
(* bound on backups, restores, kills and I/O failures.                     *)
(*                                                                         *)
(* A restore runs alone: it starts only when no database has a log beside  *)
(* it, and whoever has a database open keeps its log there.  So while it   *)
(* runs, the files are what the restore has made of them, and they can be  *)
(* followed member by member: moved aside, installed, unlinked, moved      *)
(* back.                                                                   *)
(***************************************************************************)
EXTENDS Workspace, SequenceTheorems, TLAPS

\* The members dealt with so far, in the order of Dbs.
Orders == {<<>>, <<"far">>, <<"sched">>, <<"far", "sched">>}

\* The database is among the members.
In(d, s) == \E i \in 1 .. Len(s) : s[i] = d

\* The rows of a sequence of files.
RowsOf(s) == UNION {s[i].rows : i \in 1 .. Len(s)}

-----------------------------------------------------------------------------
(* The inductive invariant *)

Restores ==
    [pc : {"idle", "moving", "installing", "unlinking", "movingBack"}, at : 1 .. 3,
     moved : Orders, installed : Orders, clean : BOOLEAN,
     from : [DbNames -> Files], was : [DbNames -> Files]]

Shapes ==
    /\ db \in [DbNames -> Files]
    /\ aside \in [DbNames -> Seq(Files \ {Gone})]
    /\ \A s \in sets : s \in [DbNames -> Files] /\ s["far"].here
    /\ blobs \subseteq Rows /\ temps \subseteq Rows /\ written \subseteq Rows
    /\ app \in BOOLEAN
    /\ wal \subseteq {d \in DbNames : db[d].here}
    /\ put \in [pc : {"idle", "staged", "landed"}, row : SUBSET Rows]
    /\ gc \in [pc : {"idle", "listed", "sweep"}, seen : SUBSET Rows]
    /\ bk \in [at : 0 .. 3, copies : [DbNames -> Files]]
    /\ rs \in Restores
    /\ used \in [backups : Nat, restores : Nat, faults : Nat]

\* A process that has far.db open has its log beside it, a put is under way
\* only in an application that is up, and so a restore, which no log may meet,
\* runs alone.
Alone ==
    /\ app \/ gc # NoGc => "far" \in wal
    /\ put # NoPut => app
    /\ rs.pc # "idle" => wal = {} /\ bk = NoBackup

\* What was moved aside and not moved back is the latest of the files aside.
MovedIsLatest ==
    rs.pc # "idle" =>
        \A d \in DbNames : In(d, rs.moved) =>
            /\ aside[d] # <<>>
            /\ LastOf(aside[d]) = rs.was[d]

\* While the restore goes forward: the members it has passed are aside and then
\* installed, the others are as it found them and then absent.
Forward ==
    /\ rs.pc = "moving" =>
         /\ rs.installed = <<>>
         /\ \A k \in 1 .. 2 :
              /\ k < rs.at => db[Dbs[k]] = Gone /\ (In(Dbs[k], rs.moved) <=> rs.was[Dbs[k]].here)
              /\ k >= rs.at => db[Dbs[k]] = rs.was[Dbs[k]] /\ ~In(Dbs[k], rs.moved)
    /\ rs.pc = "installing" =>
         \A k \in 1 .. 2 :
            /\ In(Dbs[k], rs.moved) <=> rs.was[Dbs[k]].here
            /\ k < rs.at => db[Dbs[k]] = rs.from[Dbs[k]]
            /\ k < rs.at => (In(Dbs[k], rs.installed) <=> rs.from[Dbs[k]].here)
            /\ k >= rs.at => db[Dbs[k]] = Gone /\ ~In(Dbs[k], rs.installed)
    /\ rs.pc \in {"moving", "installing"} => rs.clean

\* While it rolls back: nothing installed has taken the place of a file that
\* was not moved aside, and, as long as every step of the rollback succeeds,
\* what is not installed is absent if it is aside and otherwise as it was found.
Backward ==
    /\ rs.pc \in {"unlinking", "movingBack"} =>
         \A d \in DbNames :
            /\ In(d, rs.installed) /\ ~In(d, rs.moved) => rs.was[d] = Gone
            /\ rs.clean /\ ~In(d, rs.installed) =>
                 db[d] = IF In(d, rs.moved) THEN Gone ELSE rs.was[d]
    /\ rs.pc = "movingBack" => rs.installed = <<>>

\* An installed far.db stands in for rows that are all in the files aside.
InstalledIsSpare ==
    rs.pc # "idle" /\ In("far", rs.installed) => written \subseteq RowsOf(aside["far"])

Inv == /\ Shapes /\ Alone /\ MovedIsLatest /\ Forward /\ Backward
       /\ RowsKept /\ InstalledIsSpare

-----------------------------------------------------------------------------
(* Sequences of members and of files *)

\* The members are far.db and the scheduler's database, in this order.
LEMMA Members == Len(Dbs) = 2 /\ Dbs[1] = "far" /\ Dbs[2] = "sched" /\ Dbs \in Seq(DbNames)
  BY DEF Dbs, DbNames

\* Taking the last member off leaves the others.
LEMMA OrderButLast ==
    ASSUME NEW s \in Orders, s # <<>>
    PROVE  /\ LastOf(s) \in DbNames
           /\ ButLast(s) \in Orders
           /\ In(LastOf(s), s)
           /\ \A d \in DbNames : In(d, ButLast(s)) <=> In(d, s) /\ d # LastOf(s)
<1>1. CASE s = <<"far">>
  <2>1. LastOf(s) = "far" /\ ButLast(s) = <<>>
    BY <1>1 DEF LastOf, ButLast
  <2> QED
    BY <1>1, <2>1 DEF Orders, In, DbNames
<1>2. CASE s = <<"sched">>
  <2>1. LastOf(s) = "sched" /\ ButLast(s) = <<>>
    BY <1>2 DEF LastOf, ButLast
  <2> QED
    BY <1>2, <2>1 DEF Orders, In, DbNames
<1>3. CASE s = <<"far", "sched">>
  <2>1. LastOf(s) = "sched"
    BY <1>3 DEF LastOf
  <2>2. /\ <<"far">> \in Seq(DbNames) /\ ButLast(s) \in Seq(DbNames)
        /\ Len(ButLast(s)) = 1 /\ ButLast(s)[1] = "far"
    BY <1>3 DEF ButLast, DbNames
  <2>3. ButLast(s) = <<"far">>
    BY <2>2, SeqEqual
  <2> QED
    BY <1>3, <2>1, <2>3 DEF Orders, In, DbNames
<1> QED
  BY <1>1, <1>2, <1>3 DEF Orders

\* A member is added after the ones before it in Dbs.
LEMMA OrderAppend ==
    ASSUME NEW s \in Orders, NEW k \in 1 .. 2,
           \A j \in 1 .. 2 : j >= k => ~In(Dbs[j], s)
    PROVE  /\ Append(s, Dbs[k]) \in Orders
           /\ \A d \in DbNames : In(d, Append(s, Dbs[k])) <=> In(d, s) \/ d = Dbs[k]
<1>1. CASE k = 1
  <2>1. ~In("far", s) /\ ~In("sched", s)
    BY <1>1, Members
  <2>2. s = <<>>
    BY <2>1 DEF Orders, In
  <2>3. Append(s, Dbs[k]) = <<"far">>
    BY <1>1, <2>2, Members
  <2> QED
    BY <2>2, <2>3, <1>1, Members DEF Orders, In, DbNames
<1>2. CASE k = 2
  <2>1. ~In("sched", s)
    BY <1>2, Members
  <2>2. s = <<>> \/ s = <<"far">>
    BY <2>1 DEF Orders, In
  <2>3. CASE s = <<>>
    <3>1. Append(s, Dbs[k]) = <<"sched">>
      BY <1>2, <2>3, Members
    <3> QED
      BY <2>3, <3>1, <1>2, Members DEF Orders, In, DbNames
  <2>4. CASE s = <<"far">>
    <3>1. /\ <<"far", "sched">> \in Seq(DbNames) /\ Append(s, Dbs[k]) \in Seq(DbNames)
          /\ Len(Append(s, Dbs[k])) = 2
          /\ Append(s, Dbs[k])[1] = "far" /\ Append(s, Dbs[k])[2] = "sched"
      BY <1>2, <2>4, Members DEF DbNames
    <3>2. \A i \in 1 .. 2 : Append(s, Dbs[k])[i] = <<"far", "sched">>[i]
      BY <3>1
    <3>3. Append(s, Dbs[k]) = <<"far", "sched">>
      <4>1. Len(<<"far", "sched">>) = 2
        OBVIOUS
      <4> HIDE <2>4
      <4> QED
        BY <3>1, <3>2, <4>1, SeqEqual
    <3> QED
      BY <2>4, <3>3, <1>2, Members DEF Orders, In, DbNames
  <2> QED
    BY <2>2, <2>3, <2>4
<1> QED
  BY <1>1, <1>2

\* No member is in the empty sequence.
LEMMA OrderEmpty == <<>> \in Orders /\ \A d : ~In(d, <<>>)
  BY DEF Orders, In

\* A file moved aside is the latest there and adds its rows.
LEMMA FilesAppend ==
    ASSUME NEW S, NEW s \in Seq(S), NEW f \in S
    PROVE  /\ Append(s, f) \in Seq(S)
           /\ Append(s, f) # <<>>
           /\ LastOf(Append(s, f)) = f
           /\ RowsOf(Append(s, f)) = RowsOf(s) \cup f.rows
<1>1. /\ Append(s, f) \in Seq(S) /\ Len(Append(s, f)) = Len(s) + 1
      /\ \A i \in 1 .. Len(s) : Append(s, f)[i] = s[i]
      /\ Append(s, f)[Len(s) + 1] = f
      /\ Len(s) \in Nat
  OBVIOUS
<1>2. RowsOf(Append(s, f)) = RowsOf(s) \cup f.rows
  BY <1>1 DEF RowsOf
<1> QED
  BY <1>1, <1>2 DEF LastOf

\* The latest file aside, taken back, takes its rows with it and no others.
LEMMA FilesButLast ==
    ASSUME NEW S, NEW s \in Seq(S), s # <<>>
    PROVE  /\ ButLast(s) \in Seq(S)
           /\ LastOf(s) \in S
           /\ RowsOf(s) = RowsOf(ButLast(s)) \cup LastOf(s).rows
<1>1. Len(s) \in Nat /\ Len(s) >= 1
  OBVIOUS
<1>2. /\ ButLast(s) \in Seq(S) /\ Len(ButLast(s)) = Len(s) - 1
      /\ \A i \in 1 .. Len(s) - 1 : ButLast(s)[i] = s[i]
  <2>1. \A i \in 1 .. Len(s) - 1 : s[i] \in S
    BY <1>1, ElementOfSeq
  <2> DEFINE n == Len(s) - 1
             t == SubSeq(s, 1, n)
  <2>2. 1 \in Int /\ n \in Int /\ n \in Nat
    BY <1>1
  <2>3. /\ t \in Seq(S)
        /\ Len(t) = IF 1 <= n THEN n - 1 + 1 ELSE 0
        /\ \A i \in 1 .. n - 1 + 1 : t[i] = s[1 + i - 1]
    <3> HIDE DEF n
    <3> QED
      BY <2>1, <2>2, SubSeqProperties DEF n
  <2>4. t \in Seq(S) /\ Len(t) = n /\ \A i \in 1 .. n : t[i] = s[i]
    <3> HIDE DEF n, t
    <3>1. Len(t) = n
      BY <2>2, <2>3
    <3>2. ASSUME NEW i \in 1 .. n PROVE t[i] = s[i]
      <4>1. i \in 1 .. n - 1 + 1 /\ 1 + i - 1 = i
        BY <2>2
      <4> QED
        BY <2>3, <4>1
    <3> QED
      BY <2>3, <3>1, <3>2
  <2> QED
    BY <2>4 DEF ButLast
<1>3. RowsOf(s) = RowsOf(ButLast(s)) \cup LastOf(s).rows
  BY <1>1, <1>2 DEF RowsOf, LastOf
<1> QED
  BY <1>1, <1>2, <1>3 DEF LastOf

-----------------------------------------------------------------------------
(* The application, the sweep and the backup *)

\* None of their steps is taken while a restore runs, and none touches it.
LEMMA Elsewhere ==
    ASSUME Inv, Application \/ Gc \/ Backup
    PROVE  rs.pc = "idle" /\ rs' = rs
<1>1. rs' = rs
  BY DEF Application, Gc, Backup, StartApp, StopApp, KillApp, PutLand, PutObject, PutStage,
         EnqueueJob, DeleteRunCascade, GcList, GcRead, GcEnds, GcKilled, GcSweep,
         BackupStart, BackupMember, BackupEnds, BackupKilled
<1>2. ASSUME rs.pc # "idle" PROVE FALSE
  <2>1. ~app /\ gc = NoGc /\ put = NoPut /\ bk = NoBackup
    BY <1>2 DEF Inv, Alone
  <2>2. CASE Application
    BY <1>2, <2>1, <2>2 DEF Application, StartApp, StopApp, KillApp, PutLand, PutObject, PutStage,
                            EnqueueJob, DeleteRunCascade, NoPut
  <2>3. CASE Gc
    BY <1>2, <2>1, <2>3 DEF Gc, GcList, GcRead, GcEnds, GcKilled, GcSweep, NoGc
  <2>4. CASE Backup
    BY <1>2, <2>1, <2>4, Members DEF Backup, BackupStart, BackupMember, BackupEnds, BackupKilled, NoBackup
  <2> QED
    BY <2>2, <2>3, <2>4
<1> QED
  BY <1>1, <1>2

\* What follows the restore holds when there is none.
LEMMA NoRestoreUnderWay ==
    ASSUME rs'.pc = "idle"
    PROVE  MovedIsLatest' /\ Forward' /\ Backward' /\ InstalledIsSpare'
  BY DEF MovedIsLatest, Forward, Backward, InstalledIsSpare

\* A file is absent, and then empty, or has rows.
LEMMA FileShapes ==
    /\ \A f : f \in Files <=> f \in [here : BOOLEAN, rows : SUBSET Rows] /\ (f.here \/ f.rows = {})
    /\ \A f \in Files : ~f.here <=> f = Gone
    /\ Gone \in Files /\ Gone.rows = {} /\ ~Gone.here
    /\ NoFiles \in [DbNames -> Files]
<1>1. \A f \in [here : BOOLEAN, rows : SUBSET Rows] : f = [here |-> f.here, rows |-> f.rows]
  OBVIOUS
<1>2. ASSUME NEW f \in [here : BOOLEAN, rows : SUBSET Rows], f.here PROVE f \in Files
  <2>1. f = [here |-> TRUE, rows |-> f.rows] /\ f.rows \in SUBSET Rows
    BY <1>1, <1>2
  <2> QED
    BY <2>1 DEF Files, Holding
<1>3. ASSUME NEW f \in [here : BOOLEAN, rows : SUBSET Rows], ~f.here, f.rows = {} PROVE f = Gone
  <2>1. f = [here |-> FALSE, rows |-> {}]
    BY <1>1, <1>3
  <2> QED
    BY <2>1 DEF Gone
<1>4. ASSUME NEW f \in Files
      PROVE  f \in [here : BOOLEAN, rows : SUBSET Rows] /\ (f.here \/ f.rows = {})
  <2>1. CASE f = Gone
    BY <2>1 DEF Gone
  <2>2. CASE \E R \in SUBSET Rows : f = [here |-> TRUE, rows |-> R]
    BY <2>2
  <2> QED
    BY <2>1, <2>2 DEF Files, Holding
<1>5. Gone \in Files /\ Gone.rows = {} /\ ~Gone.here
  BY DEF Files, Gone
<1>6. NoFiles \in [DbNames -> Files]
  BY <1>5 DEF NoFiles
<1> QED
  BY <1>2, <1>3, <1>4, <1>5, <1>6

\* A kill or an I/O failure is counted.
LEMMA FaultCounted ==
    ASSUME used \in [backups : Nat, restores : Nat, faults : Nat], Fault
    PROVE  used' \in [backups : Nat, restores : Nat, faults : Nat]
  BY DEF Fault

\* Opening far.db creates it if need be, and changes no rows.
LEMMA OpenCreates ==
    ASSUME Shapes, Open("far")
    PROVE  /\ db' \in [DbNames -> Files]
           /\ wal' \subseteq {d \in DbNames : db'[d].here}
           /\ db'["far"].rows = db["far"].rows
<1>1. db \in [DbNames -> Files] /\ "far" \in DbNames
  BY DEF Shapes, DbNames
<1>2. db["far"] \in [here : BOOLEAN, rows : SUBSET Rows]
  BY <1>1, FileShapes
<1> DEFINE f == [db["far"] EXCEPT !.here = TRUE]
<1>3. f \in [here : BOOLEAN, rows : SUBSET Rows] /\ f.here /\ f.rows = db["far"].rows
  BY <1>2
<1>4. f \in Files
  BY <1>3, FileShapes
<1> HIDE DEF f
<1>5. db' = [db EXCEPT !["far"] = f]
  BY DEF f, Open
<1>6. wal' = wal \cup {"far"} /\ wal \subseteq {d \in DbNames : db[d].here}
  BY DEF Open, Shapes
<1> QED
  BY <1>1, <1>3, <1>4, <1>5, <1>6

\* The invariant without what follows a restore.
Base == Shapes /\ Alone /\ RowsKept

\* The server opens far.db.
LEMMA StartAppKeeps ==
    ASSUME Inv, StartApp
    PROVE  Base'
<1> USE DEF StartApp
<1>1. Shapes'
  BY OpenCreates DEF Inv, Shapes
<1>2. Alone'
  BY DEF Inv, Alone, Open
<1>3. RowsKept'
  BY OpenCreates DEF Inv, RowsKept
<1> QED
  BY <1>1, <1>2, <1>3 DEF Base

\* The server stops.
LEMMA StopAppKeeps ==
    ASSUME Inv, StopApp
    PROVE  Base'
<1> USE DEF StopApp
<1>1. Shapes'
  BY DEF Inv, Shapes
<1>2. Alone'
  BY DEF Inv, Alone, HeldOpen, DbNames
<1>3. RowsKept'
  BY DEF Inv, RowsKept, Shapes
<1> QED
  BY <1>1, <1>2, <1>3 DEF Base

\* The server is killed.
LEMMA KillAppKeeps ==
    ASSUME Inv, KillApp
    PROVE  Base'
<1> USE DEF KillApp
<1>1. Shapes'
  BY FaultCounted DEF Inv, Shapes, NoPut
<1>2. Alone'
  BY DEF Inv, Alone
<1>3. RowsKept'
  BY DEF Inv, RowsKept, Shapes
<1> QED
  BY <1>1, <1>2, <1>3 DEF Base

\* A put stages its artifact.
LEMMA PutStageKeeps ==
    ASSUME Inv, NEW r \in Rows, PutStage(r)
    PROVE  Base'
<1> USE DEF PutStage
<1>1. Shapes'
  BY DEF Inv, Shapes
<1>2. Alone'
  BY DEF Inv, Alone, Shapes
<1>3. RowsKept'
  BY DEF Inv, RowsKept, Shapes
<1> QED
  BY <1>1, <1>2, <1>3 DEF Base

\* A put lands its artifact.
LEMMA PutLandKeeps ==
    ASSUME Inv, PutLand
    PROVE  Base'
<1> USE DEF PutLand
<1>1. Shapes'
  BY DEF Inv, Shapes
<1>2. Alone'
  BY DEF Inv, Alone, Shapes, NoPut
<1>3. RowsKept'
  BY DEF Inv, RowsKept, Shapes
<1> QED
  BY <1>1, <1>2, <1>3 DEF Base

\* A put stores its object.
LEMMA PutObjectKeeps ==
    ASSUME Inv, PutObject
    PROVE  Base'
<1> USE DEF PutObject
<1>1. Shapes'
  BY FileShapes DEF Inv, Shapes, NoPut, Alone, DbNames
<1>2. Alone'
  BY DEF Inv, Alone, Shapes, NoPut
<1>3. RowsKept'
  BY FileShapes DEF Inv, RowsKept, Shapes, DbNames
<1> QED
  BY <1>1, <1>2, <1>3 DEF Base

\* A job is enqueued.
LEMMA EnqueueJobKeeps ==
    ASSUME Inv, NEW r \in Rows, EnqueueJob(r)
    PROVE  Base'
<1> USE DEF EnqueueJob
<1>1. Shapes'
  BY FileShapes, ZenonT(20) DEF Inv, Shapes, DbNames, Holding
<1>2. Alone'
  BY DEF Inv, Alone, Shapes
<1>3. RowsKept'
  BY DEF Inv, RowsKept, Shapes, DbNames
<1> QED
  BY <1>1, <1>2, <1>3 DEF Base

\* A run is deleted.
LEMMA DeleteRunCascadeKeeps ==
    ASSUME Inv, NEW r \in Rows, DeleteRunCascade(r)
    PROVE  Base'
<1> USE DEF DeleteRunCascade
<1>1. Shapes'
  BY FileShapes DEF Inv, Shapes, DbNames, Alone
<1>2. Alone'
  BY DEF Inv, Alone, Shapes
<1>3. RowsKept'
  BY FileShapes DEF Inv, RowsKept, Shapes, DbNames
<1> QED
  BY <1>1, <1>2, <1>3 DEF Base

\* The sweep lists the artifacts.
LEMMA GcListKeeps ==
    ASSUME Inv, GcList
    PROVE  Base'
<1> USE DEF GcList
<1>1. Shapes'
  BY OpenCreates DEF Inv, Shapes
<1>2. Alone'
  BY DEF Inv, Alone, Open
<1>3. RowsKept'
  BY OpenCreates DEF Inv, RowsKept
<1> QED
  BY <1>1, <1>2, <1>3 DEF Base

\* The sweep reads the references.
LEMMA GcReadKeeps ==
    ASSUME Inv, GcRead
    PROVE  Base'
<1> USE DEF GcRead
<1>1. Shapes'
  BY DEF Inv, Shapes
<1>2. Alone'
  BY DEF Inv, Alone, NoGc
<1>3. RowsKept'
  BY DEF Inv, RowsKept, Shapes
<1> QED
  BY <1>1, <1>2, <1>3 DEF Base

\* The sweep unlinks an artifact.
LEMMA GcSweepKeeps ==
    ASSUME Inv, NEW r \in Rows, GcSweep(r)
    PROVE  Base'
<1> USE DEF GcSweep
<1>1. Shapes'
  BY DEF Inv, Shapes
<1>2. Alone'
  BY DEF Inv, Alone, Shapes, NoGc
<1>3. RowsKept'
  BY DEF Inv, RowsKept, Shapes
<1> QED
  BY <1>1, <1>2, <1>3 DEF Base

\* The sweep ends.
LEMMA GcEndsKeeps ==
    ASSUME Inv, GcEnds
    PROVE  Base'
<1> USE DEF GcEnds
<1>1. Shapes'
  BY DEF Inv, Shapes, NoGc
<1>2. Alone'
  BY DEF Inv, Alone, HeldOpen, NoGc, DbNames
<1>3. RowsKept'
  BY DEF Inv, RowsKept, Shapes
<1> QED
  BY <1>1, <1>2, <1>3 DEF Base

\* The sweep is killed.
LEMMA GcKilledKeeps ==
    ASSUME Inv, GcKilled
    PROVE  Base'
<1> USE DEF GcKilled
<1>1. Shapes'
  BY FaultCounted DEF Inv, Shapes, NoGc
<1>2. Alone'
  BY DEF Inv, Alone
<1>3. RowsKept'
  BY DEF Inv, RowsKept, Shapes
<1> QED
  BY <1>1, <1>2, <1>3 DEF Base

\* A backup starts.
LEMMA BackupStartKeeps ==
    ASSUME Inv, BackupStart
    PROVE  Base'
<1> USE DEF BackupStart
<1>1. Shapes'
  <2>1. used' \in [backups : Nat, restores : Nat, faults : Nat]
    <3>1. /\ used \in [backups : Nat, restores : Nat, faults : Nat]
          /\ used' = [used EXCEPT !.backups = @ + 1]
      BY DEF Inv, Shapes
    <3> HIDE DEF BackupStart
    <3> QED
      BY <3>1
  <2>2. bk' \in [at : 0 .. 3, copies : [DbNames -> Files]]
    BY FileShapes DEF NoBackup
  <2> QED
    BY <2>1, <2>2 DEF Inv, Shapes
<1>2. Alone'
  BY DEF Inv, Alone
<1>3. RowsKept'
  BY DEF Inv, RowsKept, Shapes
<1> QED
  BY <1>1, <1>2, <1>3 DEF Base

\* A backup copies a database.
LEMMA BackupMemberKeeps ==
    ASSUME Inv, BackupMember
    PROVE  Base'
<1> USE DEF BackupMember
<1>1. Shapes'
  <2>1. bk' \in [at : 0 .. 3, copies : [DbNames -> Files]]
    BY Members DEF Inv, Shapes, DbNames
  <2> QED
    BY <2>1 DEF Inv, Shapes
<1>2. Alone'
  BY Elsewhere, Members DEF Inv, Alone, HeldOpen, DbNames, Backup
<1>3. RowsKept'
  BY DEF Inv, RowsKept, Shapes
<1> QED
  BY <1>1, <1>2, <1>3 DEF Base

\* A backup gets its manifest.
LEMMA BackupEndsKeeps ==
    ASSUME Inv, BackupEnds
    PROVE  Base'
<1> USE DEF BackupEnds
<1>1. Shapes'
  BY FileShapes DEF Inv, Shapes, NoBackup
<1>2. Alone'
  BY DEF Inv, Alone
<1>3. RowsKept'
  BY DEF Inv, RowsKept, Shapes
<1> QED
  BY <1>1, <1>2, <1>3 DEF Base

\* A backup is killed.
LEMMA BackupKilledKeeps ==
    ASSUME Inv, BackupKilled
    PROVE  Base'
<1> USE DEF BackupKilled
<1>1. Shapes'
  BY FaultCounted, FileShapes DEF Inv, Shapes, NoBackup
<1>2. Alone'
  BY DEF Inv, Alone
<1>3. RowsKept'
  BY DEF Inv, RowsKept, Shapes
<1> QED
  BY <1>1, <1>2, <1>3 DEF Base

\* Outside a restore the invariant is kept.
LEMMA ElsewhereKeeps ==
    ASSUME Inv, Application \/ Gc \/ Backup
    PROVE  Inv'
<1>1. Base'
  BY StartAppKeeps, StopAppKeeps, KillAppKeeps, PutStageKeeps, PutLandKeeps, PutObjectKeeps,
     EnqueueJobKeeps, DeleteRunCascadeKeeps, GcListKeeps, GcReadKeeps, GcSweepKeeps, GcEndsKeeps,
     GcKilledKeeps, BackupStartKeeps, BackupMemberKeeps, BackupEndsKeeps, BackupKilledKeeps
  DEF Application, Gc, Backup
<1>2. rs'.pc = "idle"
  BY Elsewhere
<1> QED
  BY <1>1, <1>2, NoRestoreUnderWay DEF Inv, Base

-----------------------------------------------------------------------------
(* The restore *)

\* What every step of a restore leaves alone.
LEMMA RestoreFrame ==
    ASSUME Inv, rs.pc # "idle", UNCHANGED <<sets, blobs, temps, app, wal, put, gc, bk, written>>
    PROVE  Alone' /\ (Shapes' <=> /\ db' \in [DbNames -> Files]
                                  /\ aside' \in [DbNames -> Seq(Files \ {Gone})]
                                  /\ rs' \in Restores
                                  /\ used' \in [backups : Nat, restores : Nat, faults : Nat])
<1>1. wal = {} /\ bk = NoBackup
  BY DEF Inv, Alone
<1>2. Alone'
  BY <1>1 DEF Inv, Alone
<1> QED
  BY <1>1, <1>2 DEF Inv, Shapes

\* A restore starts from the files it finds.
LEMMA RestoreStartKeeps ==
    ASSUME Inv, NEW from \in sets, RestoreStart(from)
    PROVE  Inv'
<1>1. /\ rs' \in Restores
      /\ rs'.pc = "moving" /\ rs'.at = 1 /\ rs'.moved = <<>> /\ rs'.installed = <<>>
      /\ rs'.clean /\ rs'.was = db
  <2>1. rs' = [pc |-> "moving", at |-> 1, moved |-> <<>>, installed |-> <<>>,
               clean |-> TRUE, from |-> from, was |-> db]
    BY DEF RestoreStart, NoRestore
  <2>2. from \in [DbNames -> Files] /\ db \in [DbNames -> Files]
    BY DEF Inv, Shapes
  <2> QED
    BY <2>1, <2>2, OrderEmpty DEF Restores
<1>2. used' \in [backups : Nat, restores : Nat, faults : Nat]
  <2>1. /\ used \in [backups : Nat, restores : Nat, faults : Nat]
        /\ used' = [used EXCEPT !.restores = @ + 1]
    BY DEF Inv, Shapes, RestoreStart
  <2> QED
    BY <2>1
<1>3. /\ UNCHANGED <<db, aside, sets, blobs, temps, app, wal, put, gc, bk, written>>
      /\ wal = {} /\ bk = NoBackup
  BY DEF RestoreStart
<1>4. Shapes'
  BY <1>1, <1>2, <1>3 DEF Inv, Shapes
<1>5. Alone'
  BY <1>3 DEF Inv, Alone
<1>6. MovedIsLatest' /\ InstalledIsSpare'
  BY <1>1, OrderEmpty DEF MovedIsLatest, InstalledIsSpare
<1>7. Forward' /\ Backward'
  BY <1>1, <1>3, OrderEmpty DEF Forward, Backward
<1>8. RowsKept'
  BY <1>3 DEF Inv, RowsKept
<1> QED
  BY <1>4, <1>5, <1>6, <1>7, <1>8 DEF Inv

\* A live file is moved aside, or there is none.
LEMMA MoveAsideKeeps ==
    ASSUME Inv, MoveAside
    PROVE  Inv'
<1> DEFINE k == rs.at
           d == Dbs[k]
<1>1. /\ rs.pc = "moving" /\ k \in 1 .. 2 /\ d \in DbNames
      /\ UNCHANGED <<sets, blobs, temps, app, wal, put, gc, bk, written, used>>
      /\ db \in [DbNames -> Files] /\ aside \in [DbNames -> Seq(Files \ {Gone})]
      /\ used \in [backups : Nat, restores : Nat, faults : Nat]
      /\ rs.moved \in Orders /\ rs.installed = <<>> /\ rs.clean
      /\ \A j \in 1 .. 2 : j >= k => db[Dbs[j]] = rs.was[Dbs[j]] /\ ~In(Dbs[j], rs.moved)
      /\ db[d] = rs.was[d] /\ ~In(d, rs.moved)
  <2>1. rs \in Restores /\ rs.pc = "moving" /\ rs.at <= 2
    BY Members DEF MoveAside, Inv, Shapes
  <2>2. k \in 1 .. 2 /\ d \in DbNames /\ rs.moved \in Orders
    BY <2>1, Members DEF Restores, DbNames
  <2>3. /\ UNCHANGED <<sets, blobs, temps, app, wal, put, gc, bk, written, used>>
        /\ db \in [DbNames -> Files] /\ aside \in [DbNames -> Seq(Files \ {Gone})]
        /\ used \in [backups : Nat, restores : Nat, faults : Nat]
    BY DEF MoveAside, Inv, Shapes
  <2> QED
    BY <2>1, <2>2, <2>3 DEF Inv, Forward
<1> DEFINE moved1 == IF db[d].here THEN Append(rs.moved, d) ELSE rs.moved
           aside1 == IF db[d].here THEN Append(aside[d], db[d]) ELSE aside[d]
<1>2. /\ db' = [db EXCEPT ![d] = Gone]
      /\ aside' = [aside EXCEPT ![d] = aside1]
      /\ rs' = [rs EXCEPT !.at = @ + 1, !.moved = moved1]
  BY DEF MoveAside
<1>3. moved1 \in Orders /\ \A e \in DbNames : In(e, moved1) <=> In(e, rs.moved) \/ (e = d /\ db[d].here)
  BY <1>1, OrderAppend
<1>4. /\ aside1 \in Seq(Files \ {Gone})
      /\ db[d].here => aside1 # <<>> /\ LastOf(aside1) = db[d]
      /\ RowsOf(aside1) = RowsOf(aside[d]) \cup db[d].rows
  <2>1. CASE db[d].here
    <3>1. db[d] \in Files \ {Gone} /\ aside[d] \in Seq(Files \ {Gone})
      BY <1>1, <2>1, FileShapes
    <3> QED
      BY <2>1, <3>1, FilesAppend
  <2>2. CASE ~db[d].here
    <3>1. db[d].rows = {} /\ aside1 = aside[d]
      BY <1>1, <2>2, FileShapes
    <3> QED
      BY <1>1, <2>2, <3>1
  <2> QED
    BY <2>1, <2>2
<1> HIDE DEF moved1, aside1
<1>5. /\ rs' \in Restores
      /\ rs'.pc = "moving" /\ rs'.at = k + 1 /\ rs'.moved = moved1 /\ rs'.installed = <<>>
      /\ rs'.clean /\ rs'.was = rs.was
  <2>1. rs \in Restores /\ moved1 \in Orders /\ rs.at + 1 \in 1 .. 3
    BY <1>1, <1>3 DEF Inv, Shapes
  <2>2. rs' \in Restores /\ rs'.pc = rs.pc /\ rs'.at = rs.at + 1 /\ rs'.moved = moved1
        /\ rs'.installed = rs.installed /\ rs'.clean = rs.clean /\ rs'.was = rs.was
    BY <1>2, <2>1 DEF Restores
  <2> QED
    BY <1>1, <2>2
<1>6. /\ db' \in [DbNames -> Files] /\ aside' \in [DbNames -> Seq(Files \ {Gone})]
      /\ db'[d] = Gone /\ aside'[d] = aside1
      /\ \A e \in DbNames \ {d} : db'[e] = db[e] /\ aside'[e] = aside[e]
  BY <1>1, <1>2, <1>4, FileShapes
<1> HIDE DEF k, d
<1>7. Shapes' /\ Alone'
  BY <1>1, <1>5, <1>6, RestoreFrame
<1>8. MovedIsLatest'
  BY <1>1, <1>3, <1>4, <1>5, <1>6, ZenonT(20) DEF MovedIsLatest, Inv
<1>9. Forward'
  <2> SUFFICES ASSUME NEW j \in 1 .. 2
               PROVE  /\ j < k + 1 => db'[Dbs[j]] = Gone /\ (In(Dbs[j], moved1) <=> rs.was[Dbs[j]].here)
                      /\ j >= k + 1 => db'[Dbs[j]] = rs.was[Dbs[j]] /\ ~In(Dbs[j], moved1)
    BY <1>5 DEF Forward
  <2>1. Dbs[j] \in DbNames /\ (j # k => Dbs[j] # d)
    BY <1>1, Members DEF DbNames, d
  <2>2. j < k => db[Dbs[j]] = Gone /\ (In(Dbs[j], rs.moved) <=> rs.was[Dbs[j]].here)
    BY <1>1 DEF Inv, Forward, k
  <2>3. j = k => Dbs[j] = d
    BY DEF d
  <2> QED
    BY <1>1, <1>3, <1>6, <2>1, <2>2, <2>3
<1>10. Backward' /\ InstalledIsSpare'
  BY <1>5, OrderEmpty DEF Backward, InstalledIsSpare
<1>11. RowsKept'
  <2>1. written \subseteq db["far"].rows \cup RowsOf(aside["far"]) /\ "far" \in DbNames
    BY DEF Inv, RowsKept, RowsOf, DbNames
  <2>2. written \subseteq db'["far"].rows \cup RowsOf(aside'["far"])
    BY <1>4, <1>6, <2>1, FileShapes
  <2> QED
    BY <1>1, <2>2 DEF RowsKept, RowsOf
<1> QED
  BY <1>7, <1>8, <1>9, <1>10, <1>11 DEF Inv

\* The files are all aside, and the members are installed next.
LEMMA MovedKeeps ==
    ASSUME Inv, Moved
    PROVE  Inv'
<1>1. /\ rs \in Restores /\ rs.pc = "moving" /\ rs.at = 3
      /\ rs' = [rs EXCEPT !.pc = "installing", !.at = 1]
      /\ UNCHANGED <<db, aside, sets, blobs, temps, app, wal, put, gc, bk, written, used>>
  <2>1. rs \in Restores /\ rs.at > 2
    BY Members DEF Moved, Inv, Shapes
  <2> QED
    BY <2>1 DEF Moved, Restores
<1>2. /\ rs' \in Restores /\ rs'.pc = "installing" /\ rs'.at = 1 /\ rs'.moved = rs.moved
      /\ rs'.installed = rs.installed /\ rs'.clean = rs.clean /\ rs'.was = rs.was /\ rs'.from = rs.from
  <2>1. rs \in Restores /\ rs' = [rs EXCEPT !.pc = "installing", !.at = 1]
    BY <1>1
  <2>2. rs' \in Restores
    <3>1. ASSUME NEW p \in {"idle", "moving", "installing", "unlinking", "movingBack"}, NEW a \in 1 .. 3
          PROVE  [rs EXCEPT !.pc = p, !.at = a] \in Restores
      BY <2>1 DEF Restores
    <3> QED
      BY <2>1, <3>1
  <2> QED
    BY <2>1, <2>2 DEF Restores
<1>3. Shapes' /\ Alone'
  BY <1>1, <1>2, RestoreFrame DEF Inv, Shapes
<1>4. MovedIsLatest' /\ RowsKept'
  BY <1>1, <1>2 DEF Inv, MovedIsLatest, RowsKept
<1>5. Forward' /\ Backward' /\ InstalledIsSpare'
  BY <1>1, <1>2, OrderEmpty DEF Inv, Forward, Backward, InstalledIsSpare
<1> QED
  BY <1>3, <1>4, <1>5 DEF Inv

\* A member is installed where nothing is left, or the set has none.
LEMMA InstallKeeps ==
    ASSUME Inv, Install
    PROVE  Inv'
<1> DEFINE k == rs.at
           d == Dbs[k]
           has == rs.from[d].here
           installed1 == IF has THEN Append(rs.installed, d) ELSE rs.installed
<1>1. /\ rs \in Restores /\ rs.pc = "installing" /\ rs.at \in 1 .. 2
      /\ UNCHANGED <<aside, sets, blobs, temps, app, wal, put, gc, bk, written, used>>
      /\ db \in [DbNames -> Files] /\ aside \in [DbNames -> Seq(Files \ {Gone})]
      /\ used \in [backups : Nat, restores : Nat, faults : Nat]
  <2>1. rs \in Restores /\ rs.at <= 2
    BY Members DEF Install, Inv, Shapes
  <2>2. rs.at \in 1 .. 2
    BY <2>1 DEF Restores
  <2> QED
    BY <2>1, <2>2 DEF Install, Inv, Shapes
<1>2. /\ d \in DbNames /\ rs.from[d] \in Files /\ rs.installed \in Orders /\ has \in BOOLEAN
      /\ rs.clean
  <2>1. d \in DbNames
    BY <1>1, Members DEF DbNames
  <2>2. rs.from \in [DbNames -> Files] /\ rs.installed \in Orders
    BY <1>1 DEF Restores
  <2>3. rs.clean
    BY <1>1 DEF Inv, Forward
  <2> QED
    BY <2>1, <2>2, <2>3, FileShapes
<1>3. /\ \A j \in 1 .. 2 : j >= k => db[Dbs[j]] = Gone /\ ~In(Dbs[j], rs.installed)
      /\ db[d] = Gone
      /\ \A j \in 1 .. 2 :
            /\ In(Dbs[j], rs.moved) <=> rs.was[Dbs[j]].here
            /\ j < k => db[Dbs[j]] = rs.from[Dbs[j]]
            /\ j < k => (In(Dbs[j], rs.installed) <=> rs.from[Dbs[j]].here)
  BY <1>1 DEF Inv, Forward
<1>4. /\ installed1 \in Orders
      /\ \A e \in DbNames : In(e, installed1) <=> In(e, rs.installed) \/ (e = d /\ has)
  BY <1>1, <1>2, <1>3, OrderAppend
<1>5. db' = [db EXCEPT ![d] = rs.from[d]]
  <2>1. ~has => rs.from[d] = Gone
    BY <1>2, FileShapes
  <2> QED
    BY <1>1, <1>3, <2>1 DEF Install
<1>6. rs' = [rs EXCEPT !.at = @ + 1, !.installed = installed1]
  BY DEF Install
<1>7. /\ rs' \in Restores /\ rs'.pc = rs.pc /\ rs'.at = rs.at + 1 /\ rs'.moved = rs.moved
      /\ rs'.installed = installed1 /\ rs'.clean = rs.clean /\ rs'.was = rs.was /\ rs'.from = rs.from
  <2>1. installed1 \in Orders /\ rs.at + 1 \in 1 .. 3
    BY <1>1, <1>4
  <2> HIDE DEF installed1, has, d, k
  <2> QED
    BY <1>1, <1>6, <2>1 DEF Restores
<1>8. /\ db' \in [DbNames -> Files] /\ db'[d] = rs.from[d]
      /\ \A e \in DbNames \ {d} : db'[e] = db[e]
  BY <1>1, <1>2, <1>5
<1> HIDE DEF installed1, has, d, k
<1>9. Shapes' /\ Alone'
  BY <1>1, <1>7, <1>8, RestoreFrame
<1>10. MovedIsLatest'
  BY <1>1, <1>7 DEF Inv, MovedIsLatest
<1>11. Forward' /\ Backward'
  <2>1. ASSUME NEW j \in 1 .. 2
        PROVE  /\ In(Dbs[j], rs.moved) <=> rs.was[Dbs[j]].here
               /\ j < k + 1 => db'[Dbs[j]] = rs.from[Dbs[j]]
               /\ j < k + 1 => (In(Dbs[j], installed1) <=> rs.from[Dbs[j]].here)
               /\ j >= k + 1 => db'[Dbs[j]] = Gone /\ ~In(Dbs[j], installed1)
    <3>1. Dbs[j] \in DbNames /\ (j # k => Dbs[j] # d)
      BY <1>1, Members DEF DbNames, d, k
    <3>2. (j = k => Dbs[j] = d) /\ k \in 1 .. 2
      BY <1>1 DEF d, k
    <3> QED
      BY <1>3, <1>4, <1>8, <3>1, <3>2 DEF has
  <2> QED
    BY <1>1, <1>2, <1>7, <2>1 DEF Forward, Backward, k
<1>12. RowsKept' /\ InstalledIsSpare'
  <2>1. written \subseteq db["far"].rows \cup RowsOf(aside["far"]) /\ "far" \in DbNames
    BY DEF Inv, RowsKept, RowsOf, DbNames
  <2>2. d = "far" => written \subseteq RowsOf(aside["far"])
    BY <1>3, <2>1, FileShapes
  <2>3. written \subseteq db'["far"].rows \cup RowsOf(aside'["far"])
    BY <1>1, <1>8, <2>1, <2>2
  <2>4. In("far", installed1) => written \subseteq RowsOf(aside["far"])
    BY <1>1, <1>4, <2>1, <2>2 DEF Inv, InstalledIsSpare
  <2> QED
    BY <1>1, <1>7, <2>3, <2>4 DEF RowsKept, RowsOf, InstalledIsSpare
<1> QED
  BY <1>9, <1>10, <1>11, <1>12 DEF Inv

\* A restore that is over, however it ended, leaves the files as they are.
LEMMA OverKeeps ==
    ASSUME Inv, rs.pc # "idle", rs' = NoRestore,
           UNCHANGED <<db, aside, sets, blobs, temps, app, wal, put, gc, bk, written>>,
           used' \in [backups : Nat, restores : Nat, faults : Nat]
    PROVE  Inv'
<1>1. rs' \in Restores /\ rs'.pc = "idle"
  BY OrderEmpty, FileShapes DEF NoRestore, Restores
<1>2. Shapes' /\ Alone'
  BY <1>1, RestoreFrame DEF Inv, Shapes
<1>3. RowsKept'
  BY DEF Inv, RowsKept
<1> QED
  BY <1>1, <1>2, <1>3, NoRestoreUnderWay DEF Inv

\* The restore ends, is rolled back or is killed.
LEMMA EndKeeps ==
    ASSUME Inv, RestoreEnds \/ RolledBack \/ RestoreKilled
    PROVE  Inv'
<1>1. used' \in [backups : Nat, restores : Nat, faults : Nat]
  BY FaultCounted DEF Inv, Shapes, RestoreEnds, RolledBack, RestoreKilled
<1>2. /\ rs.pc # "idle" /\ rs' = NoRestore
      /\ UNCHANGED <<db, aside, sets, blobs, temps, app, wal, put, gc, bk, written>>
  BY DEF RestoreEnds, RolledBack, RestoreKilled
<1> QED
  BY <1>1, <1>2, OverKeeps

\* A rename fails, and the rollback begins with what has been done.
LEMMA RestoreFailsKeeps ==
    ASSUME Inv, RestoreFails
    PROVE  Inv'
<1>1. /\ rs \in Restores /\ rs.pc \in {"moving", "installing"} /\ rs.clean
      /\ rs' = [rs EXCEPT !.pc = "unlinking"]
      /\ UNCHANGED <<db, aside, sets, blobs, temps, app, wal, put, gc, bk, written>>
      /\ used' \in [backups : Nat, restores : Nat, faults : Nat]
  BY FaultCounted DEF RestoreFails, Inv, Shapes, Forward
<1>2. /\ rs' \in Restores /\ rs'.pc = "unlinking" /\ rs'.at = rs.at /\ rs'.moved = rs.moved
      /\ rs'.installed = rs.installed /\ rs'.clean = rs.clean /\ rs'.was = rs.was /\ rs'.from = rs.from
  BY <1>1 DEF Restores
<1>3. Shapes' /\ Alone'
  BY <1>1, <1>2, RestoreFrame DEF Inv, Shapes
<1>4. MovedIsLatest' /\ RowsKept' /\ InstalledIsSpare' /\ Forward'
  BY <1>1, <1>2 DEF Inv, MovedIsLatest, RowsKept, InstalledIsSpare, Forward
<1>5. Backward'
  <2>1. ASSUME NEW d \in DbNames
        PROVE  /\ In(d, rs.installed) /\ ~In(d, rs.moved) => rs.was[d] = Gone
               /\ ~In(d, rs.installed) => db[d] = IF In(d, rs.moved) THEN Gone ELSE rs.was[d]
    <3>1. PICK k \in 1 .. 2 : Dbs[k] = d
      BY Members DEF DbNames
    <3>2. rs.was[d] \in Files /\ rs.from[d] \in Files /\ db[d] \in Files /\ rs.at \in 1 .. 3
      BY <1>1 DEF Inv, Shapes, Restores
    <3>3. rs.was[d] = Gone <=> ~rs.was[d].here
      BY <3>2, FileShapes
    <3>4. rs.from[d] = Gone <=> ~rs.from[d].here
      BY <3>2, FileShapes
    <3>5. CASE rs.pc = "moving"
      BY <3>1, <3>2, <3>3, <3>5, OrderEmpty DEF Inv, Forward
    <3>6. CASE rs.pc = "installing"
      BY <3>1, <3>2, <3>3, <3>4, <3>6 DEF Inv, Forward
    <3> QED
      BY <1>1, <3>5, <3>6
  <2> QED
    BY <1>1, <1>2, <2>1 DEF Backward
<1> QED
  BY <1>3, <1>4, <1>5 DEF Inv

\* What was installed last is unlinked.
LEMMA UnlinkKeeps ==
    ASSUME Inv, Unlink
    PROVE  Inv'
<1> DEFINE d == LastOf(rs.installed)
<1>1. /\ rs \in Restores /\ rs.pc = "unlinking" /\ rs.installed # <<>>
      /\ rs' = [rs EXCEPT !.installed = ButLast(@)]
      /\ db' = [db EXCEPT ![d] = Gone]
      /\ db \in [DbNames -> Files]
      /\ UNCHANGED <<aside, sets, blobs, temps, app, wal, put, gc, bk, written, used>>
  BY DEF Unlink, Inv, Shapes
<1>2. /\ d \in DbNames /\ ButLast(rs.installed) \in Orders /\ In(d, rs.installed)
      /\ \A e \in DbNames : In(e, ButLast(rs.installed)) <=> In(e, rs.installed) /\ e # d
  BY <1>1, OrderButLast DEF Restores
<1>3. /\ rs' \in Restores /\ rs'.pc = rs.pc /\ rs'.at = rs.at /\ rs'.moved = rs.moved
      /\ rs'.installed = ButLast(rs.installed) /\ rs'.clean = rs.clean
      /\ rs'.was = rs.was /\ rs'.from = rs.from
  BY <1>1, <1>2 DEF Restores
<1>4. /\ db' \in [DbNames -> Files] /\ db'[d] = Gone
      /\ \A e \in DbNames \ {d} : db'[e] = db[e]
  BY <1>1, <1>2, FileShapes
<1> HIDE DEF d
<1>5. Shapes' /\ Alone'
  BY <1>1, <1>3, <1>4, RestoreFrame DEF Inv, Shapes
<1>6. MovedIsLatest' /\ Forward'
  BY <1>1, <1>3 DEF Inv, MovedIsLatest, Forward
<1>7. Backward'
  BY <1>1, <1>2, <1>3, <1>4 DEF Inv, Backward
<1>8. RowsKept' /\ InstalledIsSpare'
  <2>1. written \subseteq db["far"].rows \cup RowsOf(aside["far"]) /\ "far" \in DbNames
    BY DEF Inv, RowsKept, RowsOf, DbNames
  <2>2. In("far", rs.installed) => written \subseteq RowsOf(aside["far"])
    BY <1>1 DEF Inv, InstalledIsSpare
  <2>3. written \subseteq db'["far"].rows \cup RowsOf(aside["far"])
    BY <1>2, <1>4, <2>1, <2>2
  <2> QED
    BY <1>1, <1>2, <1>3, <2>1, <2>2, <2>3 DEF RowsKept, RowsOf, InstalledIsSpare
<1> QED
  BY <1>5, <1>6, <1>7, <1>8 DEF Inv

\* An installed file stays, and the rollback is no longer clean.
LEMMA UnlinkFailsKeeps ==
    ASSUME Inv, UnlinkFails
    PROVE  Inv'
<1>1. /\ rs \in Restores /\ rs.pc = "unlinking" /\ rs.installed # <<>>
      /\ rs' = [rs EXCEPT !.installed = ButLast(@), !.clean = FALSE]
      /\ UNCHANGED <<db, aside, sets, blobs, temps, app, wal, put, gc, bk, written>>
      /\ used' \in [backups : Nat, restores : Nat, faults : Nat]
  BY FaultCounted DEF UnlinkFails, Inv, Shapes
<1>2. /\ ButLast(rs.installed) \in Orders /\ "far" \in DbNames
      /\ \A e \in DbNames : In(e, ButLast(rs.installed)) => In(e, rs.installed)
  BY <1>1, OrderButLast DEF Restores, DbNames
<1>3. /\ rs' \in Restores /\ rs'.pc = rs.pc /\ rs'.at = rs.at /\ rs'.moved = rs.moved
      /\ rs'.installed = ButLast(rs.installed) /\ rs'.clean = FALSE
      /\ rs'.was = rs.was /\ rs'.from = rs.from
  BY <1>1, <1>2 DEF Restores
<1>4. Shapes' /\ Alone'
  BY <1>1, <1>3, RestoreFrame DEF Inv, Shapes
<1>5. MovedIsLatest' /\ Forward' /\ RowsKept'
  BY <1>1, <1>3 DEF Inv, MovedIsLatest, Forward, RowsKept
<1>6. Backward' /\ InstalledIsSpare'
  BY <1>1, <1>2, <1>3 DEF Inv, Backward, InstalledIsSpare
<1> QED
  BY <1>4, <1>5, <1>6 DEF Inv

\* Nothing installed is left to unlink.
LEMMA UnlinkedKeeps ==
    ASSUME Inv, Unlinked
    PROVE  Inv'
<1>1. /\ rs \in Restores /\ rs.pc = "unlinking" /\ rs.installed = <<>>
      /\ rs' = [rs EXCEPT !.pc = "movingBack"]
      /\ UNCHANGED <<db, aside, sets, blobs, temps, app, wal, put, gc, bk, written, used>>
  BY DEF Unlinked, Inv, Shapes
<1>2. /\ rs' \in Restores /\ rs'.pc = "movingBack" /\ rs'.at = rs.at /\ rs'.moved = rs.moved
      /\ rs'.installed = rs.installed /\ rs'.clean = rs.clean /\ rs'.was = rs.was /\ rs'.from = rs.from
  BY <1>1 DEF Restores
<1>3. Shapes' /\ Alone'
  BY <1>1, <1>2, RestoreFrame DEF Inv, Shapes
<1>4. MovedIsLatest' /\ Forward' /\ RowsKept' /\ InstalledIsSpare'
  BY <1>1, <1>2 DEF Inv, MovedIsLatest, Forward, RowsKept, InstalledIsSpare
<1>5. Backward'
  BY <1>1, <1>2 DEF Inv, Backward
<1> QED
  BY <1>3, <1>4, <1>5 DEF Inv

\* The file moved aside last is moved back to where nothing is.
LEMMA MoveBackKeeps ==
    ASSUME Inv, MoveBack
    PROVE  Inv'
<1> DEFINE d == LastOf(rs.moved)
<1>1. /\ rs \in Restores /\ rs.pc = "movingBack" /\ rs.moved # <<>> /\ ~db[d].here
      /\ rs' = [rs EXCEPT !.moved = ButLast(@)]
      /\ db' = [db EXCEPT ![d] = LastOf(aside[d])]
      /\ aside' = [aside EXCEPT ![d] = ButLast(@)]
      /\ db \in [DbNames -> Files] /\ aside \in [DbNames -> Seq(Files \ {Gone})]
      /\ UNCHANGED <<sets, blobs, temps, app, wal, put, gc, bk, written, used>>
  BY DEF MoveBack, Inv, Shapes
<1>2. /\ d \in DbNames /\ ButLast(rs.moved) \in Orders /\ In(d, rs.moved)
      /\ \A e \in DbNames : In(e, ButLast(rs.moved)) <=> In(e, rs.moved) /\ e # d
  BY <1>1, OrderButLast DEF Restores
<1>3. /\ rs' \in Restores /\ rs'.pc = rs.pc /\ rs'.at = rs.at /\ rs'.moved = ButLast(rs.moved)
      /\ rs'.installed = rs.installed /\ rs'.clean = rs.clean
      /\ rs'.was = rs.was /\ rs'.from = rs.from
  BY <1>1, <1>2 DEF Restores
<1>4. aside[d] # <<>> /\ LastOf(aside[d]) = rs.was[d]
  BY <1>1, <1>2 DEF Inv, MovedIsLatest
<1>5. /\ ButLast(aside[d]) \in Seq(Files \ {Gone}) /\ LastOf(aside[d]) \in Files
      /\ RowsOf(aside[d]) = RowsOf(ButLast(aside[d])) \cup LastOf(aside[d]).rows
  BY <1>1, <1>2, <1>4, FilesButLast
<1>6. /\ db' \in [DbNames -> Files] /\ db'[d] = LastOf(aside[d])
      /\ aside' \in [DbNames -> Seq(Files \ {Gone})] /\ aside'[d] = ButLast(aside[d])
      /\ \A e \in DbNames \ {d} : db'[e] = db[e] /\ aside'[e] = aside[e]
  BY <1>1, <1>2, <1>5
<1>7. rs.installed = <<>> /\ db[d].rows = {}
  BY <1>1, <1>2, FileShapes DEF Inv, Backward
<1> HIDE DEF d
<1>8. Shapes' /\ Alone'
  BY <1>1, <1>3, <1>6, RestoreFrame DEF Inv, Shapes
<1>9. MovedIsLatest' /\ Forward'
  BY <1>1, <1>2, <1>3, <1>6 DEF Inv, MovedIsLatest, Forward
<1>10. Backward'
  BY <1>1, <1>2, <1>3, <1>4, <1>6, <1>7, OrderEmpty DEF Inv, Backward
<1>11. RowsKept' /\ InstalledIsSpare'
  <2>1. written \subseteq db["far"].rows \cup RowsOf(aside["far"]) /\ "far" \in DbNames
    BY DEF Inv, RowsKept, RowsOf, DbNames
  <2>2. written \subseteq db'["far"].rows \cup RowsOf(aside'["far"])
    BY <1>5, <1>6, <1>7, <2>1
  <2> QED
    BY <1>1, <1>3, <1>7, <2>2, OrderEmpty DEF RowsKept, RowsOf, InstalledIsSpare
<1> QED
  BY <1>8, <1>9, <1>10, <1>11 DEF Inv

\* A file stays aside, and the rollback is no longer clean.
LEMMA MoveBackFailsKeeps ==
    ASSUME Inv, MoveBackFails
    PROVE  Inv'
<1>1. /\ rs \in Restores /\ rs.pc = "movingBack" /\ rs.moved # <<>>
      /\ rs' = [rs EXCEPT !.moved = ButLast(@), !.clean = FALSE]
      /\ UNCHANGED <<db, aside, sets, blobs, temps, app, wal, put, gc, bk, written>>
      /\ used' \in [backups : Nat, restores : Nat, faults : Nat]
  BY FaultCounted DEF MoveBackFails, Inv, Shapes
<1>2. /\ ButLast(rs.moved) \in Orders
      /\ \A e \in DbNames : In(e, ButLast(rs.moved)) => In(e, rs.moved)
  BY <1>1, OrderButLast DEF Restores
<1>3. /\ rs' \in Restores /\ rs'.pc = rs.pc /\ rs'.at = rs.at /\ rs'.moved = ButLast(rs.moved)
      /\ rs'.installed = rs.installed /\ rs'.clean = FALSE
      /\ rs'.was = rs.was /\ rs'.from = rs.from
  BY <1>1, <1>2 DEF Restores
<1>4. Shapes' /\ Alone'
  BY <1>1, <1>3, RestoreFrame DEF Inv, Shapes
<1>5. MovedIsLatest' /\ Forward' /\ RowsKept' /\ InstalledIsSpare'
  BY <1>1, <1>2, <1>3 DEF Inv, MovedIsLatest, Forward, RowsKept, InstalledIsSpare
<1>6. Backward'
  BY <1>1, <1>3, OrderEmpty DEF Inv, Backward
<1> QED
  BY <1>4, <1>5, <1>6 DEF Inv

-----------------------------------------------------------------------------
(* The theorems *)

\* The invariant holds initially.
LEMMA InitInv == Init => Inv
<1> SUFFICES ASSUME Init PROVE Inv
  OBVIOUS
<1>1. rs \in Restores /\ rs.pc = "idle"
  BY OrderEmpty, FileShapes DEF Init, NoRestore, Restores
<1>2. Shapes
  <2>1. aside \in [DbNames -> Seq(Files \ {Gone})]
    BY DEF Init
  <2>2. used \in [backups : Nat, restores : Nat, faults : Nat]
    BY DEF Init
  <2>3. bk \in [at : 0 .. 3, copies : [DbNames -> Files]]
    BY FileShapes DEF Init, NoBackup
  <2> QED
    BY <1>1, <2>1, <2>2, <2>3, FileShapes DEF Init, Shapes, NoPut, NoGc
<1>3. Alone
  BY <1>1 DEF Init, Alone
<1>4. MovedIsLatest /\ Forward /\ Backward /\ InstalledIsSpare
  BY <1>1 DEF MovedIsLatest, Forward, Backward, InstalledIsSpare
<1> QED
  BY <1>2, <1>3, <1>4 DEF Inv, Init, RowsKept

\* Every step keeps it.
LEMMA NextInv == Inv /\ [Next]_vars => Inv'
<1> SUFFICES ASSUME Inv, [Next]_vars PROVE Inv'
  OBVIOUS
<1>1. CASE Application \/ Gc \/ Backup
  BY <1>1, ElsewhereKeeps
<1>2. CASE Restore
  BY <1>2, RestoreStartKeeps, MoveAsideKeeps, MovedKeeps, InstallKeeps, RestoreFailsKeeps, UnlinkKeeps,
     UnlinkFailsKeeps, UnlinkedKeeps, MoveBackKeeps, MoveBackFailsKeeps, EndKeeps DEF Restore
<1>3. CASE UNCHANGED vars
  BY <1>3 DEF vars, Inv, Shapes, Alone, MovedIsLatest, Forward, Backward, RowsKept, InstalledIsSpare
<1> QED
  BY <1>1, <1>2, <1>3 DEF Next

\* The inductive invariant.
LEMMA Invariant == Spec => []Inv
  BY InitInv, NextInv, PTL DEF Spec

\* The workspace's state is well formed, every file aside is one, and no set
\* has a manifest without far.db.
THEOREM TypeCorrect == Spec => []TypeOK
<1>1. Inv => TypeOK
  <2> SUFFICES ASSUME Inv PROVE TypeOK
    OBVIOUS
  <2>1. \A d \in DbNames : \A i \in 1 .. Len(aside[d]) : aside[d][i] \in Files \ {Gone}
    BY DEF Inv, Shapes
  <2>2. /\ rs.pc \in {"idle", "moving", "installing", "unlinking", "movingBack"}
        /\ rs.at \in 1 .. Len(Dbs) + 1
    BY Members DEF Inv, Shapes, Restores
  <2>3. bk.at \in 0 .. Len(Dbs) + 1 /\ bk.copies \in [DbNames -> Files]
    BY Members DEF Inv, Shapes
  <2> QED
    BY <2>1, <2>2, <2>3 DEF Inv, Shapes, TypeOK
<1> QED
  BY <1>1, Invariant, PTL

\* No restore, rollback, kill or I/O failure, in any order and number, loses a
\* committed row that nobody deleted: it is in far.db or in a file aside.
THEOREM NoRowLost == Spec => []RowsKept
<1>1. Inv => RowsKept
  BY DEF Inv
<1> QED
  BY <1>1, Invariant, PTL

\* A restore that succeeds leaves exactly the set's databases, and one that is
\* completely rolled back exactly the databases it found.
THEOREM RestoreAtomic == Spec => RestoreIsAtomic
<1>1. ASSUME Inv, RestoreEnds PROVE db' = rs.from
  <2>1. rs \in Restores /\ rs.at > 2 /\ rs.pc = "installing" /\ db' = db /\ db \in [DbNames -> Files]
    BY <1>1, Members DEF Inv, Shapes, RestoreEnds
  <2>2. \A k \in 1 .. 2 : db[Dbs[k]] = rs.from[Dbs[k]]
    BY <1>1, <2>1 DEF Inv, Forward, Restores
  <2>3. db["far"] = rs.from["far"] /\ db["sched"] = rs.from["sched"] /\ rs.from \in [DbNames -> Files]
    BY <2>1, <2>2, Members DEF Restores
  <2> QED
    BY <2>1, <2>3 DEF DbNames
<1>2. ASSUME Inv, RolledBack, rs.clean PROVE db' = rs.was
  <2>1. rs \in Restores /\ rs.moved = <<>> /\ rs.pc = "movingBack" /\ db' = db /\ db \in [DbNames -> Files]
    BY <1>2 DEF Inv, Shapes, RolledBack
  <2>2. \A d \in DbNames : db[d] = rs.was[d]
    BY <1>2, <2>1, OrderEmpty DEF Inv, Backward
  <2>3. rs.was \in [DbNames -> Files]
    BY <2>1 DEF Restores
  <2> QED
    BY <2>1, <2>2, <2>3
<1>3. Inv /\ [Next]_vars => [RestoreLeavesNoMix]_vars
  BY <1>1, <1>2 DEF RestoreLeavesNoMix
<1> QED
  BY <1>3, Invariant, PTL DEF Spec, RestoreIsAtomic

=============================================================================
