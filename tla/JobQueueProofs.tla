--------------------------- MODULE JobQueueProofs ---------------------------
(***************************************************************************)
(* Proofs about the job queue, for every set of jobs, workers and devices, *)
(* every attempt cap and every concurrency limit.                          *)
(*                                                                         *)
(* The argument: TypeOK is inductive by itself.  FenceUnique is inductive  *)
(* relative to TypeOK, because a claim takes a token one above the row's,  *)
(* which no process can hold.  The two action properties follow from it.   *)
(***************************************************************************)
EXTENDS JobQueue, TLAPS, FiniteSetTheorems

\* The number of rows is a natural number, so the id of a new row is one.
LEMMA RowCount == Cardinality(Rows) \in Nat
<1>1. IsFiniteSet(Rows)
  BY FS_Subset, ConstantsAssumption DEF Rows
<1> QED
  BY <1>1, FS_CardinalityType

\* The statuses the statements of the scheduler write.
LEMMA StatusValues ==
    /\ "queued" \in Statuses /\ "running" \in Statuses
    /\ "canceled" \in Statuses /\ "dead" \in Statuses
    /\ \A ok \in BOOLEAN : Outcome(ok) \in Statuses
    /\ "absent" \notin Statuses
  BY DEF Statuses, Terminal, Outcome

\* A process that holds a claim holds one for a job of the table.
LEMMA HeldJob ==
    ASSUME TypeOK, NEW w \in Workers, Busy(w)
    PROVE  held[w] \in Claim /\ held[w].job \in Jobs /\ held[w].token \in Nat
  BY DEF TypeOK, Busy, Claim

\* The row of a fresh INSERT has the type of a row.
LEMMA InsertedRow ==
    ASSUME NEW p \in Priorities, NEW d \in Devices, NEW n \in Nat
    PROVE  [NoRow EXCEPT !.status = "queued", !.prio = p, !.device = d, !.id = n + 1] \in Row
<1>1. /\ "queued" \in Statuses
      /\ p \in Int /\ 0 \in 0..MaxAttempts /\ n + 1 \in Nat
  BY ConstantsAssumption, StatusValues
<1> QED
  BY <1>1 DEF NoRow, Row

\* A step of the queue keeps every row, claim and counter in its type.
LEMMA TypeStep == TypeOK /\ [Next]_vars => TypeOK'
<1> SUFFICES ASSUME TypeOK, [Next]_vars PROVE TypeOK'
  OBVIOUS
<1> USE ConstantsAssumption
<1> DEFINE Blank == \A i \in Jobs : job'[i].status = "absent" => job'[i] = NoRow
<1>1. ASSUME NEW j \in Jobs, NEW p \in Priorities, NEW d \in Devices, Enqueue(j, p, d)
      PROVE  TypeOK'
  <2> DEFINE r == [NoRow EXCEPT !.status = "queued", !.prio = p, !.device = d,
                                !.id = Cardinality(Rows) + 1]
  <2>1. r \in Row
    BY RowCount, InsertedRow
  <2>2. r.status = "queued"
    BY DEF NoRow
  <2>3. job' = [job EXCEPT ![j] = r]
    BY <1>1 DEF Enqueue
  <2> HIDE DEF r
  <2>4. job' \in [Jobs -> Row] /\ Blank
    BY <2>1, <2>2, <2>3 DEF TypeOK
  <2> QED
    BY <1>1, <2>4 DEF Enqueue, TypeOK
<1>2. ASSUME NEW w \in Workers, NEW j \in Jobs, ClaimNext(w, j)
      PROVE  TypeOK'
  <2>1. job' \in [Jobs -> Row] /\ Blank
    BY <1>2, StatusValues DEF ClaimNext, TypeOK, Row
  <2>2. job[j].token + 1 \in Nat
    BY DEF TypeOK, Row
  <2>3. [job |-> j, token |-> job[j].token + 1] \in Claim
    BY <2>2 DEF Claim
  <2>4. held' \in [Workers -> Claim \cup {NoClaim}]
    BY <1>2, <2>3 DEF ClaimNext, TypeOK
  <2>5. requeues' = requeues
    BY <1>2 DEF ClaimNext
  <2> QED
    BY <2>1, <2>4, <2>5 DEF TypeOK
<1>3. ASSUME NEW w \in Workers, NEW j \in Jobs, DeadLetter(w, j)
      PROVE  TypeOK'
  BY <1>3, StatusValues DEF DeadLetter, TypeOK, Row
<1>4. ASSUME NEW w \in Workers, Heartbeat(w)
      PROVE  TypeOK'
  <2>1. job' \in [Jobs -> Row] /\ Blank
    BY <1>4, HeldJob DEF Heartbeat, Owns, TypeOK, Row
  <2> QED
    BY <1>4, <2>1 DEF Heartbeat, TypeOK
<1>5. ASSUME NEW w \in Workers, NEW ok \in BOOLEAN, Complete(w, ok)
      PROVE  TypeOK'
  <2>1. CASE Owns(w)
    <3>1. PICK i \in Jobs : i = held[w].job
      BY <2>1, HeldJob DEF Owns
    <3>2. Outcome(ok) \in Statuses
      BY StatusValues
    <3>3. job' = [job EXCEPT ![i].status = Outcome(ok)]
      BY <1>5, <2>1, <3>1 DEF Complete
    <3>4. job' \in [Jobs -> Row]
      BY <3>2, <3>3 DEF TypeOK, Row
    <3>5. Blank
      BY <3>2, <3>3, StatusValues DEF TypeOK, Row
    <3> QED
      BY <1>5, <3>4, <3>5 DEF Complete, TypeOK
  <2>2. CASE ~Owns(w)
    BY <1>5, <2>2 DEF Complete, TypeOK
  <2> QED
    BY <2>1, <2>2
<1>6. ASSUME NEW j \in Jobs, Cancel(j)
      PROVE  TypeOK'
  <2>0. UNCHANGED <<held, requeues>>
    BY <1>6 DEF Cancel
  <2>1. CASE job[j].status = "queued" /\ job' = [job EXCEPT ![j].status = "canceled"]
    <3>1. job' \in [Jobs -> Row]
      BY <2>1, StatusValues, SMTT(20) DEF TypeOK, Row
    <3>2. Blank
      BY <2>1, StatusValues DEF TypeOK, Row
    <3> QED
      BY <2>0, <3>1, <3>2 DEF TypeOK
  <2>2. CASE job[j].status = "running" /\ job' = [job EXCEPT ![j].cancel = 1]
    <3>1. job' \in [Jobs -> Row] /\ Blank
      BY <2>2 DEF TypeOK, Row
    <3> QED
      BY <2>0, <3>1 DEF TypeOK
  <2> QED
    BY <1>6, <2>1, <2>2 DEF Cancel
<1>7. ASSUME NEW j \in Jobs, RequeueDead(j)
      PROVE  TypeOK'
  <2>1. job' \in [Jobs -> Row] /\ Blank
    BY <1>7, StatusValues DEF RequeueDead, TypeOK, Row
  <2> QED
    BY <1>7, <2>1 DEF RequeueDead, TypeOK
<1>8. ASSUME NEW j \in Jobs, Expire(j)
      PROVE  TypeOK'
  BY <1>8 DEF Expire, TypeOK, Row
<1>9. ASSUME NEW w \in Workers, Crash(w)
      PROVE  TypeOK'
  BY <1>9 DEF Crash, TypeOK
<1>10. CASE UNCHANGED vars
  BY <1>10 DEF vars, TypeOK
<1> QED
  BY <1>1, <1>2, <1>3, <1>4, <1>5, <1>6, <1>7, <1>8, <1>9, <1>10 DEF Next

\* Type correctness of the jobs table, of the claims processes hold and of
\* the requeue counter (scheduler.ts, SCHEMA and Claim).
THEOREM TypeCorrect == Spec => []TypeOK
<1>1. Init => TypeOK
  BY ConstantsAssumption DEF Init, TypeOK, NoRow, Row, NoClaim, Statuses
<1> QED
  BY <1>1, TypeStep, PTL DEF Spec

\* A step never gives two processes the same token for one job: a claim takes
\* a token above the row's, and the row's is the largest anyone holds.
LEMMA FenceStep == TypeOK /\ FenceUnique /\ [Next]_vars => FenceUnique'
<1> SUFFICES ASSUME TypeOK, FenceUnique, [Next]_vars,
                    NEW v \in Workers, NEW w \in Workers,
                    (Busy(v) /\ Busy(w) /\ held[v].job = held[w].job)'
             PROVE  (/\ held[v].token <= job[held[v].job].token
                     /\ v # w => held[v].token # held[w].token)'
  BY DEF FenceUnique
<1> USE ConstantsAssumption
<1> DEFINE Kept == \A u \in Workers : held'[u] = held[u] \/ held'[u] = NoClaim
           Grows == \A j \in Jobs : job'[j].token \in Nat /\ job'[j].token >= job[j].token
\* Every step but a claim only drops claims and never lowers a token.
<1>1. ASSUME Kept, Grows
      PROVE  (/\ held[v].token <= job[held[v].job].token
              /\ v # w => held[v].token # held[w].token)'
  <2>1. held'[v] = held[v] /\ held'[w] = held[w] /\ Busy(v) /\ Busy(w)
    BY <1>1 DEF Busy
  <2>2. /\ held[v].job \in Jobs /\ held[v].token \in Nat
        /\ job[held[v].job].token \in Nat
    BY <2>1, HeldJob DEF TypeOK, Row
  <2> QED
    BY <1>1, <2>1, <2>2 DEF FenceUnique
<1>2. ASSUME NEW j \in Jobs, NEW p \in Priorities, NEW d \in Devices, Enqueue(j, p, d)
      PROVE  Kept /\ Grows
  BY <1>2, TypeStep DEF Enqueue, TypeOK, Row, NoRow
<1>3. ASSUME NEW u \in Workers, NEW j \in Jobs, ClaimNext(u, j)
      PROVE  (/\ held[v].token <= job[held[v].job].token
              /\ v # w => held[v].token # held[w].token)'
  <2>1. /\ held'[u] = [job |-> j, token |-> job[j].token + 1]
        /\ \A x \in Workers \ {u} : held'[x] = held[x]
        /\ job'[j].token = job[j].token + 1 /\ job[j].token \in Nat
        /\ \A i \in Jobs \ {j} : job'[i] = job[i]
    BY <1>3 DEF ClaimNext, TypeOK, Row
  <2>2. \A x \in Workers \ {u} : Busy(x)' =>
            /\ held'[x].job \in Jobs /\ held'[x].token \in Nat
            /\ held'[x].token <= job[held'[x].job].token
            /\ held'[x].job = j => held'[x].token < job'[j].token
    BY <2>1, HeldJob DEF FenceUnique, TypeOK, Row, Busy
  <2>3. CASE v = u
    BY <2>1, <2>2, <2>3
  <2>4. CASE v # u /\ w = u
    BY <2>1, <2>2, <2>4
  <2>5. CASE v # u /\ w # u
    <3>1. held[v].token <= job'[held[v].job].token
      BY <2>1, <2>2, <2>5 DEF TypeOK, Row
    <3> QED
      BY <2>1, <2>5, <3>1 DEF FenceUnique, Busy
  <2> QED
    BY <2>3, <2>4, <2>5
<1>4. ASSUME NEW u \in Workers, NEW j \in Jobs, DeadLetter(u, j)
      PROVE  Kept /\ Grows
  BY <1>4 DEF DeadLetter, TypeOK, Row
<1>5. ASSUME NEW u \in Workers, Heartbeat(u)
      PROVE  Kept /\ Grows
  BY <1>5, HeldJob DEF Heartbeat, Owns, TypeOK, Row
<1>6. ASSUME NEW u \in Workers, NEW ok \in BOOLEAN, Complete(u, ok)
      PROVE  Kept /\ Grows
  BY <1>6, HeldJob DEF Complete, TypeOK, Row
<1>7. ASSUME NEW j \in Jobs, Cancel(j)
      PROVE  Kept /\ Grows
  <2>1. held' = held
    BY <1>7 DEF Cancel
  <2>2. \A i \in Jobs : job'[i].token = job[i].token
    BY <1>7 DEF Cancel, TypeOK, Row
  <2> QED
    BY <2>1, <2>2 DEF TypeOK, Row
<1>8. ASSUME NEW j \in Jobs, RequeueDead(j)
      PROVE  Kept /\ Grows
  BY <1>8 DEF RequeueDead, TypeOK, Row
<1>9. ASSUME NEW j \in Jobs, Expire(j)
      PROVE  Kept /\ Grows
  BY <1>9 DEF Expire, TypeOK, Row
<1>10. ASSUME NEW u \in Workers, Crash(u)
       PROVE  Kept /\ Grows
  BY <1>10 DEF Crash, TypeOK, Row
<1>11. CASE UNCHANGED vars
  <2>1. Kept /\ Grows
    BY <1>11 DEF vars, TypeOK, Row
  <2> QED
    BY <1>1, <2>1
<1> QED
  BY <1>1, <1>2, <1>3, <1>4, <1>5, <1>6, <1>7, <1>8, <1>9, <1>10, <1>11 DEF Next

\* fence_token alone tells the process that was handed a job last from every
\* process that lost it (scheduler.ts claimNext).
THEOREM FenceCorrect == Spec => []FenceUnique
<1>1. Init => FenceUnique
  BY DEF Init, FenceUnique, Busy
<1> QED
  BY <1>1, TypeCorrect, FenceStep, PTL DEF Spec

\* The attempt accounting is inductive: only a claim raises attempts, and it
\* raises the token with it.
LEMMA BudgetStep == TypeOK /\ DeadOnlyExhausted /\ [Next]_vars => DeadOnlyExhausted'
<1> DEFINE Good(r) == /\ r.status = "dead" => r.attempts = MaxAttempts
                      /\ r.status = "queued" => r.attempts = 0
                      /\ r.token >= r.attempts
<1> SUFFICES ASSUME TypeOK, DeadOnlyExhausted, [Next]_vars, NEW i \in Jobs
             PROVE  Good(job'[i])
  BY DEF DeadOnlyExhausted
<1> USE ConstantsAssumption
<1>0. /\ Good(job[i]) /\ job[i].token \in Nat /\ job[i].attempts \in 0..MaxAttempts
      /\ job \in [Jobs -> Row] /\ \A w \in Workers : Busy(w) => held[w].job \in Jobs
  BY HeldJob DEF DeadOnlyExhausted, TypeOK, Row
<1>1. ASSUME NEW j \in Jobs, NEW p \in Priorities, NEW d \in Devices, Enqueue(j, p, d)
      PROVE  Good(job'[i])
  BY <1>0, <1>1 DEF Enqueue, NoRow
<1>2. ASSUME NEW w \in Workers, NEW j \in Jobs, ClaimNext(w, j)
      PROVE  Good(job'[i])
  BY <1>0, <1>2 DEF ClaimNext, Row
<1>3. ASSUME NEW w \in Workers, NEW j \in Jobs, DeadLetter(w, j)
      PROVE  Good(job'[i])
  <2>1. /\ job'[i].token = job[i].token /\ job'[i].attempts = job[i].attempts
        /\ job'[i].status = job[i].status \/ job[i].attempts >= MaxAttempts
    BY <1>0, <1>3 DEF DeadLetter, Row
  <2>2. job'[i].status = job[i].status \/ job'[i].status = "dead"
    BY <1>0, <1>3 DEF DeadLetter, Row
  <2> QED
    BY <1>0, <2>1, <2>2
<1>4. ASSUME NEW w \in Workers, Heartbeat(w)
      PROVE  Good(job'[i])
  BY <1>0, <1>4 DEF Heartbeat, Owns, Row
<1>5. ASSUME NEW w \in Workers, NEW ok \in BOOLEAN, Complete(w, ok)
      PROVE  Good(job'[i])
  <2>1. Outcome(ok) # "dead" /\ Outcome(ok) # "queued"
    BY DEF Outcome
  <2>2. /\ job'[i].token = job[i].token /\ job'[i].attempts = job[i].attempts
        /\ job'[i].status = job[i].status \/ job'[i].status = Outcome(ok)
    BY <1>0, <1>5 DEF Complete, Row
  <2> QED
    BY <1>0, <2>1, <2>2
<1>6. ASSUME NEW j \in Jobs, Cancel(j)
      PROVE  Good(job'[i])
  <2>1. /\ job'[i].token = job[i].token /\ job'[i].attempts = job[i].attempts
        /\ job'[i].status = job[i].status \/ job'[i].status = "canceled"
    BY <1>0, <1>6, SMTT(20) DEF Cancel, Row
  <2> QED
    BY <1>0, <2>1
<1>7. ASSUME NEW j \in Jobs, RequeueDead(j)
      PROVE  Good(job'[i])
  <2>1. CASE i = j
    <3>1. /\ job'[i].token = job[i].token + 1 /\ job'[i].attempts = 0
          /\ job'[i].status = "queued"
      BY <1>0, <1>7, <2>1 DEF RequeueDead, Row
    <3> QED
      BY <1>0, <3>1
  <2>2. CASE i # j
    BY <1>0, <1>7, <2>2 DEF RequeueDead
  <2> QED
    BY <2>1, <2>2
<1>8. ASSUME NEW j \in Jobs, Expire(j)
      PROVE  Good(job'[i])
  BY <1>0, <1>8 DEF Expire, Row
<1>9. ASSUME NEW w \in Workers, Crash(w)
      PROVE  Good(job'[i])
  BY <1>0, <1>9 DEF Crash
<1>10. CASE UNCHANGED vars
  BY <1>0, <1>10 DEF vars
<1> QED
  BY <1>1, <1>2, <1>3, <1>4, <1>5, <1>6, <1>7, <1>8, <1>9, <1>10 DEF Next

\* A job is dead only after its whole attempt budget was claimed and lost
\* (scheduler.ts claimNext, RU-7.2 bounded redelivery).
THEOREM BudgetCorrect == Spec => []DeadOnlyExhausted
<1>1. Init => DeadOnlyExhausted
  BY ConstantsAssumption DEF Init, DeadOnlyExhausted, NoRow
<1> QED
  BY <1>1, TypeCorrect, BudgetStep, PTL DEF Spec

\* A job ends completed or failed only by the process that was handed it last
\* (scheduler.ts complete): from the fence, every other process that still
\* believes it holds the job has a smaller token.
THEOREM OutcomeCorrect == Spec => OutcomeByLatestClaim
<1> DEFINE A == \A j \in Jobs :
         job[j].status = "running" /\ job'[j].status \in {"completed", "failed"} =>
            \E w \in Workers :
                /\ held[w].job = j /\ held'[w] = NoClaim
                /\ held[w].token = job[j].token
                /\ \A v \in Workers \ {w} : held[v].job = j => held[v].token < held[w].token
<1>1. TypeOK /\ FenceUnique /\ [Next]_vars => A
  <2> SUFFICES ASSUME TypeOK, FenceUnique, [Next]_vars, NEW j \in Jobs,
                      job[j].status = "running", job'[j].status \in {"completed", "failed"}
               PROVE  \E w \in Workers :
                        /\ held[w].job = j /\ held'[w] = NoClaim
                        /\ held[w].token = job[j].token
                        /\ \A v \in Workers \ {w} : held[v].job = j => held[v].token < held[w].token
    BY DEF A
  <2>1. \E w \in Workers, ok \in BOOLEAN : Complete(w, ok)
    <3>0. job \in [Jobs -> Row]
      BY DEF TypeOK
    <3>1. ASSUME NEW i \in Jobs, NEW p \in Priorities, NEW d \in Devices, Enqueue(i, p, d)
          PROVE  FALSE
      BY <3>0, <3>1 DEF Enqueue, NoRow
    <3>2. ASSUME NEW w \in Workers, NEW i \in Jobs, ClaimNext(w, i) PROVE FALSE
      BY <3>0, <3>2 DEF ClaimNext, Row
    <3>3. ASSUME NEW w \in Workers, NEW i \in Jobs, DeadLetter(w, i) PROVE FALSE
      BY <3>0, <3>3 DEF DeadLetter, Row
    <3>4. ASSUME NEW w \in Workers, Heartbeat(w) PROVE FALSE
      BY <3>0, <3>4, HeldJob DEF Heartbeat, Owns, Row
    <3>5. ASSUME NEW i \in Jobs, Cancel(i) PROVE FALSE
      BY <3>0, <3>5 DEF Cancel, Row
    <3>6. ASSUME NEW i \in Jobs, RequeueDead(i) PROVE FALSE
      BY <3>0, <3>6 DEF RequeueDead, Row
    <3>7. ASSUME NEW i \in Jobs, Expire(i) PROVE FALSE
      BY <3>0, <3>7 DEF Expire, Row
    <3>8. ASSUME NEW w \in Workers, Crash(w) PROVE FALSE
      BY <3>8 DEF Crash
    <3>9. ASSUME UNCHANGED vars PROVE FALSE
      BY <3>9 DEF vars
    <3> QED
      BY <3>1, <3>2, <3>3, <3>4, <3>5, <3>6, <3>7, <3>8, <3>9 DEF Next
  <2>2. PICK w \in Workers, ok \in BOOLEAN : Complete(w, ok)
    BY <2>1
  <2>3. Owns(w) /\ held[w].job = j
    BY <2>2, HeldJob DEF Complete, TypeOK, Row
  <2>4. held'[w] = NoClaim /\ held[w].token = job[j].token
    BY <2>2, <2>3 DEF Complete, Owns, TypeOK
  <2>5. ASSUME NEW v \in Workers \ {w}, held[v].job = j
        PROVE  held[v].token < held[w].token
    <3>1. Busy(v) /\ Busy(w)
      BY <2>3, <2>5, ConstantsAssumption DEF Owns, Busy, NoClaim
    <3>2. held[v].token \in Nat /\ held[w].token \in Nat
      BY <3>1, HeldJob
    <3> QED
      BY <2>3, <2>4, <2>5, <3>1, <3>2 DEF FenceUnique
  <2> QED
    BY <2>3, <2>4, <2>5
<1> QED
  BY <1>1, TypeCorrect, FenceCorrect, PTL DEF Spec, OutcomeByLatestClaim

\* A settled job changes only when a dead one is requeued, with a full budget
\* and a token above every claim of its former life (requeueDead, and the
\* status tests in the WHERE clauses of every other statement).
THEOREM FinalCorrect == Spec => SettledIsFinal
<1> DEFINE A == \A j \in Jobs : job[j].status \in Terminal /\ job'[j] # job[j] =>
            /\ job[j].status = "dead" /\ job'[j].status = "queued"
            /\ job'[j].attempts = 0
            /\ \A w \in Workers : held[w].job = j => held[w].token < job'[j].token
<1>1. TypeOK /\ FenceUnique /\ [Next]_vars => A
  <2> SUFFICES ASSUME TypeOK, FenceUnique, [Next]_vars, NEW j \in Jobs,
                      job[j].status \in Terminal, job'[j] # job[j]
               PROVE  /\ job[j].status = "dead" /\ job'[j].status = "queued"
                      /\ job'[j].attempts = 0
                      /\ \A w \in Workers : held[w].job = j => held[w].token < job'[j].token
    BY DEF A
  <2>0. job \in [Jobs -> Row] /\ job[j] \in Row
    BY DEF TypeOK
  <2>1. RequeueDead(j)
    <3>1. ASSUME NEW i \in Jobs, NEW p \in Priorities, NEW d \in Devices, Enqueue(i, p, d)
          PROVE  FALSE
      BY <2>0, <3>1 DEF Enqueue, Terminal
    <3>2. ASSUME NEW w \in Workers, NEW i \in Jobs, ClaimNext(w, i) PROVE FALSE
      BY <2>0, <3>2 DEF ClaimNext, Picked, Claimable, Terminal
    <3>3. ASSUME NEW w \in Workers, NEW i \in Jobs, DeadLetter(w, i) PROVE FALSE
      BY <2>0, <3>3 DEF DeadLetter, Picked, Claimable, Terminal
    <3>4. ASSUME NEW w \in Workers, Heartbeat(w) PROVE FALSE
      BY <2>0, <3>4, HeldJob DEF Heartbeat, Owns, Terminal
    <3>5. ASSUME NEW w \in Workers, NEW ok \in BOOLEAN, Complete(w, ok) PROVE FALSE
      BY <2>0, <3>5, HeldJob DEF Complete, Owns, Terminal
    <3>6. ASSUME NEW i \in Jobs, Cancel(i) PROVE FALSE
      BY <2>0, <3>6 DEF Cancel, Terminal
    <3>7. ASSUME NEW i \in Jobs, RequeueDead(i) PROVE i = j
      BY <2>0, <3>7 DEF RequeueDead
    <3>8. ASSUME NEW i \in Jobs, Expire(i) PROVE FALSE
      BY <2>0, <3>8 DEF Expire, Terminal
    <3>9. ASSUME NEW w \in Workers, Crash(w) PROVE FALSE
      BY <3>9 DEF Crash
    <3>10. ASSUME UNCHANGED vars PROVE FALSE
      BY <3>10 DEF vars
    <3> QED
      BY <3>1, <3>2, <3>3, <3>4, <3>5, <3>6, <3>7, <3>8, <3>9, <3>10 DEF Next
  <2>2. /\ job[j].status = "dead" /\ job'[j].status = "queued"
        /\ job'[j].attempts = 0 /\ job'[j].token = job[j].token + 1
    BY <2>0, <2>1 DEF RequeueDead, Row
  <2>3. ASSUME NEW w \in Workers, held[w].job = j
        PROVE  held[w].token < job'[j].token
    <3>1. Busy(w)
      BY <2>3, ConstantsAssumption DEF Busy, NoClaim
    <3>2. held[w].token \in Nat /\ job[j].token \in Nat
      BY <2>0, <3>1, HeldJob DEF Row
    <3>3. held[w].token <= job[j].token
      BY <2>3, <3>1 DEF FenceUnique
    <3> QED
      BY <2>2, <3>2, <3>3
  <2> QED
    BY <2>2, <2>3
<1> QED
  BY <1>1, TypeCorrect, FenceCorrect, PTL DEF Spec, SettledIsFinal

=============================================================================
