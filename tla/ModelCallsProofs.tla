-------------------------- MODULE ModelCallsProofs --------------------------
(***************************************************************************)
(* Proofs about a batch of model calls, for any number of items, workers,  *)
(* slots, routes, retries and restarts: the ceiling of the slots and the   *)
(* queue for them, that the batch fails as a sequential loop would, that a *)
(* replayed step is of the present inputs, and how far the token cap can   *)
(* be overshot.                                                            *)
(*                                                                         *)
(* A step does one of four things to the calls: it moves a call that keeps *)
(* its slot, it ends one and wakes the oldest waiter, it asks for one, or  *)
(* it starts the whole batch over.  What each of them does to the queue,   *)
(* to the calls in flight and to the budget is shown once.  The processes  *)
(* that lost the lease move apart from all that, each on its own counter.  *)
(***************************************************************************)
EXTENDS ModelCalls, FiniteSetTheorems, SequenceTheorems, WellFoundedInduction, TLAPS

Ats == {"pending", "queued", "entered", "trying", "sent", "backoff", "answered", "ok", "error"}
Results == Step \cup {NoStep}
CallRecords == [at : Ats, nth : 1 .. 2, chain : SUBSET Places, retries : 0 .. MaxRetries,
                reasks : 0 .. MaxReasks, used : 0 .. 1, result : Results]
InRoute == {"trying", "sent", "backoff"}

-----------------------------------------------------------------------------
(* The inductive invariant *)

\* A call in a route has a route, and one that backs off has a retry left.
GoodCall(c) == /\ c \in CallRecords
               /\ c.at \in InRoute => c.chain # {}
               /\ c.at = "backoff" => c.retries < MaxRetries

Shapes ==
    /\ stage \in Stages
    /\ call \in [Index -> CallRecords]
    /\ \A i \in Index : GoodCall(call[i])
    /\ next \in 1 .. Items + 1
    /\ batch \in {"running", "done", "failed"}
    /\ cooling \subseteq Routes \ Unnamed
    /\ cancelled \in BOOLEAN
    /\ spent \in Nat /\ receipts \in Nat
    /\ inputs \in Inputs /\ stepInputs \in Inputs \cup {NoInputs}
    /\ steps \in [Index -> Results]
    /\ lost \in Seq(Lost)
    /\ restarts \in 0 .. MaxRestarts

\* The queue holds the queued calls, each once, and only while the slots are full.
Queue ==
    /\ waiters \in Seq(Index)
    /\ \A j, k \in 1 .. Len(waiters) : waiters[j] = waiters[k] => j = k
    /\ \A i \in Index : At(i, "queued") <=> \E k \in 1 .. Len(waiters) : waiters[k] = i
    /\ Cardinality(Holding) <= Slots
    /\ waiters # <<>> => Cardinality(Holding) = Slots

\* The items are launched in order, and a batch that is over has none in flight.
Order ==
    /\ \A i \in Index : At(i, "pending") <=> next <= i
    /\ batch # "running" => Busy = {}
    /\ batch = "failed" => Errors # {}

\* The most a process puts on the receipts after its counter has let it.
Most == Cap + Workers - 1

\* A process that lost the lease has spent, or is about to spend, no more.
GoodLost(p) == /\ IsFiniteSet(p.flight) /\ Cardinality(p.flight) <= Workers
               /\ p.late + Cardinality(p.flight) <= Most

\* The processes of l have together put t on the receipts since they lost the
\* lease: s[k] is what the first k of them have.
IsTally(s, l) == /\ s \in [0 .. Len(l) -> Nat] /\ s[0] = 0
                 /\ \A k \in 1 .. Len(l) : s[k] = s[k - 1] + l[k].late
Total(l, t) == \E s \in [0 .. Len(l) -> Nat] : IsTally(s, l) /\ s[Len(l)] = t

\* Whatever else is on the receipts is in the counter too, and was let through.
Balanced(t) == receipts <= spent + t /\ receipts + Cardinality(InFlight) <= Most + t

Budget ==
    /\ Cardinality(Busy) <= Workers
    /\ \A k \in 1 .. Len(lost) : GoodLost(lost[k])
    /\ \E t \in Nat : Total(lost, t) /\ Balanced(t)

\* While items are worked on the stored fingerprint is that of their inputs, and
\* the stored steps are of the stored fingerprint.  A stage without checkpoints
\* stores nothing.
Fresh ==
    /\ stage.checkpointed /\ Busy # {} => stepInputs = inputs
    /\ ~stage.checkpointed => stepInputs = NoInputs /\ \A i \in Index : steps[i] = NoStep
    /\ \A i \in Index : steps[i].stray \/ steps[i].of \in {NoInputs, stepInputs}
    /\ StepsAreCurrent

Inv == Shapes /\ Queue /\ Order /\ Budget /\ Fresh

-----------------------------------------------------------------------------
(* Records, sets and chains *)

\* The records the actions write.
LEMMA Records ==
    /\ NoStep \in Results /\ Idle \in CallRecords /\ Idle.at = "pending"
    /\ \A n \in 1 .. 2 : /\ Started(n) \in CallRecords /\ Started(n).at = "entered"
                         /\ [Idle EXCEPT !.at = "queued", !.nth = n] \in CallRecords
                         /\ [Idle EXCEPT !.at = "queued", !.nth = n].at = "queued"
                         /\ [Idle EXCEPT !.at = "answered", !.nth = n] \in CallRecords
                         /\ [Idle EXCEPT !.at = "answered", !.nth = n].at = "answered"
    /\ inputs \in Inputs => /\ Done \in CallRecords /\ Done.at = "ok" /\ Done.result \in Results
                            /\ Done.result.of = inputs
    /\ inputs \in Inputs => \A n \in 1 .. 2 :
          /\ Failed(n) \in CallRecords /\ Failed(n).at \in {"ok", "error"}
          /\ Failed(n).at = "ok" => Failed(n).result.of = inputs
<1>1. NoStep \in Results
  BY DEF Results
<1> HIDE DEF Results, NoStep
<1>2. 0 \in 0 .. MaxRetries /\ 0 \in 0 .. MaxReasks /\ 0 \in 0 .. 1 /\ 1 \in 1 .. 2
  BY CallsAssumption
<1>3. Idle \in CallRecords /\ Idle.at = "pending"
  BY <1>1, <1>2 DEF Idle, CallRecords, Ats
<1> HIDE DEF Idle
<1>4. \A n \in 1 .. 2 : /\ Started(n) \in CallRecords /\ Started(n).at = "entered"
                        /\ [Idle EXCEPT !.at = "queued", !.nth = n] \in CallRecords
                        /\ [Idle EXCEPT !.at = "queued", !.nth = n].at = "queued"
                        /\ [Idle EXCEPT !.at = "answered", !.nth = n] \in CallRecords
                        /\ [Idle EXCEPT !.at = "answered", !.nth = n].at = "answered"
  BY <1>3 DEF Started, CallRecords, Ats
<1>5. ASSUME inputs \in Inputs
      PROVE  Done \in CallRecords /\ Done.at = "ok" /\ Done.result \in Results /\ Done.result.of = inputs
  <2> DEFINE output == [of |-> inputs, stray |-> FALSE]
  <2>1. output \in Results /\ output.of = inputs
    BY <1>5 DEF Results, Step
  <2> HIDE DEF output
  <2>2. Done = [Idle EXCEPT !.at = "ok", !.result = output]
    BY DEF Done, output
  <2> QED
    BY <1>3, <2>1, <2>2 DEF CallRecords, Ats
<1>6. [Idle EXCEPT !.at = "error"] \in CallRecords /\ [Idle EXCEPT !.at = "error"].at = "error"
  BY <1>3 DEF CallRecords, Ats
<1> HIDE DEF CallRecords, Done
<1>7. ASSUME inputs \in Inputs, NEW n \in 1 .. 2
      PROVE  /\ Failed(n) \in CallRecords /\ Failed(n).at \in {"ok", "error"}
             /\ Failed(n).at = "ok" => Failed(n).result.of = inputs
  BY <1>5, <1>6, <1>7 DEF Failed
<1> QED
  BY <1>1, <1>3, <1>4, <1>5, <1>7

\* The stages: an item makes one call or two, and a checkpointed one makes one.
LEMMA StageKinds ==
    ASSUME stage \in Stages
    PROVE  /\ stage.calls \in 1 .. 2 /\ stage.checkpointed \in BOOLEAN /\ stage.fenced \in BOOLEAN
           /\ stage.checkpointed => stage.calls = 1
<1>1. CASE stage = Rank
  BY <1>1 DEF Rank
<1>2. CASE stage = BuildEvidence
  BY <1>2 DEF BuildEvidence
<1>3. CASE stage = CritiqueFalsify
  BY <1>3 DEF CritiqueFalsify
<1> QED
  BY <1>1, <1>2, <1>3 DEF Stages

\* What the record of a lost process holds.
LEMMA LostFields ==
    ASSUME NEW p \in Lost
    PROVE  /\ p.of \in Inputs /\ p.next \in 1 .. Items + 1 /\ p.open \in BOOLEAN
           /\ p.flight \subseteq Flight /\ p.spent \in Nat /\ p.late \in Nat
  BY DEF Lost

\* The index of the batch is finite, and so is every set of its items.
LEMMA FiniteItems ==
    ASSUME NEW S \in SUBSET Index
    PROVE  IsFiniteSet(S) /\ Cardinality(S) \in Nat
<1>1. IsFiniteSet(Index)
  BY CallsAssumption, FS_Interval DEF Index
<1> QED
  BY <1>1, FS_Subset, FS_CardinalityType

\* Sets of items with the same items are the same.
LEMMA SameSet ==
    ASSUME NEW S \in SUBSET Index, NEW T \in SUBSET Index, \A i \in Index : i \in S <=> i \in T
    PROVE  S = T
  OBVIOUS

\* A set of numbers that is not empty has a least one.
LEMMA LeastExists ==
    ASSUME NEW S \in SUBSET Nat, S # {}
    PROVE  \E c \in S : \A e \in S : c <= e
<1> DEFINE R == OpToRel(<, Nat)
<1>1. \E c \in S : \A e \in S : ~(<<e, c>> \in R)
  <2>1. IsWellFoundedOn(R, Nat)
    BY NatLessThanWellFounded
  <2> HIDE DEF R
  <2> QED
    BY <2>1, WFMin
<1>2. \A c, e \in Nat : <<e, c>> \in R <=> e < c
  BY DEF OpToRel
<1> HIDE DEF R
<1>3. PICK c \in S : \A e \in S : ~(<<e, c>> \in R)
  BY <1>1
<1>4. ASSUME NEW e \in S PROVE c <= e
  <2>1. c \in Nat /\ e \in Nat /\ ~(e < c)
    BY <1>2, <1>3
  <2> QED
    BY <2>1
<1> QED
  BY <1>4

\* A chain that is not empty has a first place.
LEMMA CurrentIsOne ==
    ASSUME NEW chain \in SUBSET Places, chain # {}
    PROVE  Current(chain) \in chain
<1>1. Len(RouteOrder) \in Nat
  BY CallsAssumption
<1>2. chain \subseteq Nat
  BY <1>1 DEF Places
<1> QED
  BY <1>2, LeastExists DEF Current

\* So has a set of errors that is not empty a first one.
LEMMA FirstIsOne ==
    ASSUME Errors # {}
    PROVE  FirstError \in Errors /\ \A j \in Errors : FirstError <= j
<1>1. Errors \subseteq Nat
  BY DEF Errors, Index
<1> QED
  BY <1>1, LeastExists DEF FirstError

\* What every state of the invariant has.
LEMMA Facts ==
    ASSUME Inv
    PROVE  /\ call \in [Index -> CallRecords] /\ steps \in [Index -> Results]
           /\ spent \in Nat /\ receipts \in Nat /\ restarts \in Nat
           /\ waiters \in Seq(Index) /\ Len(waiters) \in Nat
           /\ inputs \in Inputs
           /\ Holding \subseteq InFlight /\ InFlight \subseteq Busy /\ Busy \subseteq Index
           /\ Errors \subseteq Index
           /\ Cardinality(Holding) \in Nat /\ Cardinality(InFlight) \in Nat
           /\ Cardinality(Busy) \in Nat /\ Cardinality(InFlight) <= Cardinality(Busy)
           /\ lost \in Seq(Lost) /\ Len(lost) \in Nat
           /\ Workers \in Nat /\ Cap \in Nat /\ Most \in Nat /\ Workers <= Most
           /\ \A i \in Index : call[i].nth \in 1 .. 2
<1>1. Holding \subseteq InFlight /\ InFlight \subseteq Busy /\ Busy \subseteq Index /\ Errors \subseteq Index
  BY DEF Holding, InFlight, Busy, Errors
<1>2. Cardinality(InFlight) <= Cardinality(Busy)
  BY <1>1, FiniteItems, FS_Subset
<1>3. spent \in Nat /\ receipts \in Nat /\ restarts \in Nat
  BY CallsAssumption DEF Inv, Shapes
<1>4. Workers \in Nat /\ Cap \in Nat /\ Most \in Nat /\ Workers <= Most
  BY CallsAssumption DEF Most
<1>5. waiters \in Seq(Index) /\ Len(waiters) \in Nat /\ lost \in Seq(Lost) /\ Len(lost) \in Nat
  BY LenProperties DEF Inv, Queue, Shapes
<1>6. /\ Cardinality(Holding) \in Nat /\ Cardinality(InFlight) \in Nat /\ Cardinality(Busy) \in Nat
  BY <1>1, FiniteItems
<1>7. call \in [Index -> CallRecords] /\ \A i \in Index : call[i].nth \in 1 .. 2
  BY DEF Inv, Shapes, CallRecords
<1> QED
  BY <1>1, <1>2, <1>3, <1>4, <1>5, <1>6, <1>7 DEF Inv, Shapes

-----------------------------------------------------------------------------
(* What the steps do to the calls *)

\* A call moves within its slot.
LEMMA KeepSlot ==
    ASSUME Inv, NEW i \in Holding, NEW c \in CallRecords, c.at \in InRoute, GoodCall(c),
           call' = [call EXCEPT ![i] = c], cooling' \subseteq Routes \ Unnamed,
           UNCHANGED <<next, batch, waiters, cancelled, spent, receipts,
                       stepInputs, steps, runVars>>
    PROVE  Inv'
<1> USE Facts
<1>1. /\ next' = next /\ batch' = batch /\ waiters' = waiters /\ cancelled' = cancelled
      /\ spent' = spent /\ receipts' = receipts /\ stepInputs' = stepInputs /\ steps' = steps
      /\ stage' = stage /\ inputs' = inputs /\ lost' = lost /\ restarts' = restarts
  BY DEF runVars
<1>2. i \in Index /\ call[i].at \in {"entered", "trying", "sent", "backoff"}
  BY DEF Holding
<1>3. call' \in [Index -> CallRecords] /\ call'[i] = c /\ \A j \in Index \ {i} : call'[j] = call[j]
  BY <1>2
<1>4. Holding' = Holding /\ InFlight' = InFlight /\ Busy' = Busy /\ Errors' = Errors
  <2>1. \A j \in Index : /\ j \in Holding' <=> j \in Holding
                         /\ call'[j].at = "queued" <=> call[j].at = "queued"
                         /\ call'[j].at = "answered" <=> call[j].at = "answered"
                         /\ call'[j].at = "error" <=> call[j].at = "error"
    BY <1>2, <1>3 DEF InRoute, Holding
  <2>2. Holding' \subseteq Index /\ Holding \subseteq Index
    BY DEF Holding
  <2>3. Holding' = Holding
    <3>1. \A j \in Index : j \in Holding' <=> j \in Holding
      BY <2>1
    <3> QED
      BY <2>2, <3>1
  <2>4. InFlight' = InFlight
    BY <2>1, <2>3 DEF InFlight, At
  <2> QED
    BY <2>1, <2>3, <2>4 DEF Busy, Errors, At
<1>5. \A j \in Index : /\ At(j, "queued")' <=> At(j, "queued")
                       /\ At(j, "pending")' <=> At(j, "pending")
                       /\ At(j, "ok")' => At(j, "ok") /\ call'[j] = call[j]
  BY <1>2, <1>3 DEF At, InRoute
<1>6. Shapes'
  BY <1>1, <1>3 DEF Inv, Shapes, GoodCall
<1>7. Queue'
  BY <1>1, <1>4, <1>5 DEF Inv, Queue
<1>8. Order'
  BY <1>1, <1>4, <1>5 DEF Inv, Order
<1>9. Budget'
  BY <1>1, <1>4 DEF Inv, Budget, Balanced
<1>10. Fresh'
  BY <1>1, <1>4, <1>5 DEF Inv, Fresh, StepsAreCurrent
<1> QED
  BY <1>6, <1>7, <1>8, <1>9, <1>10 DEF Inv

\* A call ends and its slot passes to the oldest waiter.
LEMMA PassSlot ==
    ASSUME Inv, NEW i \in Holding, NEW c \in CallRecords, c.at \in {"ok", "error", "answered"},
           Release(i, c)
    PROVE  /\ Queue'
           /\ call' \in [Index -> CallRecords] /\ \A j \in Index : GoodCall(call'[j])
           /\ InFlight' = InFlight \ {i} /\ Busy' \subseteq Busy /\ Errors \subseteq Errors'
           /\ \A j \in Index : At(j, "pending")' <=> At(j, "pending")
           /\ \A j \in Index \ {i} : At(j, "ok")' => At(j, "ok") /\ call'[j] = call[j]
           /\ call'[i] = c
<1> USE Facts
<1>1. i \in Index /\ call[i].at \in {"entered", "trying", "sent", "backoff"}
  BY DEF Holding
<1>2. /\ call' \in [Index -> CallRecords] /\ call'[i] = c
  <2>1. \A j \in Index : Started(call[j].nth) \in CallRecords
    BY Records
  <2> QED
    BY <1>1, <2>1 DEF Release
<1>3. CASE waiters = <<>>
  <2>1. \A j \in Index \ {i} : call'[j] = call[j]
    BY <1>3 DEF Release
  <2>2. waiters' = waiters
    BY <1>3 DEF Release
  <2>3. Holding' = Holding \ {i} /\ InFlight' = InFlight \ {i} /\ Errors \subseteq Errors'
    BY <1>1, <1>2, <2>1 DEF Holding, InFlight, Errors, At
  <2>9. Busy' \subseteq Busy
    BY <1>1, <1>2, <2>1, <2>3 DEF Busy, InFlight, Holding, At
  <2>4. Cardinality(Holding') <= Slots
    <3>1. Cardinality(Holding \ {i}) = Cardinality(Holding) - 1 /\ Cardinality(Holding) <= Slots
      BY FiniteItems, FS_RemoveElement DEF Inv, Queue
    <3> QED
      BY <2>3, <3>1, CallsAssumption, SMTT(20)
  <2>5. \A j \in Index : /\ At(j, "queued")' <=> At(j, "queued")
                         /\ At(j, "pending")' <=> At(j, "pending")
    BY <1>1, <1>2, <2>1 DEF At
  <2>6. Queue'
    BY <1>3, <2>2, <2>4, <2>5 DEF Inv, Queue
  <2>7. \A j \in Index : GoodCall(call'[j])
    BY <1>2, <2>1 DEF Inv, Shapes, GoodCall, InRoute
  <2> QED
    BY <1>2, <2>1, <2>3, <2>5, <2>6, <2>7, <2>9 DEF At
<1>4. CASE waiters # <<>>
  <2> DEFINE h == waiters[1]
             w == Tail(waiters)
  <2>1. /\ h \in Index /\ Head(waiters) = h /\ 1 \in 1 .. Len(waiters)
        /\ w \in Seq(Index) /\ Len(w) = Len(waiters) - 1
        /\ \A k \in 1 .. Len(w) : w[k] = waiters[k + 1]
    BY <1>4, HeadTailProperties, EmptySeq, ElementOfSeq
  <2>2. call[h].at = "queued" /\ h # i
    BY <1>1, <2>1 DEF Inv, Queue, At
  <2> DEFINE woken == Started(call[h].nth)
  <2>10. woken \in CallRecords /\ woken.at = "entered"
    BY <2>1, Records
  <2>3. /\ call'[h] = woken /\ \A j \in Index \ {i, h} : call'[j] = call[j]
        /\ waiters' = w
    BY <1>4, <2>1, <2>2 DEF Release
  <2> HIDE DEF h, w, woken
  <2>4. Holding' = (Holding \ {i}) \cup {h} /\ InFlight' = InFlight \ {i} /\ Errors \subseteq Errors'
    <3>1. \A j \in Index : /\ j \in Holding' <=> j \in (Holding \ {i}) \cup {h}
                           /\ j \in InFlight' <=> j \in InFlight \ {i}
                           /\ j \in Errors => j \in Errors'
      BY <1>1, <1>2, <2>1, <2>2, <2>3, <2>10 DEF Holding, InFlight, Errors, At
    <3>2. Holding' \subseteq Index /\ InFlight' \subseteq Index
      BY DEF Holding, InFlight
    <3> QED
      BY <2>1, <3>1, <3>2
  <2>9. Busy' \subseteq Busy
    <3>1. \A j \in Index : At(j, "answered")' => At(j, "answered") \/ j \in InFlight
      BY <1>1, <1>2, <2>1, <2>2, <2>3, <2>10 DEF At, InFlight, Holding
    <3> QED
      BY <2>4, <3>1 DEF Busy
  <2>5. Cardinality(Holding') = Slots
    <3>1. h \notin Holding \ {i}
      BY <2>2 DEF Holding
    <3>2. IsFiniteSet(Holding \ {i}) /\ Cardinality(Holding \ {i}) = Cardinality(Holding) - 1
      BY FiniteItems, FS_RemoveElement
    <3>3. Cardinality((Holding \ {i}) \cup {h}) = Cardinality(Holding \ {i}) + 1
      BY <3>1, <3>2, FS_AddElement
    <3>4. Cardinality(Holding) = Slots
      BY <1>4 DEF Inv, Queue
    <3> QED
      BY <2>4, <3>2, <3>3, <3>4
  <2>6. Queue'
    <3>1. ASSUME NEW j \in 1 .. Len(w), NEW k \in 1 .. Len(w), w[j] = w[k] PROVE j = k
      <4>1. /\ j + 1 \in 1 .. Len(waiters) /\ k + 1 \in 1 .. Len(waiters)
            /\ waiters[j + 1] = waiters[k + 1]
        <5>1. Len(waiters) \in Nat /\ Len(w) = Len(waiters) - 1
          BY <2>1
        <5>2. j + 1 \in 1 .. Len(waiters) /\ k + 1 \in 1 .. Len(waiters)
          BY <5>1
        <5>3. w[j] = waiters[j + 1] /\ w[k] = waiters[k + 1]
          BY <2>1
        <5> QED
          BY <3>1, <5>2, <5>3
      <4>2. j + 1 = k + 1
        BY <4>1 DEF Inv, Queue
      <4> QED
        BY <4>2
    <3>2. \A j \in Index : At(j, "queued")' <=> At(j, "queued") /\ j # h
      BY <1>1, <1>2, <2>1, <2>2, <2>3, <2>10 DEF At
    <3>3. \A j \in Index : (\E k \in 1 .. Len(w) : w[k] = j)
                              <=> j # h /\ \E k \in 1 .. Len(waiters) : waiters[k] = j
      <4>1. ASSUME NEW j \in Index, NEW k \in 1 .. Len(w), w[k] = j
            PROVE  j # h /\ \E l \in 1 .. Len(waiters) : waiters[l] = j
        <5>1. k + 1 \in 1 .. Len(waiters) /\ waiters[k + 1] = j /\ k + 1 # 1
          BY <2>1, <4>1
        <5> QED
          BY <2>1, <5>1 DEF Inv, Queue, h
      <4>2. ASSUME NEW j \in Index, j # h, NEW k \in 1 .. Len(waiters), waiters[k] = j
            PROVE  \E l \in 1 .. Len(w) : w[l] = j
        <5>1. k # 1
          BY <4>2 DEF h
        <5>2. k - 1 \in 1 .. Len(w) /\ (k - 1) + 1 = k
          BY <2>1, <5>1
        <5>3. w[k - 1] = waiters[k]
          BY <2>1, <5>2
        <5> QED
          BY <4>2, <5>2, <5>3
      <4> QED
        BY <4>1, <4>2
    <3>4. \A j \in Index : At(j, "queued")' <=> \E k \in 1 .. Len(w) : w[k] = j
      BY <3>2, <3>3 DEF Inv, Queue
    <3>5. Slots <= Slots
      BY CallsAssumption
    <3>6. /\ waiters' \in Seq(Index)
          /\ \A j, k \in 1 .. Len(waiters') : waiters'[j] = waiters'[k] => j = k
          /\ \A j \in Index : At(j, "queued")' <=> \E k \in 1 .. Len(waiters') : waiters'[k] = j
      BY <2>1, <2>3, <3>1, <3>4
    <3> QED
      BY <2>5, <3>5, <3>6, Zenon DEF Queue
  <2>7. \A j \in Index : /\ GoodCall(call'[j])
                         /\ At(j, "pending")' <=> At(j, "pending")
    BY <1>1, <1>2, <2>1, <2>2, <2>3, <2>10 DEF Inv, Shapes, GoodCall, InRoute, At
  <2>8. \A j \in Index \ {i} : At(j, "ok")' => At(j, "ok") /\ call'[j] = call[j]
    BY <2>1, <2>3, <2>10 DEF At
  <2> QED
    BY <1>2, <2>4, <2>6, <2>7, <2>8, <2>9
<1> QED
  BY <1>3, <1>4

\* A landing call brings at most the unit that was reserved for it.
LEMMA LandArithmetic ==
    ASSUME NEW s \in Nat, NEW r \in Nat, NEW f \in Nat, NEW t \in Nat, NEW m \in Nat, NEW u \in 0 .. 1,
           r <= s + t, r + f <= m + t
    PROVE  r + u <= (s + u) + t /\ (r + u) + (f - 1) <= m + t
  OBVIOUS

\* A call ends: its usage is counted and its slot passes on.
LEMMA LandStep ==
    ASSUME Inv, NEW i \in Holding, NEW c \in CallRecords, c.at \in {"ok", "error", "answered"},
           NEW usage \in 0 .. 1, Land(i, c, usage),
           c.at = "ok" => c.result.of = inputs,
           \/ steps' = steps
           \/ /\ stage.checkpointed /\ c.result.of = inputs
              /\ steps' = [steps EXCEPT ![i] = c.result]
    PROVE  Inv'
<1> USE Facts
<1>1. /\ Release(i, c) /\ spent' = spent + usage /\ receipts' = receipts + usage
      /\ next' = next /\ batch' = batch /\ cooling' = cooling /\ cancelled' = cancelled
      /\ stepInputs' = stepInputs /\ inputs' = inputs /\ lost' = lost /\ restarts' = restarts
      /\ stage' = stage
  BY DEF Land, runVars
<1>2. /\ Queue'
      /\ call' \in [Index -> CallRecords] /\ \A j \in Index : GoodCall(call'[j])
      /\ InFlight' = InFlight \ {i} /\ Busy' \subseteq Busy /\ Errors \subseteq Errors'
      /\ \A j \in Index : At(j, "pending")' <=> At(j, "pending")
      /\ \A j \in Index \ {i} : At(j, "ok")' => At(j, "ok") /\ call'[j] = call[j]
      /\ call'[i] = c
  BY <1>1, PassSlot
<1>3. i \in InFlight /\ i \in Index /\ i \in Busy
  BY DEF Holding
<1>4. stage.checkpointed => stepInputs = inputs
  BY <1>3 DEF Inv, Fresh
<1>5. c.result \in Results
  BY DEF CallRecords
<1>6. /\ steps' \in [Index -> Results]
      /\ \A j \in Index : steps'[j].stray \/ steps'[j].of \in {NoInputs, stepInputs'}
      /\ ~stage.checkpointed => steps' = steps
  <2>1. CASE steps' = steps
    BY <1>1, <2>1 DEF Inv, Fresh
  <2>2. CASE /\ stage.checkpointed /\ c.result.of = inputs
             /\ steps' = [steps EXCEPT ![i] = c.result]
    BY <1>1, <1>3, <1>4, <1>5, <2>2 DEF Inv, Fresh
  <2> QED
    BY <2>1, <2>2
<1>7. Shapes'
  <2>1. spent' \in Nat /\ receipts' \in Nat
    BY <1>1, SMTT(20)
  <2> QED
    BY <1>1, <1>2, <1>6, <2>1 DEF Inv, Shapes
<1>8. Order'
  BY <1>1, <1>2, <1>3 DEF Inv, Order
<1>9. Budget'
  <2>1. Cardinality(InFlight') = Cardinality(InFlight) - 1
    BY <1>2, <1>3, FiniteItems, FS_RemoveElement
  <2>2. Cardinality(Busy') <= Workers
    <3>1. IsFiniteSet(Busy) /\ Cardinality(Busy) <= Workers
      BY FiniteItems DEF Inv, Budget
    <3>2. Cardinality(Busy') <= Cardinality(Busy) /\ Cardinality(Busy') \in Nat
      BY <1>2, <3>1, FS_Subset, FS_CardinalityType
    <3> QED
      BY <3>1, <3>2
  <2>3. PICK t \in Nat : Total(lost, t) /\ Balanced(t)
    BY DEF Inv, Budget
  <2>4. receipts <= spent + t /\ receipts + Cardinality(InFlight) <= Most + t
    BY <2>3 DEF Balanced
  <2>5. /\ receipts + usage <= (spent + usage) + t
        /\ (receipts + usage) + (Cardinality(InFlight) - 1) <= Most + t
    BY <2>4, LandArithmetic, Zenon
  <2>6. Balanced(t)'
    BY <1>1, <2>1, <2>5 DEF Balanced, Most
  <2> QED
    BY <1>1, <2>2, <2>3, <2>6 DEF Inv, Budget
<1>10. Fresh'
  <2>1. StepsAreCurrent'
    <3>1. ASSUME NEW j \in Index, At(j, "ok")'
          PROVE  call'[j].result.of = inputs' \/ call'[j].result.stray
      <4>1. CASE j = i
        BY <1>1, <1>2, <3>1, <4>1 DEF At
      <4>2. CASE j # i
        BY <1>1, <1>2, <3>1, <4>2 DEF Inv, Fresh, StepsAreCurrent
      <4> QED
        BY <4>1, <4>2
    <3> QED
      BY <3>1 DEF StepsAreCurrent
  <2> QED
    BY <1>1, <1>4, <1>6, <2>1 DEF Inv, Fresh
<1> QED
  BY <1>2, <1>7, <1>8, <1>9, <1>10 DEF Inv

-----------------------------------------------------------------------------
(* One route *)

\* A call fails, and the item with it unless it was the second call.
LEMMA FailStep ==
    ASSUME Inv, NEW i \in Holding, NEW usage \in 0 .. 1,
           Land(i, Failed(call[i].nth), usage), UNCHANGED steps
    PROVE  Inv'
<1> DEFINE c == Failed(call[i].nth)
<1>1. i \in Index /\ inputs \in Inputs /\ call[i].nth \in 1 .. 2
  BY Facts DEF Holding
<1>2. c \in CallRecords /\ c.at \in {"ok", "error"} /\ (c.at = "ok" => c.result.of = inputs)
  BY <1>1, Records
<1>3. Land(i, c, usage) /\ steps' = steps
  OBVIOUS
<1> HIDE DEF c
<1> QED
  BY <1>2, <1>3, LandStep

\* A route gives up.
LEMMA GiveUpStep ==
    ASSUME Inv, NEW i \in Index, call[i].at \in InRoute, NEW worthy, GiveUp(i, worthy)
    PROVE  Inv'
<1> USE Facts
<1>1. i \in Holding
  BY DEF Holding, InRoute
<1>2. call[i].chain \in SUBSET Places /\ call[i].chain # {} /\ call[i].used \in 0 .. 1
  BY DEF Inv, Shapes, GoodCall, CallRecords
<1>3. CASE /\ call' = [call EXCEPT ![i] = [Idle EXCEPT !.at = "trying", !.nth = call[i].nth, !.chain = Untried(i)]]
           /\ Untried(i) # {}
           /\ cooling' = cooling \cup ({RouteOrder[Current(call[i].chain)]} \ Unnamed)
           /\ UNCHANGED <<next, batch, waiters, cancelled, spent, receipts,
                          stepInputs, steps, runVars>>
  <2>1. Untried(i) \in SUBSET Places
    BY <1>2 DEF Untried
  <2> DEFINE c == [Idle EXCEPT !.at = "trying", !.nth = call[i].nth, !.chain = Untried(i)]
  <2>2. c \in CallRecords /\ c.at \in InRoute /\ GoodCall(c)
    <3> HIDE DEF Untried
    <3>1. Idle \in CallRecords
      BY Records
    <3> HIDE DEF Idle
    <3> QED
      BY <1>3, <2>1, <3>1 DEF CallRecords, Ats, InRoute, GoodCall
  <2>3. cooling' \subseteq Routes \ Unnamed
    <3>1. RouteOrder[Current(call[i].chain)] \in Routes
      BY <1>2, CurrentIsOne DEF Routes
    <3> QED
      BY <1>3, <3>1 DEF Inv, Shapes
  <2>4. call' = [call EXCEPT ![i] = c]
    BY <1>3
  <2> HIDE DEF c
  <2> QED
    BY <1>1, <1>3, <2>2, <2>3, <2>4, KeepSlot
<1>4. CASE Land(i, Failed(call[i].nth), call[i].used) /\ UNCHANGED steps
  BY <1>1, <1>2, <1>4, FailStep
<1> QED
  BY <1>3, <1>4 DEF GiveUp

\* Only the call of i changes, and keeps its slot.
LEMMA OnlyStep ==
    ASSUME Inv, NEW i \in Holding, NEW c \in CallRecords, c.at \in InRoute, GoodCall(c), Only(i, c)
    PROVE  Inv'
<1>1. cooling' \subseteq Routes \ Unnamed
  BY DEF Only, Inv, Shapes
<1> QED
  BY <1>1, KeepSlot DEF Only

\* The calls that hold a slot, and those of them in a route.
LEMMA AtSlot ==
    ASSUME Inv, NEW i \in Index
    PROVE  /\ call[i] \in CallRecords
           /\ At(i, "entered") => i \in Holding
           /\ \A w \in InRoute : At(i, w) => /\ i \in Holding /\ call[i].at \in InRoute
                                             /\ call[i].chain # {} /\ call[i].chain \in SUBSET Places
<1>1. call[i] \in CallRecords /\ GoodCall(call[i])
  BY DEF Inv, Shapes
<1> QED
  BY <1>1 DEF At, Holding, InRoute, GoodCall, CallRecords

\* The steps of a call along its routes.
LEMMA RouteStep ==
    ASSUME Inv, NEW i \in Index,
           \/ Enter(i) \/ EndpointRefused(i) \/ BudgetRunsOut(i) \/ Send(i) \/ CancelStops(i)
           \/ \E usage \in Usages : Accept(i, usage) \/ Refuse(i, usage)
           \/ \E usage \in Usages \cup {call[i].used} : RejectOutput(i, usage)
           \/ TransientFailure(i)
           \/ \E worthy \in BOOLEAN : PermanentFailure(i, worthy)
           \/ BackoffEnds(i)
    PROVE  Inv'
<1> USE AtSlot
<1>a. "trying" \in InRoute /\ "sent" \in InRoute /\ "backoff" \in InRoute
  BY DEF InRoute
<1>b. Usages \subseteq 0 .. 1
  BY CallsAssumption
<1>c. call[i].used \in 0 .. 1 /\ call[i].retries \in 0 .. MaxRetries /\ call[i].reasks \in 0 .. MaxReasks
  BY DEF CallRecords
<1>d. MaxRetries \in Nat /\ MaxReasks \in Nat
  BY CallsAssumption
<1>1. CASE Enter(i)
  <2>1. CASE Only(i, [call[i] EXCEPT !.at = "trying", !.chain = Usable])
    <3>1. Usable \in SUBSET Places /\ Usable # {}
      <4>1. Places # {}
        <5>1. Len(RouteOrder) \in Nat \ {0}
          BY CallsAssumption, EmptySeq
        <5> QED
          BY <5>1 DEF Places
      <4> QED
        BY <4>1 DEF Usable
    <3> DEFINE c == [call[i] EXCEPT !.at = "trying", !.chain = Usable]
    <3>2. c \in CallRecords /\ c.at = "trying" /\ c.chain = Usable
      <4> HIDE DEF Usable
      <4> QED
        BY <3>1 DEF CallRecords, Ats
    <3>3. Only(i, c) /\ i \in Holding
      BY <1>1, <2>1 DEF Enter
    <3> HIDE DEF c
    <3> QED
      BY <1>a, <3>1, <3>2, <3>3, OnlyStep DEF GoodCall
  <2>2. CASE Land(i, Failed(call[i].nth), 0) /\ UNCHANGED steps
    <3>1. i \in Holding /\ 0 \in 0 .. 1
      BY <1>1 DEF Enter
    <3> QED
      BY <2>2, <3>1, FailStep
  <2> QED
    BY <1>1, <2>1, <2>2 DEF Enter
<1>2. CASE EndpointRefused(i) \/ BudgetRunsOut(i) \/ CancelStops(i)
  BY <1>2, <1>a, GiveUpStep DEF EndpointRefused, BudgetRunsOut, CancelStops
<1>3. CASE Send(i)
  <2> DEFINE c == [call[i] EXCEPT !.at = "sent"]
  <2>1. c \in CallRecords /\ c.at = "sent" /\ c.chain = call[i].chain
    BY DEF CallRecords, Ats
  <2>2. Only(i, c) /\ At(i, "trying")
    BY <1>3 DEF Send
  <2> HIDE DEF c
  <2> QED
    BY <1>a, <2>1, <2>2, OnlyStep DEF GoodCall
<1>4. ASSUME NEW usage \in Usages, Accept(i, usage)
      PROVE  Inv'
  <2>1. usage \in 0 .. 1 /\ At(i, "sent") /\ i \in Holding /\ inputs \in Inputs /\ call[i].nth \in 1 .. 2
    BY <1>4, <1>a, <1>b, Facts DEF Accept
  <2>2. CASE /\ call[i].nth < stage.calls
             /\ Land(i, [Idle EXCEPT !.at = "answered", !.nth = call[i].nth + 1], usage)
             /\ UNCHANGED steps
    <3> DEFINE c == [Idle EXCEPT !.at = "answered", !.nth = call[i].nth + 1]
    <3>1. call[i].nth + 1 \in 1 .. 2
      BY <2>1, <2>2, StageKinds DEF Inv, Shapes
    <3>2. c \in CallRecords /\ c.at = "answered"
      BY <3>1, Records
    <3>3. Land(i, c, usage) /\ steps' = steps
      BY <2>2
    <3> HIDE DEF c
    <3> QED
      BY <2>1, <3>2, <3>3, LandStep
  <2>3. CASE /\ Land(i, Done, usage)
             /\ steps' = IF stage.checkpointed THEN [steps EXCEPT ![i] = Done.result] ELSE steps
    <3>1. Done \in CallRecords /\ Done.at = "ok" /\ Done.result.of = inputs
      BY <2>1, Records
    <3> QED
      BY <2>1, <2>3, <3>1, LandStep
  <2> QED
    BY <1>4, <2>2, <2>3 DEF Accept
<1>9. ASSUME NEW usage \in Usages, Refuse(i, usage)
      PROVE  Inv'
  <2>1. usage \in 0 .. 1 /\ At(i, "sent") /\ i \in Holding /\ call[i].nth = 1
    BY <1>9, <1>a, <1>b DEF Refuse
  <2>2. Land(i, Failed(call[i].nth), usage) /\ UNCHANGED steps
    BY <1>9, <2>1 DEF Refuse
  <2> QED
    BY <2>1, <2>2, FailStep
<1>5. ASSUME NEW usage \in Usages \cup {call[i].used}, RejectOutput(i, usage)
      PROVE  Inv'
  <2>1. usage \in 0 .. 1 /\ At(i, "sent")
    BY <1>b, <1>c, <1>5 DEF RejectOutput
  <2>2. CASE /\ call[i].reasks < MaxReasks
             /\ Only(i, [call[i] EXCEPT !.at = "trying", !.reasks = @ + 1, !.used = usage])
    <3> DEFINE c == [call[i] EXCEPT !.at = "trying", !.reasks = @ + 1, !.used = usage]
    <3>1. call[i].reasks + 1 \in 0 .. MaxReasks
      BY <1>c, <1>d, <2>2
    <3>2. c \in CallRecords /\ c.at = "trying" /\ c.chain = call[i].chain
      BY <2>1, <3>1 DEF CallRecords, Ats
    <3>3. Only(i, c)
      BY <2>2
    <3> HIDE DEF c
    <3> QED
      BY <1>a, <2>1, <3>2, <3>3, OnlyStep DEF GoodCall
  <2>3. CASE Land(i, Failed(call[i].nth), usage) /\ UNCHANGED steps
    BY <1>a, <2>1, <2>3, FailStep
  <2> QED
    BY <1>5, <2>2, <2>3 DEF RejectOutput
<1>6. CASE TransientFailure(i)
  <2>1. CASE Only(i, [call[i] EXCEPT !.at = "backoff"]) /\ call[i].retries < MaxRetries
    <3> DEFINE c == [call[i] EXCEPT !.at = "backoff"]
    <3>1. c \in CallRecords /\ c.at = "backoff" /\ c.chain = call[i].chain
          /\ c.retries = call[i].retries
      BY DEF CallRecords, Ats
    <3>2. Only(i, c) /\ At(i, "sent")
      BY <1>6, <2>1 DEF TransientFailure
    <3> HIDE DEF c
    <3> QED
      BY <1>a, <2>1, <3>1, <3>2, OnlyStep DEF GoodCall
  <2>2. CASE GiveUp(i, TRUE)
    BY <1>6, <1>a, <2>2, GiveUpStep DEF TransientFailure
  <2> QED
    BY <1>6, <2>1, <2>2 DEF TransientFailure
<1>7. ASSUME NEW worthy \in BOOLEAN, PermanentFailure(i, worthy)
      PROVE  Inv'
  BY <1>7, <1>a, GiveUpStep DEF PermanentFailure
<1>8. CASE BackoffEnds(i)
  <2> DEFINE c == [call[i] EXCEPT !.at = "trying", !.retries = @ + 1]
  <2>1. At(i, "backoff") /\ Only(i, c)
    BY <1>8 DEF BackoffEnds
  <2>2. c \in CallRecords /\ c.at = "trying" /\ c.chain = call[i].chain
    <3>1. call[i].retries < MaxRetries
      BY <2>1 DEF Inv, Shapes, GoodCall, At
    <3>2. call[i].retries + 1 \in 0 .. MaxRetries
      BY <1>c, <1>d, <3>1
    <3> QED
      BY <3>2 DEF CallRecords, Ats
  <2> HIDE DEF c
  <2> QED
    BY <1>a, <2>1, <2>2, OnlyStep DEF GoodCall
<1> QED
  BY <1>1, <1>2, <1>3, <1>4, <1>5, <1>6, <1>7, <1>8, <1>9

-----------------------------------------------------------------------------
(* Asking for a call *)

\* An item gets its slot, waits for one or ends: the queue and the calls in flight.
LEMMA TakesUp ==
    ASSUME Inv, NEW i \in Index, call[i].at \in {"pending", "answered"}, NEW c \in CallRecords,
           c.at \in {"ok", "error", "queued", "entered"}, call' = [call EXCEPT ![i] = c],
           c.at = "entered" => SlotFree,
           c.at # "queued" => waiters' = waiters,
           c.at = "queued" => ~SlotFree /\ waiters' = Append(waiters, i)
    PROVE  /\ Queue'
           /\ call' \in [Index -> CallRecords] /\ call'[i] = c
           /\ \A j \in Index \ {i} : call'[j] = call[j]
           /\ c.at \in {"ok", "error"} => InFlight' = InFlight /\ Busy' \subseteq Busy
           /\ Busy' \subseteq Busy \cup {i} /\ InFlight' \subseteq Busy'
<1> USE Facts
<1>3. i \notin Holding /\ i \notin InFlight
  BY DEF Holding, InFlight, At
<1>5. call' \in [Index -> CallRecords] /\ call'[i] = c /\ \A j \in Index \ {i} : call'[j] = call[j]
  OBVIOUS
<1>7. /\ c.at \in {"ok", "error"} => Holding' = Holding /\ InFlight' = InFlight
      /\ c.at = "queued" => Holding' = Holding /\ InFlight' = InFlight \cup {i}
      /\ c.at = "entered" => Holding' = Holding \cup {i} /\ InFlight' = InFlight \cup {i}
  <2>1. \A j \in Index \ {i} : /\ j \in Holding' <=> j \in Holding
                               /\ j \in InFlight' <=> j \in InFlight
    BY <1>5 DEF Holding, InFlight, At
  <2>2. /\ i \in Holding' <=> c.at = "entered"
        /\ i \in InFlight' <=> c.at \in {"queued", "entered"}
    BY <1>5 DEF Holding, InFlight, At
  <2>3. Holding' \subseteq Index /\ InFlight' \subseteq Index
    BY DEF Holding, InFlight
  <2>4. ASSUME c.at \in {"ok", "error"} PROVE Holding' = Holding /\ InFlight' = InFlight
    <3>1. i \notin Holding' /\ i \notin InFlight'
      BY <2>2, <2>4
    <3>2. \A j \in Index : (j \in Holding' <=> j \in Holding) /\ (j \in InFlight' <=> j \in InFlight)
      BY <1>3, <2>1, <3>1
    <3> QED
      BY <2>3, <3>2, SameSet
  <2>5. ASSUME c.at = "queued" PROVE Holding' = Holding /\ InFlight' = InFlight \cup {i}
    <3>1. i \notin Holding' /\ i \in InFlight'
      BY <2>2, <2>5
    <3>2. \A j \in Index : (j \in Holding' <=> j \in Holding) /\ (j \in InFlight' <=> j \in InFlight \cup {i})
      BY <1>3, <2>1, <3>1
    <3>3. InFlight \cup {i} \in SUBSET Index
      OBVIOUS
    <3> QED
      BY <2>3, <3>2, <3>3, SameSet
  <2>6. ASSUME c.at = "entered" PROVE Holding' = Holding \cup {i} /\ InFlight' = InFlight \cup {i}
    <3>1. i \in Holding' /\ i \in InFlight'
      BY <2>2, <2>6
    <3> QED
      BY <1>3, <2>1, <2>3, <3>1
  <2> QED
    BY <2>4, <2>5, <2>6
<1>8. /\ Busy' \subseteq Busy \cup {i} /\ InFlight' \subseteq Busy'
      /\ c.at \in {"ok", "error"} => Busy' \subseteq Busy
  <2>1. \A j \in Index \ {i} : At(j, "answered")' <=> At(j, "answered")
    BY <1>5 DEF At
  <2>2. ~At(i, "answered")'
    BY <1>5 DEF At
  <2>3. InFlight' \subseteq InFlight \cup {i} /\ (c.at \in {"ok", "error"} => InFlight' = InFlight)
    BY <1>7
  <2> QED
    BY <2>1, <2>2, <2>3 DEF Busy
<1>9. Queue'
  <2>a. \A j \in Index \ {i} : At(j, "queued")' <=> At(j, "queued")
    BY <1>5 DEF At
  <2>b. At(i, "queued")' <=> c.at = "queued"
    BY <1>5 DEF At
  <2>c. ~At(i, "queued")
    BY DEF At
  <2>1. CASE c.at \in {"ok", "error"}
    <3>1. waiters' = waiters /\ Holding' = Holding /\ \A j \in Index : At(j, "queued")' <=> At(j, "queued")
      BY <1>7, <2>1, <2>a, <2>b, <2>c
    <3> QED
      BY <3>1 DEF Inv, Queue
  <2>2. CASE c.at = "entered"
    <3>1. waiters' = waiters /\ Holding' = Holding \cup {i} /\ \A j \in Index : At(j, "queued")' <=> At(j, "queued")
      BY <1>7, <2>2, <2>a, <2>b, <2>c
    <3>2. Cardinality(Holding) < Slots /\ Slots \in Nat
      BY <2>2, CallsAssumption DEF SlotFree
    <3>3. Cardinality(Holding') = Cardinality(Holding) + 1
      BY <1>3, <3>1, FiniteItems, FS_AddElement
    <3>4. waiters = <<>> /\ Cardinality(Holding') <= Slots
      BY <3>2, <3>3 DEF Inv, Queue
    <3> QED
      BY <3>1, <3>4 DEF Inv, Queue
  <2>3. CASE c.at = "queued"
    <3>1. waiters' = Append(waiters, i) /\ Holding' = Holding
      BY <1>7, <2>3
    <3>2. Cardinality(Holding) = Slots
      <4>1. Slots \in Nat
        BY CallsAssumption
      <4>2. ~(Cardinality(Holding) < Slots)
        BY <2>3 DEF SlotFree
      <4>3. Cardinality(Holding) <= Slots
        BY DEF Inv, Queue
      <4> QED
        BY <4>1, <4>2, <4>3
    <3> DEFINE n == Len(waiters)
    <3>3. /\ waiters' \in Seq(Index) /\ Len(waiters') = n + 1 /\ n \in Nat
          /\ \A k \in 1 .. n : waiters'[k] = waiters[k]
          /\ waiters'[n + 1] = i
      BY <3>1, AppendProperties
    <3>4. \A k \in 1 .. n : waiters[k] # i
      BY <2>c DEF Inv, Queue
    <3>5. \A j, k \in 1 .. n : waiters[j] = waiters[k] => j = k
      BY DEF Inv, Queue
    <3>6. \A j \in Index : At(j, "queued") <=> \E k \in 1 .. n : waiters[k] = j
      BY DEF Inv, Queue
    <3> HIDE DEF n
    <3>7. \A j, k \in 1 .. n + 1 : waiters'[j] = waiters'[k] => j = k
      BY <3>3, <3>4, <3>5, SMTT(20)
    <3>8. \A j \in Index : At(j, "queued")' <=> \E k \in 1 .. n + 1 : waiters'[k] = j
      <4>1. \A k \in 1 .. n + 1 : k \in 1 .. n \/ k = n + 1
        BY <3>3
      <4>2. \A k \in 1 .. n : k \in 1 .. n + 1
        BY <3>3
      <4>3. n + 1 \in 1 .. n + 1
        BY <3>3
      <4>4. \A j \in Index \ {i} : (\E k \in 1 .. n + 1 : waiters'[k] = j) <=> \E k \in 1 .. n : waiters[k] = j
        BY <3>3, <4>1, <4>2
      <4> QED
        BY <2>3, <2>a, <2>b, <3>3, <3>6, <4>3, <4>4
    <3>9. Slots <= Slots
      BY CallsAssumption
    <3>10. /\ waiters' \in Seq(Index)
           /\ \A j, k \in 1 .. Len(waiters') : waiters'[j] = waiters'[k] => j = k
           /\ \A j \in Index : At(j, "queued")' <=> \E k \in 1 .. Len(waiters') : waiters'[k] = j
      BY <3>3, <3>7, <3>8
    <3>11. Cardinality(Holding') = Slots
      BY <3>1, <3>2
    <3> QED
      BY <3>9, <3>10, <3>11, Zenon DEF Queue
  <2> QED
    BY <2>1, <2>2, <2>3
<1> QED
  BY <1>5, <1>7, <1>8, <1>9

\* A call that passes the gate finds the counter below the cap.
LEMMA GateArithmetic ==
    ASSUME NEW s \in Nat, NEW r \in Nat, NEW f \in Nat, NEW t \in Nat, NEW w \in Nat, NEW cap \in Nat,
           f <= w, s < cap, r <= s + t
    PROVE  r + f <= (cap + w - 1) + t
  OBVIOUS

\* The budget after an item was taken up.
LEMMA BudgetTaken ==
    ASSUME Inv, Cardinality(Busy') \in Nat, Cardinality(Busy') <= Workers,
           Cardinality(InFlight') \in Nat, Cardinality(InFlight') <= Cardinality(Busy'),
           lost' = lost, spent' = spent, receipts' = receipts,
           InFlight' = InFlight \/ spent < Cap
    PROVE  Budget'
<1> USE Facts
<1>1. PICK t \in Nat : Total(lost, t) /\ Balanced(t)
  BY DEF Inv, Budget
<1>2. Balanced(t)'
  <2>1. CASE InFlight' = InFlight
    BY <1>1, <2>1 DEF Balanced
  <2>2. CASE spent < Cap
    <3>1. receipts <= spent + t /\ Cardinality(InFlight') <= Workers
      BY <1>1 DEF Balanced
    <3>2. receipts + Cardinality(InFlight') <= (Cap + Workers - 1) + t
      BY <2>2, <3>1, GateArithmetic, Zenon
    <3> QED
      BY <3>1, <3>2 DEF Balanced, Most
  <2> QED
    BY <2>1, <2>2
<1> QED
  BY <1>1, <1>2 DEF Inv, Budget

\* What invokeStructured makes of the n-th call of an item before it has a slot.
AskedFor(i, c) ==
    /\ c \in CallRecords /\ call' = [call EXCEPT ![i] = c]
    /\ GoodCall(c) /\ c.at \in {"ok", "error", "queued", "entered"}
    /\ c.at = "ok" => c.result.of = inputs \/ c.result.stray
    /\ c.at \in {"queued", "entered"} => spent < Cap
    /\ c.at = "entered" => SlotFree
    /\ c.at # "queued" => waiters' = waiters
    /\ c.at = "queued" => ~SlotFree /\ waiters' = Append(waiters, i)

LEMMA AsksFor ==
    ASSUME Inv, NEW i \in Index, NEW n \in 1 .. 2, Asks(i, n)
    PROVE  \E c \in CallRecords : AskedFor(i, c)
<1>1. inputs \in Inputs
  BY Facts
<1>2. CASE call' = [call EXCEPT ![i] = Failed(n)] /\ waiters' = waiters
  <2>1. /\ Failed(n) \in CallRecords /\ Failed(n).at \in {"ok", "error"}
        /\ Failed(n).at = "ok" => Failed(n).result.of = inputs
    BY <1>1, Records
  <2>2. AskedFor(i, Failed(n))
    BY <1>2, <2>1 DEF AskedFor, GoodCall, InRoute
  <2> QED
    BY <2>1, <2>2
<1>3. CASE spent < Cap /\ SlotFree /\ call' = [call EXCEPT ![i] = Started(n)] /\ waiters' = waiters
  <2>1. Started(n) \in CallRecords /\ Started(n).at = "entered"
    BY Records
  <2>2. AskedFor(i, Started(n))
    BY <1>3, <2>1 DEF AskedFor, GoodCall, InRoute
  <2> QED
    BY <2>1, <2>2
<1>4. CASE /\ spent < Cap /\ ~SlotFree /\ waiters' = Append(waiters, i)
           /\ call' = [call EXCEPT ![i] = [Idle EXCEPT !.at = "queued", !.nth = n]]
  <2> DEFINE c == [Idle EXCEPT !.at = "queued", !.nth = n]
  <2>1. c \in CallRecords /\ c.at = "queued"
    BY Records
  <2>2. call' = [call EXCEPT ![i] = c]
    BY <1>4
  <2> HIDE DEF c
  <2>3. AskedFor(i, c)
    BY <1>4, <2>1, <2>2 DEF AskedFor, GoodCall, InRoute
  <2> QED
    BY <2>1, <2>3
<1> QED
  BY <1>2, <1>3, <1>4 DEF Asks

\* The steps behind the fingerprint gate are of the present inputs, or a process
\* that lost the lease stored them.
LEMMA GateIsFresh ==
    ASSUME Inv
    PROVE  /\ StepsAfterGate \in [Index -> Results]
           /\ \A i \in Index : StepsAfterGate[i].stray \/ StepsAfterGate[i].of \in {NoInputs, inputs}
           /\ \A i \in Index : StepsAfterGate[i] # NoStep =>
                 StepsAfterGate[i].of = inputs \/ StepsAfterGate[i].stray
<1> DEFINE g == StepsAfterGate
<1>1. g \in [Index -> Results] /\ NoStep \in Results
  BY Facts, Records DEF StepsAfterGate
<1>2. \A i \in Index : g[i].stray \/ g[i].of \in {NoInputs, inputs}
  <2>1. CASE stepInputs \in {NoInputs, inputs}
    <3>1. g = steps
      BY <2>1 DEF StepsAfterGate
    <3> QED
      BY <2>1, <3>1 DEF Inv, Fresh
  <2>2. CASE stepInputs \notin {NoInputs, inputs}
    <3>1. \A i \in Index : g[i] = NoStep
      BY <2>2 DEF StepsAfterGate
    <3>2. NoStep.of = NoInputs
      BY DEF NoStep
    <3> QED
      BY <3>1, <3>2
  <2> QED
    BY <2>1, <2>2
<1> HIDE DEF g
<1>3. ASSUME NEW i \in Index, g[i] # NoStep
      PROVE  g[i].of = inputs \/ g[i].stray
  <2>1. g[i] \in Results
    BY <1>1
  <2>2. g[i].of \in Inputs
    BY <1>3, <2>1 DEF Results, Step
  <2> QED
    BY <1>2, <2>2, CallsAssumption
<1> QED
  BY <1>1, <1>2, <1>3 DEF g

\* The item behind one of the batch.
LEMMA NextItem ==
    ASSUME NEW n \in Nat, NEW j \in 1 .. n
    PROVE  j + 1 \in 1 .. n + 1
  OBVIOUS

\* A worker takes the next item.
LEMMA LaunchStep ==
    ASSUME Inv, NEW i \in Index, Launch(i)
    PROVE  Inv'
<1> USE Facts
<1>1. /\ batch = "running" /\ i = next /\ Errors = {} /\ Cardinality(Busy) < Workers
      /\ next' = next + 1 /\ stage' = stage
      /\ batch' = batch /\ cooling' = cooling /\ cancelled' = cancelled /\ spent' = spent
      /\ receipts' = receipts /\ inputs' = inputs /\ lost' = lost /\ restarts' = restarts
  BY DEF Launch, WorkerFree, runVars
<1>2. call[i].at = "pending" /\ call[i] \in CallRecords
  <2>1. next <= i
    BY <1>1 DEF Index
  <2> QED
    BY <2>1 DEF Inv, Order, At
<1>3. i \notin Busy
  BY <1>2 DEF Holding, InFlight, Busy, At
<1>4. PICK c \in CallRecords : /\ AskedFor(i, c)
                               /\ cancelled => c.at \in {"ok", "error"}
  <2>1. CASE cancelled /\ call' = [call EXCEPT ![i] = Failed(1)] /\ waiters' = waiters
    <3>1. /\ Failed(1) \in CallRecords /\ Failed(1).at \in {"ok", "error"}
          /\ Failed(1).at = "ok" => Failed(1).result.of = inputs
      BY Records
    <3>2. AskedFor(i, Failed(1))
      BY <2>1, <3>1 DEF AskedFor, GoodCall, InRoute
    <3> QED
      BY <3>1, <3>2
  <2>2. CASE /\ StepsAfterGate[i] # NoStep
             /\ call' = [call EXCEPT ![i].at = "ok", ![i].result = StepsAfterGate[i]]
             /\ waiters' = waiters
    <3> DEFINE g == StepsAfterGate[i]
               c == [call[i] EXCEPT !.at = "ok", !.result = g]
    <3>1. g \in Results /\ (g.of = inputs \/ g.stray)
      BY <2>2, GateIsFresh
    <3>2. call' = [call EXCEPT ![i] = c]
      BY <2>2
    <3> HIDE DEF g
    <3>3. c \in CallRecords /\ c.at = "ok" /\ c.result = g
      BY <1>2, <3>1 DEF CallRecords, Ats
    <3> HIDE DEF c
    <3> QED
      BY <2>2, <3>1, <3>2, <3>3 DEF AskedFor, GoodCall, InRoute
  <2>3. CASE ~cancelled /\ Asks(i, 1)
    <3>1. 1 \in 1 .. 2
      OBVIOUS
    <3> QED
      BY <2>3, <3>1, AsksFor
  <2> QED
    BY <2>1, <2>2, <2>3 DEF Launch
<1>5. /\ Queue'
      /\ call' \in [Index -> CallRecords] /\ call'[i] = c
      /\ \A j \in Index \ {i} : call'[j] = call[j]
      /\ c.at \in {"ok", "error"} => InFlight' = InFlight /\ Busy' \subseteq Busy
      /\ Busy' \subseteq Busy \cup {i} /\ InFlight' \subseteq Busy'
  BY <1>2, <1>4, TakesUp DEF AskedFor
<1>6. /\ steps' \in [Index -> Results] /\ stepInputs' \in Inputs \cup {NoInputs}
      /\ \A j \in Index : steps'[j].stray \/ steps'[j].of \in {NoInputs, stepInputs'}
      /\ cancelled => stepInputs' = stepInputs /\ steps' = steps
      /\ ~cancelled /\ stage.checkpointed => stepInputs' = inputs
      /\ ~stage.checkpointed => stepInputs' = stepInputs /\ steps' = steps
  <2>1. CASE cancelled
    <3>1. steps' = steps /\ stepInputs' = stepInputs
      BY <2>1 DEF Launch
    <3> QED
      BY <2>1, <3>1 DEF Inv, Shapes, Fresh
  <2>2. CASE ~cancelled /\ stage.checkpointed
    <3>1. steps' = StepsAfterGate /\ stepInputs' = inputs
      BY <2>2 DEF Launch
    <3> QED
      BY <2>2, <3>1, GateIsFresh
  <2>3. CASE ~cancelled /\ ~stage.checkpointed
    <3>1. steps' = StepsAfterGate /\ stepInputs' = stepInputs
      BY <2>3 DEF Launch
    <3>2. StepsAfterGate = steps
      BY <2>3 DEF Inv, Fresh, StepsAfterGate
    <3> QED
      BY <2>3, <3>1, <3>2 DEF Inv, Shapes, Fresh
  <2> QED
    BY <2>1, <2>2, <2>3
<1>8. Shapes'
  <2>1. next' \in 1 .. Items + 1
    <3>1. Items \in Nat
      BY CallsAssumption
    <3> QED
      BY <1>1, <3>1, NextItem, ZenonT(20) DEF Index
  <2>2. \A j \in Index : GoodCall(call'[j])
    BY <1>4, <1>5 DEF Inv, Shapes, AskedFor
  <2> QED
    BY <1>1, <1>5, <1>6, <2>1, <2>2 DEF Inv, Shapes
<1>10. Order'
  <2>1. ASSUME NEW j \in Index PROVE At(j, "pending")' <=> next' <= j
    <3>1. CASE j = i
      BY <1>1, <1>4, <1>5, <3>1 DEF At, Index, AskedFor
    <3>2. CASE j # i
      <4>1. next \in Nat /\ j \in Nat /\ (next <= j <=> next + 1 <= j)
        BY <1>1, <3>2 DEF Index
      <4> QED
        BY <1>1, <1>5, <3>2, <4>1 DEF Inv, Order, At
    <3> QED
      BY <3>1, <3>2
  <2> QED
    BY <1>1, <2>1 DEF Order
<1>11. Budget'
  <2>1. /\ Cardinality(Busy') \in Nat /\ Cardinality(Busy') <= Workers
        /\ Cardinality(InFlight') \in Nat /\ Cardinality(InFlight') <= Cardinality(Busy')
    <3>1. IsFiniteSet(Busy \cup {i}) /\ Cardinality(Busy \cup {i}) = Cardinality(Busy) + 1
      BY <1>3, FiniteItems, FS_AddElement
    <3>2. /\ IsFiniteSet(Busy') /\ Cardinality(Busy') \in Nat
          /\ Cardinality(Busy') <= Cardinality(Busy \cup {i})
      BY <1>5, <3>1, FS_Subset, FS_CardinalityType
    <3>3. /\ Cardinality(InFlight') \in Nat /\ Cardinality(InFlight') <= Cardinality(Busy')
      BY <1>5, <3>2, FS_Subset, FS_CardinalityType
    <3> QED
      BY <1>1, <3>1, <3>2, <3>3
  <2>2. InFlight' = InFlight \/ spent < Cap
    BY <1>4, <1>5 DEF AskedFor
  <2> QED
    BY <1>1, <2>1, <2>2, BudgetTaken
<1>12. Fresh'
  <2>1. StepsAreCurrent'
    <3>1. ASSUME NEW j \in Index, At(j, "ok")'
          PROVE  call'[j].result.of = inputs' \/ call'[j].result.stray
      <4>1. CASE j = i
        BY <1>1, <1>4, <1>5, <3>1, <4>1 DEF At, AskedFor
      <4>2. CASE j # i
        BY <1>1, <1>5, <3>1, <4>2 DEF Inv, Fresh, StepsAreCurrent, At
      <4> QED
        BY <4>1, <4>2
    <3> QED
      BY <3>1 DEF StepsAreCurrent
  <2>2. stage'.checkpointed /\ Busy' # {} => stepInputs' = inputs'
    <3>1. CASE cancelled
      BY <1>1, <1>4, <1>5, <1>6, <3>1 DEF Inv, Fresh
    <3>2. CASE ~cancelled
      BY <1>1, <1>6, <3>2
    <3> QED
      BY <3>1, <3>2
  <2>3. ~stage'.checkpointed => stepInputs' = NoInputs /\ \A j \in Index : steps'[j] = NoStep
    BY <1>1, <1>6 DEF Inv, Fresh
  <2> QED
    BY <1>6, <2>1, <2>2, <2>3 DEF Fresh
<1> QED
  BY <1>5, <1>8, <1>10, <1>11, <1>12 DEF Inv

\* An item goes on to its second call.
LEMMA AskAgainStep ==
    ASSUME Inv, NEW i \in Index, AskAgain(i)
    PROVE  Inv'
<1> USE Facts
<1>1. /\ call[i].at = "answered" /\ next' = next /\ batch' = batch /\ cooling' = cooling
      /\ cancelled' = cancelled /\ spent' = spent /\ receipts' = receipts
      /\ stepInputs' = stepInputs /\ steps' = steps /\ stage' = stage /\ inputs' = inputs
      /\ lost' = lost /\ restarts' = restarts
  BY DEF AskAgain, runVars, At
<1>2. PICK c \in CallRecords : AskedFor(i, c)
  BY AsksFor DEF AskAgain
<1>3. /\ Queue'
      /\ call' \in [Index -> CallRecords] /\ call'[i] = c
      /\ \A j \in Index \ {i} : call'[j] = call[j]
      /\ c.at \in {"ok", "error"} => InFlight' = InFlight /\ Busy' \subseteq Busy
      /\ Busy' \subseteq Busy \cup {i} /\ InFlight' \subseteq Busy'
  BY <1>1, <1>2, TakesUp DEF AskedFor
<1>4. i \in Busy /\ Busy' \subseteq Busy
  BY <1>1, <1>3 DEF Busy, At
<1>5. Shapes'
  <2>1. \A j \in Index : GoodCall(call'[j])
    BY <1>2, <1>3 DEF Inv, Shapes, AskedFor
  <2> QED
    BY <1>1, <1>3, <2>1 DEF Inv, Shapes
<1>6. Order'
  <2>1. \A j \in Index : At(j, "pending")' <=> At(j, "pending")
    BY <1>1, <1>2, <1>3 DEF At, AskedFor
  <2>2. batch = "running"
    BY <1>4 DEF Inv, Order
  <2> QED
    BY <1>1, <2>1, <2>2 DEF Inv, Order
<1>7. Budget'
  <2>1. /\ Cardinality(Busy') \in Nat /\ Cardinality(Busy') <= Workers
        /\ Cardinality(InFlight') \in Nat /\ Cardinality(InFlight') <= Cardinality(Busy')
    <3>1. IsFiniteSet(Busy) /\ Cardinality(Busy) <= Workers
      BY FiniteItems DEF Inv, Budget
    <3>2. /\ IsFiniteSet(Busy') /\ Cardinality(Busy') \in Nat
          /\ Cardinality(Busy') <= Cardinality(Busy)
      BY <1>4, <3>1, FS_Subset, FS_CardinalityType
    <3>3. /\ Cardinality(InFlight') \in Nat /\ Cardinality(InFlight') <= Cardinality(Busy')
      BY <1>3, <3>2, FS_Subset, FS_CardinalityType
    <3> QED
      BY <3>1, <3>2, <3>3
  <2>2. InFlight' = InFlight \/ spent < Cap
    BY <1>2, <1>3 DEF AskedFor
  <2> QED
    BY <1>1, <2>1, <2>2, BudgetTaken
<1>8. Fresh'
  <2>1. StepsAreCurrent'
    <3>1. ASSUME NEW j \in Index, At(j, "ok")'
          PROVE  call'[j].result.of = inputs' \/ call'[j].result.stray
      <4>1. CASE j = i
        BY <1>1, <1>2, <1>3, <3>1, <4>1 DEF At, AskedFor
      <4>2. CASE j # i
        BY <1>1, <1>3, <3>1, <4>2 DEF Inv, Fresh, StepsAreCurrent, At
      <4> QED
        BY <4>1, <4>2
    <3> QED
      BY <3>1 DEF StepsAreCurrent
  <2> QED
    BY <1>1, <1>4, <2>1 DEF Inv, Fresh
<1> QED
  BY <1>3, <1>5, <1>6, <1>7, <1>8 DEF Inv

-----------------------------------------------------------------------------
(* The batch, the cooldowns and the restarts *)

\* All workers have returned.
LEMMA EndBatchStep ==
    ASSUME Inv, EndBatch
    PROVE  Inv'
<1>1. /\ Busy = {} /\ batch' = (IF Errors = {} THEN "done" ELSE "failed")
      /\ call' = call /\ next' = next /\ waiters' = waiters /\ cooling' = cooling
      /\ cancelled' = cancelled /\ spent' = spent /\ receipts' = receipts
      /\ stepInputs' = stepInputs /\ steps' = steps
      /\ inputs' = inputs /\ lost' = lost /\ restarts' = restarts
      /\ stage' = stage
  BY DEF EndBatch, runVars
<1>2. Holding' = Holding /\ InFlight' = InFlight /\ Busy' = Busy /\ Errors' = Errors
      /\ \A i \in Index : \A w \in Ats : At(i, w)' <=> At(i, w)
  BY <1>1 DEF Holding, InFlight, Busy, Errors, At
<1>3. Shapes' /\ Queue' /\ Budget' /\ Fresh'
  BY <1>1, <1>2 DEF Inv, Shapes, Queue, Budget, Balanced, Fresh, StepsAreCurrent, Ats
<1>4. Order'
  BY <1>1, <1>2 DEF Inv, Order, Ats
<1> QED
  BY <1>3, <1>4 DEF Inv

\* A cooldown ends, or the run is cancelled.
LEMMA OutsideStep ==
    ASSUME Inv, Cancel \/ \E r \in Routes : CooldownEnds(r)
    PROVE  Inv'
<1>1. /\ call' = call /\ next' = next /\ waiters' = waiters /\ batch' = batch
      /\ spent' = spent /\ receipts' = receipts
      /\ stepInputs' = stepInputs /\ steps' = steps
      /\ inputs' = inputs /\ lost' = lost /\ restarts' = restarts
      /\ stage' = stage
  BY DEF Cancel, CooldownEnds, runVars
<1>2. cooling' \subseteq Routes \ Unnamed /\ cancelled' \in BOOLEAN
  BY DEF Cancel, CooldownEnds, Inv, Shapes
<1>3. Holding' = Holding /\ InFlight' = InFlight /\ Busy' = Busy /\ Errors' = Errors
      /\ \A i \in Index : \A w \in Ats : At(i, w)' <=> At(i, w)
  BY <1>1 DEF Holding, InFlight, Busy, Errors, At
<1>4. Shapes' /\ Queue' /\ Budget' /\ Fresh' /\ Order'
  BY <1>1, <1>2, <1>3 DEF Inv, Shapes, Queue, Budget, Balanced, Fresh, Order, StepsAreCurrent, Ats
<1> QED
  BY <1>4 DEF Inv

\* A batch that has not begun.
NotBegun == call = [i \in Index |-> Idle] /\ next = 1 /\ waiters = <<>> /\ batch = "running"
Untouched == /\ Queue /\ Order /\ InFlight = {} /\ Busy = {} /\ Cardinality({}) = 0
             /\ call \in [Index -> CallRecords] /\ \A i \in Index : GoodCall(call[i])
             /\ \A i \in Index : call[i].at = "pending"

\* Nothing is in flight in a batch that has not begun.
LEMMA FreshBatch == NotBegun => Untouched
<1> SUFFICES ASSUME NotBegun PROVE Untouched
  OBVIOUS
<1> USE DEF NotBegun, Untouched
<1>1. \A i \in Index : call[i] = Idle /\ call[i].at = "pending"
  BY Records
<1>2. Holding = {} /\ InFlight = {} /\ Busy = {}
  BY <1>1 DEF Holding, InFlight, Busy, At
<1>3. Cardinality({}) = 0 /\ 0 <= Slots
  BY FS_EmptySet, CallsAssumption
<1>4. Queue
  <2>1. waiters \in Seq(Index) /\ Len(waiters) = 0
    BY EmptySeq
  <2> QED
    BY <1>1, <1>2, <1>3, <2>1 DEF Queue, At
<1>5. Order
  BY <1>1, <1>2 DEF Order, At, Index
<1>6. call \in [Index -> CallRecords] /\ \A i \in Index : GoodCall(call[i])
  BY <1>1, Records DEF GoodCall, InRoute
<1> QED
  BY <1>1, <1>2, <1>3, <1>4, <1>5, <1>6

LEMMA FreshBatchNext == NotBegun' => Untouched'
  BY FreshBatch, PTL

-----------------------------------------------------------------------------
(* The processes that lost the lease *)

\* One of them spends u more.
LEMMA TotalUpdate ==
    ASSUME NEW l \in Seq(Lost), NEW k \in 1 .. Len(l), NEW p \in Lost, NEW u \in Nat,
           p.late = l[k].late + u, NEW t \in Nat, Total(l, t)
    PROVE  Total([l EXCEPT ![k] = p], t + u)
<1> DEFINE m == [l EXCEPT ![k] = p]
           n == Len(l)
<1>1. n \in Nat /\ Len(m) = n /\ m[k] = p /\ \A j \in 1 .. n : j # k => m[j] = l[j]
  BY LenProperties
<1>2. \A j \in 1 .. n : l[j].late \in Nat
  BY ElementOfSeq, LostFields
<1>3. PICK s \in [0 .. n -> Nat] : IsTally(s, l) /\ s[n] = t
  BY DEF Total
<1> HIDE DEF m, n
<1> DEFINE z == [j \in 0 .. n |-> IF j < k THEN s[j] ELSE s[j] + u]
<1>4. z \in [0 .. n -> Nat] /\ \A j \in 0 .. n : z[j] = IF j < k THEN s[j] ELSE s[j] + u
  OBVIOUS
<1>5. k \in 1 .. n /\ 0 \in 0 .. n /\ n \in 0 .. n /\ 0 < k /\ ~(n < k)
  BY <1>1 DEF n
<1> HIDE DEF z
<1>6. z[0] = 0 /\ z[n] = t + u
  BY <1>3, <1>4, <1>5 DEF IsTally
<1>7. ASSUME NEW j \in 1 .. n PROVE z[j] = z[j - 1] + m[j].late
  <2>1. j \in 0 .. n /\ j - 1 \in 0 .. n /\ s[j] \in Nat /\ s[j - 1] \in Nat
    BY <1>1, <1>3
  <2>2. s[j] = s[j - 1] + l[j].late
    BY <1>3 DEF IsTally, n
  <2>3. CASE j < k
    <3>1. z[j] = s[j] /\ z[j - 1] = s[j - 1] /\ m[j] = l[j]
      BY <1>1, <1>4, <1>5, <2>1, <2>3
    <3> QED
      BY <2>2, <3>1
  <2>4. CASE j = k
    <3>1. z[j] = s[j] + u /\ z[j - 1] = s[j - 1] /\ m[j].late = l[j].late + u
      BY <1>1, <1>4, <1>5, <2>1, <2>4
    <3>2. l[j].late \in Nat
      BY <1>2
    <3> QED
      BY <2>1, <2>2, <3>1, <3>2
  <2>5. CASE k < j
    <3>1. z[j] = s[j] + u /\ z[j - 1] = s[j - 1] + u /\ m[j] = l[j]
      BY <1>1, <1>4, <1>5, <2>1, <2>5
    <3>2. l[j].late \in Nat
      BY <1>2
    <3> QED
      BY <2>1, <2>2, <3>1, <3>2, SMTT(20)
  <2> QED
    BY <1>5, <2>3, <2>4, <2>5
<1>8. IsTally(z, m)
  BY <1>1, <1>4, <1>6, <1>7 DEF IsTally
<1>9. Total(m, t + u)
  BY <1>1, <1>4, <1>6, <1>8 DEF Total
<1> QED
  BY <1>9 DEF m

\* One more loses the lease, and has spent nothing since.
LEMMA TotalAppend ==
    ASSUME NEW l \in Seq(Lost), NEW p \in Lost, p.late = 0, NEW t \in Nat, Total(l, t)
    PROVE  Total(Append(l, p), t)
<1> DEFINE m == Append(l, p)
           n == Len(l)
<1>1. n \in Nat /\ Len(m) = n + 1 /\ m[n + 1] = p /\ \A j \in 1 .. n : m[j] = l[j]
  BY LenProperties, AppendProperties
<1>2. PICK s \in [0 .. n -> Nat] : IsTally(s, l) /\ s[n] = t
  BY DEF Total
<1> HIDE DEF m, n
<1> DEFINE z == [j \in 0 .. n + 1 |-> IF j <= n THEN s[j] ELSE t]
<1>3. /\ z \in [0 .. n + 1 -> Nat] /\ z[n + 1] = t
      /\ \A j \in 0 .. n : z[j] = s[j]
  BY <1>1
<1> HIDE DEF z
<1>4. z[0] = 0
  BY <1>1, <1>2, <1>3 DEF IsTally
<1>5. ASSUME NEW j \in 1 .. n + 1 PROVE z[j] = z[j - 1] + m[j].late
  <2>1. CASE j <= n
    <3>1. j \in 1 .. n /\ j \in 0 .. n /\ j - 1 \in 0 .. n
      BY <1>1, <2>1
    <3>2. s[j] = s[j - 1] + l[j].late
      BY <1>2, <3>1 DEF IsTally, n
    <3> QED
      BY <1>1, <1>3, <3>1, <3>2
  <2>2. CASE j = n + 1
    <3>1. j - 1 = n /\ n \in 0 .. n
      BY <1>1, <2>2
    <3> QED
      BY <1>1, <1>2, <1>3, <2>2, <3>1
  <2> QED
    BY <1>1, <2>1, <2>2
<1>6. IsTally(z, m)
  BY <1>1, <1>3, <1>4, <1>5 DEF IsTally
<1>7. Total(m, t)
  BY <1>1, <1>3, <1>6 DEF Total
<1> QED
  BY <1>7 DEF m

\* Together they spend no more than the most of each, times their number.
LEMMA TotalBound ==
    ASSUME NEW l \in Seq(Lost), NEW most \in Nat, \A k \in 1 .. Len(l) : l[k].late <= most,
           NEW t \in Nat, Total(l, t)
    PROVE  t <= Len(l) * most
<1> DEFINE n == Len(l)
<1>1. n \in Nat /\ \A k \in 1 .. n : l[k].late \in Nat
  BY LenProperties, ElementOfSeq, LostFields
<1>2. PICK s \in [0 .. n -> Nat] : IsTally(s, l) /\ s[n] = t
  BY DEF Total
<1>3. s[0] = 0 /\ \A k \in 1 .. n : s[k] = s[k - 1] + l[k].late /\ l[k].late <= most
  BY <1>2 DEF IsTally
<1> HIDE DEF n
<1> DEFINE S == {k \in 0 .. n : ~(s[k] <= k * most)}
<1>4. S = {}
  <2> SUFFICES ASSUME S # {} PROVE FALSE
    OBVIOUS
  <2>1. S \in SUBSET Nat
    BY <1>1
  <2>2. PICK c \in S : \A e \in S : c <= e
    BY <2>1, LeastExists
  <2>3. c \in 0 .. n /\ ~(s[c] <= c * most) /\ c \in Nat
    BY <1>1, <2>2
  <2>4. c # 0
    BY <1>3, <2>3
  <2>5. c \in 1 .. n /\ c - 1 \in 0 .. n /\ ~(c <= c - 1)
    BY <1>1, <2>3, <2>4
  <2>6. s[c - 1] <= (c - 1) * most
    BY <2>2, <2>5
  <2>7. s[c] = s[c - 1] + l[c].late /\ l[c].late <= most /\ l[c].late \in Nat
    BY <1>1, <1>3, <2>5
  <2>8. s[c - 1] \in Nat /\ (c - 1) * most \in Int /\ c * most = (c - 1) * most + most
    BY <1>2, <2>3, <2>5
  <2>9. ASSUME NEW a \in Nat, NEW b \in Nat, NEW d \in Int, a <= d, b <= most
        PROVE  a + b <= d + most
    BY <2>9
  <2>10. s[c] <= c * most
    BY <2>6, <2>7, <2>8, <2>9
  <2> QED
    BY <2>3, <2>10
<1>5. n \in 0 .. n
  BY <1>1
<1> HIDE DEF S
<1>6. s[n] <= n * most
  BY <1>4, <1>5 DEF S
<1> QED
  BY <1>2, <1>6 DEF n

\* What a process has left when it loses the lease.
LEMMA LeftBehind ==
    ASSUME Inv, NEW going \in SUBSET Busy, NEW open \in BOOLEAN
    PROVE  LET left == [of |-> inputs, next |-> next, open |-> open,
                        flight |-> {[item |-> i, nth |-> call[i].nth] : i \in going},
                        spent |-> spent, late |-> 0]
           IN  left \in Lost /\ left.late = 0 /\ GoodLost(left)
<1> USE Facts
<1> DEFINE flight == {[item |-> i, nth |-> call[i].nth] : i \in going}
<1>1. flight \subseteq Flight
  BY DEF Flight
<1>2. IsFiniteSet(flight) /\ Cardinality(flight) \in Nat /\ Cardinality(flight) <= Workers
  <2> DEFINE f == [i \in going |-> [item |-> i, nth |-> call[i].nth]]
  <2>1. f \in Surjection(going, flight)
    BY DEF Surjection
  <2>2. IsFiniteSet(Busy) /\ Cardinality(Busy) <= Workers
    BY FiniteItems DEF Inv, Budget
  <2>3. IsFiniteSet(going) /\ Cardinality(going) <= Cardinality(Busy) /\ Cardinality(going) \in Nat
    BY <2>2, FS_Subset, FS_CardinalityType
  <2> HIDE DEF f, flight
  <2>4. IsFiniteSet(flight) /\ Cardinality(flight) <= Cardinality(going) /\ Cardinality(flight) \in Nat
    BY <2>1, <2>3, FS_Surjection, FS_CardinalityType
  <2> QED
    BY <2>2, <2>3, <2>4
<1> HIDE DEF flight
<1> DEFINE left == [of |-> inputs, next |-> next, open |-> open, flight |-> flight,
                    spent |-> spent, late |-> 0]
<1>3. left \in Lost /\ left.late = 0 /\ left.flight = flight
  <2>1. next \in 1 .. Items + 1
    BY DEF Inv, Shapes
  <2> QED
    BY <1>1, <2>1 DEF Lost
<1> HIDE DEF left
<1>4. GoodLost(left)
  BY <1>2, <1>3 DEF GoodLost
<1> QED
  BY <1>3, <1>4 DEF left, flight

\* One place more.
LEMMA OneMore == \A n \in Nat : \A k \in 1 .. n + 1 : k \in 1 .. n \/ k = n + 1
  OBVIOUS

\* The run is executed again; the process that had it is gone, or one of the lost.
LEMMA ExecuteStep ==
    ASSUME Inv, Execute, cooling' \subseteq Routes \ Unnamed, NEW left \in Lost,
           left.late = 0, GoodLost(left), lost' = lost \/ lost' = Append(lost, left)
    PROVE  Inv'
<1> USE Facts
<1>1. /\ restarts' = restarts + 1 /\ restarts < MaxRestarts /\ call' = [i \in Index |-> Idle] /\ next' = 1
      /\ batch' = "running" /\ waiters' = <<>> /\ cancelled' = FALSE /\ spent' = receipts
      /\ inputs' \in Inputs /\ receipts' = receipts /\ stepInputs' = stepInputs /\ steps' = steps
      /\ stage' = stage
  BY DEF Execute
<1>2. /\ Queue' /\ Order' /\ InFlight' = {} /\ Busy' = {} /\ Cardinality({}) = 0
      /\ call' \in [Index -> CallRecords] /\ \A i \in Index : GoodCall(call'[i])
      /\ \A i \in Index : call'[i].at = "pending"
  BY <1>1, FreshBatchNext DEF NotBegun, Untouched
<1>3. PICK t \in Nat : Total(lost, t) /\ Balanced(t)
  BY DEF Inv, Budget
<1>4. /\ lost' \in Seq(Lost) /\ Total(lost', t)
      /\ \A k \in 1 .. Len(lost') : GoodLost(lost'[k])
  <2>1. CASE lost' = lost
    BY <1>3, <2>1 DEF Inv, Budget
  <2>2. CASE lost' = Append(lost, left)
    <3>1. /\ lost' \in Seq(Lost) /\ Len(lost') = Len(lost) + 1 /\ lost'[Len(lost) + 1] = left
          /\ \A k \in 1 .. Len(lost) : lost'[k] = lost[k]
      BY <2>2, AppendProperties
    <3>2. \A k \in 1 .. Len(lost) + 1 : k \in 1 .. Len(lost) \/ k = Len(lost) + 1
      <4>1. Len(lost) \in Nat
        OBVIOUS
      <4> QED
        BY <4>1, OneMore, Zenon
    <3>3. \A k \in 1 .. Len(lost) : GoodLost(lost[k])
      BY DEF Inv, Budget
    <3>4. \A k \in 1 .. Len(lost') : GoodLost(lost'[k])
      BY <3>1, <3>2, <3>3
    <3>5. Total(Append(lost, left), t)
      BY <1>3, TotalAppend
    <3> QED
      BY <2>2, <3>1, <3>4, <3>5
  <2> QED
    BY <2>1, <2>2
<1>5. Shapes'
  <2>1. restarts' \in 0 .. MaxRestarts /\ next' \in 1 .. Items + 1
    <3>1. MaxRestarts \in Nat /\ Items \in Nat
      BY CallsAssumption
    <3> QED
      BY <1>1, <3>1
  <2> QED
    BY <1>1, <1>2, <1>4, <2>1 DEF Inv, Shapes
<1>6. Budget'
  <2>1. receipts + Cardinality(InFlight) <= Most + t
    BY <1>3 DEF Balanced
  <2>2. receipts <= receipts + t /\ receipts + 0 <= Most + t /\ 0 <= Workers
    BY <2>1
  <2>3. Balanced(t)'
    BY <1>1, <1>2, <2>2 DEF Balanced, Most
  <2> QED
    BY <1>2, <1>4, <2>2, <2>3 DEF Budget
<1>7. Fresh'
  BY <1>1, <1>2 DEF Inv, Fresh, StepsAreCurrent, At
<1> QED
  BY <1>2, <1>5, <1>6, <1>7 DEF Inv

\* A set grows by at most the element that is added.
LEMMA Added ==
    ASSUME NEW S, IsFiniteSet(S), NEW x
    PROVE  /\ IsFiniteSet(S \cup {x}) /\ Cardinality(S \cup {x}) \in Nat
           /\ Cardinality(S \cup {x}) <= Cardinality(S) + 1
<1>1. IsFiniteSet(S \cup {x}) /\ Cardinality(S) \in Nat /\ Cardinality(S \cup {x}) \in Nat
  BY FS_AddElement, FS_CardinalityType
<1>2. CASE x \in S
  <2>1. S \cup {x} = S
    BY <1>2
  <2>2. Cardinality(S) <= Cardinality(S) + 1
    BY <1>1
  <2> QED
    BY <1>1, <2>1, <2>2
<1>3. CASE x \notin S
  <2>1. Cardinality(S \cup {x}) = Cardinality(S) + 1
    BY <1>3, FS_AddElement
  <2> QED
    BY <1>1, <2>1
<1> QED
  BY <1>2, <1>3

\* Sums of natural numbers are natural numbers.
LEMMA NatSum == \A a, b \in Nat : a + b \in Nat
  OBVIOUS

\* One of the lost processes takes a step.
LEMMA LostStep ==
    ASSUME Inv, NEW k \in 1 .. Len(lost), NEW p \in Lost, NEW u \in Nat,
           p.late = lost[k].late + u, GoodLost(p), lost' = [lost EXCEPT ![k] = p],
           receipts' = receipts + u, steps' \in [Index -> Results],
           \A i \in Index : steps'[i].stray \/ steps'[i].of \in {NoInputs, stepInputs},
           ~stage.checkpointed => steps' = steps,
           UNCHANGED <<stage, call, next, batch, waiters, cooling, cancelled, spent,
                       inputs, stepInputs, restarts>>
    PROVE  Inv'
<1> USE Facts
<1>1. /\ call' = call /\ next' = next /\ waiters' = waiters /\ cooling' = cooling /\ batch' = batch
      /\ cancelled' = cancelled /\ spent' = spent /\ stage' = stage
      /\ stepInputs' = stepInputs /\ inputs' = inputs /\ restarts' = restarts
  OBVIOUS
<1>2. Holding' = Holding /\ InFlight' = InFlight /\ Busy' = Busy /\ Errors' = Errors
      /\ \A i \in Index : \A w \in Ats : At(i, w)' <=> At(i, w)
  BY <1>1 DEF Holding, InFlight, Busy, Errors, At
<1>3. /\ lost' \in Seq(Lost) /\ Len(lost') = Len(lost) /\ lost'[k] = p
      /\ \A j \in 1 .. Len(lost) : j # k => lost'[j] = lost[j]
  BY LenProperties
<1>4. Shapes'
  <2>1. receipts' \in Nat
    BY NatSum, ZenonT(20)
  <2> QED
    BY <1>1, <1>3, <2>1 DEF Inv, Shapes
<1>5. Queue' /\ Order'
  BY <1>1, <1>2 DEF Inv, Queue, Order, Ats
<1>6. Fresh'
  BY <1>1, <1>2 DEF Inv, Fresh, StepsAreCurrent, Ats
<1>7. Budget'
  <2>1. PICK t \in Nat : Total(lost, t) /\ Balanced(t)
    BY DEF Inv, Budget
  <2>2. Total(lost', t + u) /\ t + u \in Nat
    <3>1. Total([lost EXCEPT ![k] = p], t + u)
      BY <2>1, TotalUpdate
    <3> QED
      BY <3>1
  <2>3. \A j \in 1 .. Len(lost') : GoodLost(lost'[j])
    BY <1>3 DEF Inv, Budget
  <2>4. receipts <= spent + t /\ receipts + Cardinality(InFlight) <= Most + t
    BY <2>1 DEF Balanced
  <2>5. receipts + u <= spent + (t + u) /\ (receipts + u) + Cardinality(InFlight) <= Most + (t + u)
    <3>1. /\ receipts \in Nat /\ spent \in Nat /\ Most \in Nat
          /\ Cardinality(InFlight) \in Nat
      OBVIOUS
    <3>2. ASSUME NEW a \in Nat, NEW d \in Nat, NEW f \in Nat, NEW m \in Nat, a <= d + t, a + f <= m + t
          PROVE  a + u <= d + (t + u) /\ (a + u) + f <= m + (t + u)
      BY <3>2
    <3> QED
      BY <2>4, <3>1, <3>2, Zenon
  <2>6. Balanced(t + u)'
    BY <1>1, <1>2, <2>5 DEF Balanced, Most
  <2> QED
    BY <1>2, <2>2, <2>3, <2>6 DEF Inv, Budget
<1> QED
  BY <1>4, <1>5, <1>6, <1>7 DEF Inv

\* A lost process launches an item, or launches no more.
LEMMA StrayLaunchStep ==
    ASSUME Inv, NEW k \in 1 .. Len(lost), StrayLaunches(k)
    PROVE  Inv'
<1> USE Facts
<1> DEFINE o == lost[k]
<1>1. o \in Lost /\ GoodLost(o)
  BY ElementOfSeq DEF Inv, Budget
<1>2. /\ o.open /\ o.next <= Items /\ Cardinality(o.flight) < Workers
      /\ UNCHANGED <<stage, call, next, batch, waiters, cooling, cancelled, spent,
                     receipts, inputs, stepInputs, steps, restarts>>
  BY DEF StrayLaunches
<1>3. /\ 0 \in Nat /\ receipts' = receipts + 0 /\ steps' \in [Index -> Results]
      /\ \A i \in Index : steps'[i].stray \/ steps'[i].of \in {NoInputs, stepInputs}
      /\ steps' = steps
  BY <1>2 DEF Inv, Fresh
<1>4. /\ o.next \in 1 .. Items + 1 /\ o.spent \in Nat /\ o.late \in Nat /\ o.flight \subseteq Flight
      /\ IsFiniteSet(o.flight) /\ Cardinality(o.flight) \in Nat /\ o.late = o.late + 0
  <2>1. IsFiniteSet(o.flight) /\ Cardinality(o.flight) \in Nat
    BY <1>1, FS_CardinalityType DEF GoodLost
  <2>2. o.late \in Nat /\ o.late = o.late + 0
    BY <1>1, LostFields
  <2> QED
    BY <1>1, <2>1, <2>2, LostFields
<1>5. CASE /\ o.spent + o.late < Cap
           /\ lost' = [lost EXCEPT ![k].next = @ + 1,
                                   ![k].flight = @ \cup {[item |-> o.next, nth |-> 1]}]
  <2> DEFINE c == [item |-> o.next, nth |-> 1]
             p == [o EXCEPT !.next = @ + 1, !.flight = @ \cup {c}]
  <2>1. c \in Flight /\ o.next + 1 \in 1 .. Items + 1
    <3>1. Items \in Nat
      BY CallsAssumption
    <3>2. o.next \in 1 .. Items /\ o.next + 1 \in 1 .. Items + 1
      <4>1. ASSUME NEW a \in 1 .. Items + 1, a <= Items PROVE a \in 1 .. Items /\ a + 1 \in 1 .. Items + 1
        BY <3>1, <4>1
      <4> QED
        BY <1>2, <1>4, <4>1, Zenon
    <3> QED
      BY <3>2 DEF Flight, Index
  <2>2. lost' = [lost EXCEPT ![k] = p]
    BY <1>5
  <2> HIDE DEF c
  <2>3. p \in Lost /\ p.late = o.late /\ p.flight = o.flight \cup {c}
    BY <1>1, <1>4, <2>1 DEF Lost
  <2> HIDE DEF p
  <2>4. /\ IsFiniteSet(o.flight \cup {c}) /\ Cardinality(o.flight \cup {c}) \in Nat
        /\ Cardinality(o.flight \cup {c}) <= Cardinality(o.flight) + 1
    BY <1>4, Added
  <2>5. GoodLost(p)
    <3> DEFINE f == Cardinality(o.flight \cup {c})
    <3>1. ASSUME NEW a \in Nat, NEW d \in Nat, NEW e \in Nat, NEW g \in Nat,
                 e < Workers, g <= e + 1, d + a < Cap
          PROVE  g <= Workers /\ a + g <= Cap + Workers - 1
      BY <3>1, SMTT(20)
    <3>2. f <= Workers /\ o.late + f <= Cap + Workers - 1
      BY <1>2, <1>4, <1>5, <2>4, <3>1, Zenon
    <3> QED
      BY <2>3, <2>4, <3>2 DEF GoodLost, Most
  <2>6. p.late = lost[k].late + 0
    BY <1>4, <2>3
  <2> QED
    BY <1>2, <1>3, <2>2, <2>3, <2>5, <2>6, LostStep
<1>6. CASE lost' = [lost EXCEPT ![k].open = FALSE]
  <2> DEFINE p == [o EXCEPT !.open = FALSE]
  <2>1. p \in Lost /\ p.late = o.late /\ p.flight = o.flight
    BY <1>1 DEF Lost
  <2>2. lost' = [lost EXCEPT ![k] = p]
    BY <1>6
  <2> HIDE DEF p
  <2>3. GoodLost(p) /\ p.late = lost[k].late + 0
    BY <1>1, <1>4, <2>1 DEF GoodLost
  <2> QED
    BY <1>2, <1>3, <2>1, <2>2, <2>3, LostStep
<1> QED
  BY <1>5, <1>6 DEF StrayLaunches

\* A call of a lost process lands: it brings at most the unit that was reserved for
\* it, and the item's next call finds that process's counter below the cap.
LEMMA StrayLandStep ==
    ASSUME Inv, NEW k \in 1 .. Len(lost), NEW c \in lost[k].flight, NEW usage \in Usages \cup {0},
           NEW valid \in BOOLEAN, StrayLands(k, c, usage, valid)
    PROVE  Inv'
<1> USE Facts
<1> DEFINE o == lost[k]
           again == valid /\ c.nth < stage.calls /\ o.spent + o.late + usage < Cap
           more == IF again THEN {[c EXCEPT !.nth = @ + 1]} ELSE {}
           stored == [of |-> o.of, stray |-> TRUE]
           p == [o EXCEPT !.flight = (o.flight \ {c}) \cup more, !.late = @ + usage,
                          !.open = @ /\ (valid \/ c.nth > 1)]
<1>1. o \in Lost /\ GoodLost(o) /\ c \in o.flight
  BY ElementOfSeq DEF Inv, Budget
<1>2. /\ receipts' = receipts + usage /\ lost' = [lost EXCEPT ![k] = p]
      /\ steps' = IF valid /\ stage.checkpointed THEN [steps EXCEPT ![c.item] = stored] ELSE steps
      /\ UNCHANGED <<stage, call, next, batch, waiters, cooling, cancelled, spent,
                     inputs, stepInputs, restarts>>
  BY DEF StrayLands
<1>3. usage \in 0 .. 1 /\ usage \in Nat
  <2>1. Usages \subseteq 0 .. 1 /\ 0 \in 0 .. 1
    BY CallsAssumption
  <2>2. usage \in 0 .. 1
    BY <2>1
  <2> QED
    BY <2>2
<1>4. /\ o.spent \in Nat /\ o.late \in Nat /\ o.of \in Inputs /\ o.flight \subseteq Flight
      /\ o.open \in BOOLEAN /\ c \in Flight /\ c.item \in Index /\ c.nth \in 1 .. 2
      /\ IsFiniteSet(o.flight) /\ Cardinality(o.flight) \in Nat
      /\ Cardinality(o.flight) <= Workers /\ o.late + Cardinality(o.flight) <= Most
  BY <1>1, FS_CardinalityType DEF Lost, GoodLost, Flight
<1>5. more \subseteq Flight
  <2>1. again => c.nth + 1 \in 1 .. 2
    BY <1>4, StageKinds DEF Inv, Shapes
  <2> QED
    BY <1>4, <2>1 DEF Flight
<1>6. /\ steps' \in [Index -> Results]
      /\ \A i \in Index : steps'[i].stray \/ steps'[i].of \in {NoInputs, stepInputs}
      /\ ~stage.checkpointed => steps' = steps
  <2>1. stored \in Results /\ stored.stray
    BY <1>4 DEF Results, Step
  <2> HIDE DEF stored
  <2> QED
    BY <1>2, <1>4, <2>1 DEF Inv, Fresh
<1>7. Cardinality(o.flight \ {c}) = Cardinality(o.flight) - 1 /\ IsFiniteSet(o.flight \ {c})
  BY <1>1, <1>4, FS_RemoveElement
<1> HIDE DEF o
<1>8. /\ IsFiniteSet((o.flight \ {c}) \cup more)
      /\ Cardinality((o.flight \ {c}) \cup more) \in Nat
      /\ Cardinality((o.flight \ {c}) \cup more) <= Cardinality(o.flight)
      /\ ~again => Cardinality((o.flight \ {c}) \cup more) = Cardinality(o.flight) - 1
  <2>1. CASE again
    <3> DEFINE d == [c EXCEPT !.nth = @ + 1]
    <3>1. more = {d}
      BY <2>1
    <3> HIDE DEF d, again, more
    <3>2. /\ IsFiniteSet((o.flight \ {c}) \cup {d})
          /\ Cardinality((o.flight \ {c}) \cup {d}) \in Nat
          /\ Cardinality((o.flight \ {c}) \cup {d}) <= Cardinality(o.flight \ {c}) + 1
      BY <1>7, Added
    <3>3. (Cardinality(o.flight) - 1) + 1 = Cardinality(o.flight)
      BY <1>4
    <3> QED
      BY <1>7, <2>1, <3>1, <3>2, <3>3
  <2>2. CASE ~again
    <3>1. (o.flight \ {c}) \cup more = o.flight \ {c}
      BY <2>2
    <3> HIDE DEF again, more
    <3>2. Cardinality(o.flight \ {c}) \in Nat
      BY <1>7, FS_CardinalityType
    <3>3. Cardinality(o.flight) - 1 <= Cardinality(o.flight)
      BY <1>4
    <3> QED
      BY <1>7, <2>2, <3>1, <3>2, <3>3
  <2> QED
    BY <2>1, <2>2
<1>9. again => o.late + usage < Cap
  <2>1. ASSUME NEW a \in Nat, NEW d \in Nat, a + d + usage < Cap PROVE d + usage < Cap
    BY <1>3, <2>1, SMTT(20)
  <2> QED
    BY <1>4, <2>1
<1> HIDE DEF more, again
<1>10. /\ p \in Lost /\ p.late = o.late + usage /\ p.flight = (o.flight \ {c}) \cup more
  <2>1. (o.open /\ (valid \/ c.nth > 1)) \in BOOLEAN
    OBVIOUS
  <2>2. (o.flight \ {c}) \cup more \subseteq Flight
    BY <1>4, <1>5, Zenon
  <2>3. o.late + usage \in Nat
    <3>1. ASSUME NEW a \in Nat PROVE a + usage \in Nat
      BY <1>3
    <3> QED
      BY <1>4, <3>1, Zenon
  <2> QED
    BY <1>1, <2>1, <2>2, <2>3 DEF Lost
<1> HIDE DEF p
<1>11. GoodLost(p)
  <2> DEFINE f == Cardinality((o.flight \ {c}) \cup more)
  <2>1. f \in Nat /\ f <= Cardinality(o.flight) /\ (~again => f = Cardinality(o.flight) - 1)
    BY <1>8
  <2> HIDE DEF f
  <2>2. f <= Workers
    BY <1>4, <2>1
  <2>3. (o.late + usage) + f <= Most
    <3> DEFINE q == o.late + usage
    <3>1. q \in Nat /\ (again => q < Cap)
      <4>1. ASSUME NEW a \in Nat PROVE a + usage \in Nat
        BY <1>3
      <4>2. o.late + usage \in Nat
        BY <1>4, <4>1, Zenon
      <4> QED
        BY <1>9, <4>2
    <3>2. CASE again
      <4>1. ASSUME NEW a \in Nat, a < Cap PROVE a + f <= Cap + Workers - 1
        BY <2>1, <2>2, <4>1, SMTT(20)
      <4>2. (o.late + usage) + f <= Cap + Workers - 1
        BY <3>1, <3>2, <4>1, Zenon
      <4> QED
        BY <4>2 DEF Most
    <3>3. CASE ~again
      <4>1. ASSUME NEW a \in Nat, NEW d \in Nat, a + d <= Most PROVE (a + usage) + (d - 1) <= Most
        BY <1>3, <4>1, SMTT(20)
      <4>2. (o.late + usage) + (Cardinality(o.flight) - 1) <= Most
        BY <1>4, <4>1, Zenon
      <4> QED
        BY <2>1, <3>3, <4>2
    <3> QED
      BY <3>2, <3>3
  <2> QED
    BY <1>8, <1>10, <2>2, <2>3 DEF GoodLost, f
<1> QED
  BY <1>2, <1>3, <1>6, <1>10, <1>11, LostStep DEF o

-----------------------------------------------------------------------------
(* The theorems *)

\* The first execution satisfies the invariant.
LEMMA InitInv == Init => Inv
<1> SUFFICES ASSUME Init PROVE Inv
  OBVIOUS
<1>1. Untouched
  BY FreshBatch DEF Init, NotBegun
<1>2. 1 \in 1 .. Items + 1 /\ 0 \in 0 .. MaxRestarts /\ Workers \in Nat /\ Cap \in Nat \ {0}
  BY CallsAssumption
<1>3. \A i \in Index : steps[i] = NoStep /\ steps[i].of = NoInputs
  BY DEF Init, NoStep
<1>4. steps \in [Index -> Results]
  BY Records DEF Init
<1>5. Shapes
  <2>1. <<>> \in Seq(Lost)
    BY EmptySeq
  <2> QED
    BY <1>1, <1>2, <1>4, <2>1 DEF Init, Untouched, Shapes
<1>6. Budget
  <2>1. lost \in Seq(Lost) /\ Len(lost) = 0
    BY EmptySeq DEF Init
  <2>2. Total(lost, 0)
    <3> DEFINE z == [j \in 0 .. 0 |-> 0]
    <3>1. z \in [0 .. 0 -> Nat] /\ z[0] = 0
      OBVIOUS
    <3> HIDE DEF z
    <3>2. IsTally(z, lost)
      BY <2>1, <3>1 DEF IsTally
    <3> QED
      BY <2>1, <3>1, <3>2 DEF Total
  <2>3. 0 <= 0 + 0 /\ 0 + 0 <= (Cap + Workers - 1) + 0 /\ 0 <= Workers
    BY <1>2
  <2>4. Balanced(0)
    BY <1>1, <2>3 DEF Init, Untouched, Balanced, Most
  <2> QED
    BY <1>1, <2>1, <2>2, <2>3, <2>4 DEF Untouched, Budget
<1>7. Fresh
  BY <1>1, <1>3 DEF Init, Untouched, Fresh, StepsAreCurrent, At
<1> QED
  BY <1>1, <1>5, <1>6, <1>7 DEF Untouched, Inv

\* Every step keeps the invariant.
LEMMA NextInv == Inv /\ [Next]_vars => Inv'
<1> SUFFICES ASSUME Inv, [Next]_vars PROVE Inv'
  OBVIOUS
<1>1. CASE UNCHANGED vars
  <2>1. /\ stage' = stage /\ call' = call /\ next' = next /\ batch' = batch /\ waiters' = waiters
        /\ cooling' = cooling /\ cancelled' = cancelled /\ spent' = spent /\ receipts' = receipts
        /\ inputs' = inputs /\ stepInputs' = stepInputs /\ steps' = steps /\ lost' = lost
        /\ restarts' = restarts
    BY <1>1 DEF vars
  <2>2. Holding' = Holding /\ InFlight' = InFlight /\ Busy' = Busy /\ Errors' = Errors
        /\ \A i \in Index : \A w \in Ats : At(i, w)' <=> At(i, w)
    BY <2>1 DEF Holding, InFlight, Busy, Errors, At
  <2>3. Shapes' /\ Queue' /\ Order'
    BY <2>1, <2>2 DEF Inv, Shapes, Queue, Order, Ats
  <2>4. Budget' /\ Fresh'
    BY <2>1, <2>2 DEF Inv, Budget, Balanced, Fresh, StepsAreCurrent, Ats
  <2> QED
    BY <2>3, <2>4 DEF Inv
<1>2. ASSUME NEW i \in Index, Progress(i) PROVE Inv'
  BY <1>2, LaunchStep, AskAgainStep, RouteStep DEF Progress
<1>3. \E left \in Lost : left.late = 0 /\ GoodLost(left)
  <2>1. {} \in SUBSET Busy /\ TRUE \in BOOLEAN
    OBVIOUS
  <2> QED
    BY <2>1, LeftBehind
<1>4. CASE Rerun
  BY <1>3, <1>4, ExecuteStep DEF Rerun, Inv, Shapes
<1>5. CASE Crash
  BY <1>3, <1>5, ExecuteStep DEF Crash
<1>6. CASE Takeover
  <2> DEFINE going == IF spent < Cap THEN Busy ELSE InFlight
             open == ~stage.fenced /\ Errors = {}
             left == [of |-> inputs, next |-> next, open |-> open,
                      flight |-> {[item |-> i, nth |-> call[i].nth] : i \in going},
                      spent |-> spent, late |-> 0]
  <2>1. going \in SUBSET Busy /\ open \in BOOLEAN
    BY Facts
  <2>2. Execute /\ cooling' = {} /\ lost' = Append(lost, left)
    BY <1>6 DEF Takeover
  <2> HIDE DEF going, open
  <2>3. left \in Lost /\ left.late = 0 /\ GoodLost(left)
    BY <2>1, LeftBehind
  <2> HIDE DEF left
  <2> QED
    BY <2>2, <2>3, ExecuteStep
<1> QED
  BY <1>1, <1>2, <1>4, <1>5, <1>6, EndBatchStep, OutsideStep, StrayLaunchStep, StrayLandStep DEF Next

LEMMA Invariant == Spec => []Inv
  BY InitInv, NextInv, PTL DEF Spec

\* The types; never more calls in the providers than slots; the queue holds
\* exactly the queued calls, and none while a slot is free (acquireModelSlot and
\* its release).
THEOREM TypeCorrect == Spec => []TypeOK
<1>1. Inv => TypeOK
  <2> SUFFICES ASSUME Inv PROVE TypeOK
    OBVIOUS
  <2>1. DOMAIN waiters = 1 .. Len(waiters)
    BY LenProperties DEF Inv, Queue
  <2>2. call \in [Index -> [at : Ats, nth : 1 .. 2, chain : SUBSET Places, retries : 0 .. MaxRetries,
                            reasks : 0 .. MaxReasks, used : 0 .. 1, result : Step \cup {NoStep}]]
    BY DEF Inv, Shapes, CallRecords, Results
  <2>3. steps \in [Index -> Step \cup {NoStep}]
    BY DEF Inv, Shapes, Results
  <2> QED
    BY <2>1, <2>2, <2>3 DEF Inv, Shapes, Queue, TypeOK, Ats
<1> QED
  BY Invariant, <1>1, PTL

\* A failed batch has the result of every item before the first failed one, as the
\* sequential loop that mapBounded replaces would.
THEOREM FailureIsSequential == Spec => []FailsAsSequential
<1>1. Inv => FailsAsSequential
  <2> SUFFICES ASSUME Inv, batch = "failed", NEW i \in Index, i < FirstError
               PROVE  At(i, "ok")
    BY DEF FailsAsSequential
  <2>1. Errors # {}
    BY DEF Inv, Order
  <2>2. FirstError \in Index /\ ~At(FirstError, "pending") /\ \A j \in Errors : FirstError <= j
    BY <2>1, FirstIsOne DEF Errors, At
  <2>3. next \in Int /\ FirstError \in Int /\ i \in Int /\ FirstError < next
    BY <2>2 DEF Inv, Order, Shapes, Index
  <2>4. ~At(i, "pending") /\ i \notin Errors
    <3>1. ~(next <= i) /\ ~(FirstError <= i)
      BY <2>3
    <3> QED
      BY <2>2, <3>1 DEF Inv, Order
  <2>5. i \notin Busy
    BY DEF Inv, Order
  <2>6. call[i].at \in Ats
    BY DEF Inv, Shapes, CallRecords
  <2> QED
    BY <2>4, <2>5, <2>6 DEF Ats, Busy, InFlight, Holding, Errors, At
<1> QED
  BY Invariant, <1>1, PTL

\* The processes that executed the run put on its receipts, each, less than the
\* token cap and one unit per worker: the one that has the lease together with those
\* that crashed or gave it back, and again every one that lost it (the budget gate,
\* the receipts, and the counter re-derived from them only when an execution starts).
THEOREM OvershootIsBounded == Spec => []OvershootBounded
<1>1. Inv => OvershootBounded
  <2> SUFFICES ASSUME Inv PROVE receipts <= (1 + Len(lost)) * Most
    BY DEF OvershootBounded, Most
  <2> USE Facts
  <2>1. PICK t \in Nat : Total(lost, t) /\ Balanced(t)
    BY DEF Inv, Budget
  <2>2. \A k \in 1 .. Len(lost) : lost[k].late <= Most
    <3> SUFFICES ASSUME NEW k \in 1 .. Len(lost) PROVE lost[k].late <= Most
      OBVIOUS
    <3>1. lost[k] \in Lost /\ GoodLost(lost[k])
      BY ElementOfSeq DEF Inv, Budget
    <3>2. lost[k].late \in Nat /\ Cardinality(lost[k].flight) \in Nat
      BY <3>1, FS_CardinalityType DEF Lost, GoodLost
    <3> QED
      BY <3>1, <3>2, SMTT(20) DEF GoodLost
  <2>3. t <= Len(lost) * Most
    BY <2>1, <2>2, TotalBound
  <2>4. receipts <= Most + t
    BY <2>1 DEF Balanced
  <2>5. Len(lost) * Most \in Nat /\ (1 + Len(lost)) * Most = Most + Len(lost) * Most
    OBVIOUS
  <2>6. ASSUME NEW a \in Nat, t <= a PROVE receipts <= Most + a
    BY <2>4, <2>6
  <2>7. receipts <= Most + Len(lost) * Most
    BY <2>3, <2>5, <2>6, Zenon
  <2> QED
    BY <2>5, <2>7
<1> QED
  BY Invariant, <1>1, PTL

\* A step result in use was computed from this execution's inputs, or a process that
\* had lost the lease stored it (the fingerprint gate of checkpointed).
THEOREM ReplaysAreCurrent == Spec => []StepsAreCurrent
<1>1. Inv => StepsAreCurrent
  BY DEF Inv, Fresh
<1> QED
  BY Invariant, <1>1, PTL
=============================================================================
