------------------------- MODULE ProgressStoreProofs -------------------------
(***************************************************************************)
(* Safety of the progress store for every set of runs and every capacity.  *)
(* StoreInv is inductive together with the type invariant: OrderNamesKeys  *)
(* is what makes an eviction free a place (MemoryBounded) and leave both   *)
(* dictionaries without the dropped run (TailIsWindow).                    *)
(***************************************************************************)
EXTENDS ProgressStore, SequenceTheorems, TLAPS

StoreIInv == StoreTypeOK /\ StoreInv

-----------------------------------------------------------------------------

\* A tail is empty exactly when its run is not a key, and holds as many events
\* as its length says.
LEMMA TailLength ==
    ASSUME NEW s \in Seq(ProgressEvents)
    PROVE  /\ Len(s) \in Nat
           /\ DOMAIN s = 1 .. Len(s)
           /\ s = <<>> <=> Len(s) = 0
  BY EmptySeq, LenProperties

\* A sequence with a positive length is not empty.
LEMMA NonEmpty ==
    ASSUME NEW S, NEW s \in Seq(S), Len(s) > 0
    PROVE  s # <<>>
  BY EmptySeq

\* deque(maxlen).append: the new event comes last; the oldest event leaves a
\* full tail and nothing else moves.
LEMMA BoundedAppendProperties ==
    ASSUME NEW s \in Seq(ProgressEvents), NEW e \in ProgressEvents,
           Len(s) <= MaxEventsPerRun
    PROVE  LET t == BoundedAppend(s, e)
               cut == IF Len(s) < MaxEventsPerRun THEN 0 ELSE 1
           IN /\ t \in Seq(ProgressEvents)
              /\ Len(t) = Len(s) + 1 - cut
              /\ t # <<>>
              /\ t[Len(t)] = e
              /\ \A i \in 1 .. (Len(t) - 1) : t[i] = s[i + cut]
<1> USE CapacityAssumption
<1>1. Len(s) \in Nat
  BY LenProperties
<1>2. CASE Len(s) < MaxEventsPerRun
  <2>1. BoundedAppend(s, e) = Append(s, e)
    BY <1>2 DEF BoundedAppend
  <2> QED
    BY <1>1, <1>2, <2>1, AppendProperties
<1>3. CASE ~(Len(s) < MaxEventsPerRun)
  <2>1. BoundedAppend(s, e) = Append(Tail(s), e)
    BY <1>3 DEF BoundedAppend
  <2>2. s # <<>>
    BY <1>1, <1>3, EmptySeq
  <2>3. /\ Tail(s) \in Seq(ProgressEvents)
        /\ Len(Tail(s)) = Len(s) - 1
        /\ \A i \in 1 .. Len(Tail(s)) : Tail(s)[i] = s[i + 1]
    BY <2>2, HeadTailProperties
  <2> QED
    BY <1>1, <1>3, <2>1, <2>3, AppendProperties
<1> QED
  BY <1>2, <1>3

\* A new event is an event of its declared type.
LEMMA NewEventType ==
    ASSUME StoreTypeOK, NEW r \in Runs, NEW signal \in SafeEventSummaries
    PROVE  NewEvent(r, signal) \in ProgressEvents
  BY DEF StoreTypeOK, NewEvent, ProgressEvents

-----------------------------------------------------------------------------

\* An emission keeps the types.
LEMMA EmitKeepsTypes ==
    ASSUME StoreIInv, NEW r \in Runs, NEW signal, Emit(r, signal)
    PROVE  StoreTypeOK'
<1> USE DEF StoreIInv
<1> signal \in SafeEventSummaries
  BY DEF Emit
<1>1. BoundedAppend(events[r], NewEvent(r, signal)) \in Seq(ProgressEvents)
  BY NewEventType, BoundedAppendProperties DEF StoreTypeOK, StoreInv, MemoryBounded
<1>2. events' \in [Runs -> Seq(ProgressEvents)]
  BY <1>1, EmptySeq DEF StoreTypeOK, Emit
<1>3. nextSequence' \in [Runs -> Nat]
  BY DEF StoreTypeOK, Emit
<1>4. StoreFull => Tail(order) \in Seq(Runs)
  BY CapacityAssumption, HeadTailProperties, EmptySeq DEF StoreTypeOK, StoreFull
<1>5. order' \in Seq(Runs)
  BY <1>4, AppendProperties DEF StoreTypeOK, Emit, OrderAfter
<1>6. emitted' \in [Runs -> Nat]
  BY DEF StoreTypeOK, Emit
<1> QED
  BY <1>2, <1>3, <1>5, <1>6 DEF StoreTypeOK

\* Every step keeps the types.
LEMMA StoreTypeStep ==
    ASSUME StoreIInv, [StoreNext]_storeVars
    PROVE  StoreTypeOK'
<1> USE DEF StoreIInv
<1>1. ASSUME NEW r \in Runs, NEW signal, Emit(r, signal)
      PROVE  StoreTypeOK'
  BY <1>1, EmitKeepsTypes
<1>2. CASE Reset
  BY <1>2, EmptySeq DEF Reset, StoreTypeOK
<1>3. CASE UNCHANGED storeVars
  BY <1>3 DEF storeVars, StoreTypeOK
<1> QED
  BY <1>1, <1>2, <1>3 DEF StoreNext, BoundedEmit

\* What an emission does to the insertion order: the emitter is in it, a key
\* the emission drops is not, and every other key keeps its membership.
LEMMA OrderAfterProperties ==
    ASSUME StoreIInv, NEW r \in Runs
    PROVE  LET o == OrderAfter(r)
           IN /\ o \in Seq(Runs)
              /\ Len(o) <= MaxTrackedRuns
              /\ \A i, j \in DOMAIN o : o[i] = o[j] => i = j
              /\ \A q \in Runs :
                    (\E i \in DOMAIN o : o[i] = q)
                       <=> (q = r \/ (Tracked(q) /\ ~Drops(r, q)))
<1> USE DEF StoreIInv
<1>0. /\ order \in Seq(Runs)
      /\ Len(order) \in Nat
      /\ DOMAIN order = 1 .. Len(order)
      /\ Len(order) <= MaxTrackedRuns
      /\ MaxTrackedRuns \in Nat \ {0}
  BY LenProperties, CapacityAssumption DEF StoreTypeOK, StoreInv, MemoryBounded
<1>a. /\ \A q \in Runs : Tracked(q) <=> \E i \in 1 .. Len(order) : order[i] = q
      /\ \A i, j \in 1 .. Len(order) : order[i] = order[j] => i = j
  BY <1>0 DEF StoreInv, OrderNamesKeys
<1>1. CASE Tracked(r)
  BY <1>0, <1>1, <1>a DEF OrderAfter, Drops, EvictsFor
<1>2. CASE ~Tracked(r) /\ ~StoreFull
  <2>1. OrderAfter(r) = Append(order, r)
    BY <1>2 DEF OrderAfter
  <2> DEFINE o == Append(order, r)
  <2>2. /\ o \in Seq(Runs)
        /\ DOMAIN o = 1 .. (Len(order) + 1)
        /\ Len(o) = Len(order) + 1
        /\ \A i \in 1 .. Len(order) : o[i] = order[i]
        /\ o[Len(order) + 1] = r
    BY <1>0, AppendProperties, LenProperties
  <2> HIDE DEF o
  <2>3. Len(o) <= MaxTrackedRuns
    BY <1>0, <1>2, <2>2 DEF StoreFull
  <2>4. \A i, j \in DOMAIN o : o[i] = o[j] => i = j
    BY <1>0, <1>2, <1>a, <2>2
  <2>5. \A q \in Runs : ~Drops(r, q)
    BY <1>2 DEF Drops, EvictsFor
  <2>6. ASSUME NEW q \in Runs
        PROVE  (\E i \in DOMAIN o : o[i] = q) <=> (q = r \/ Tracked(q))
    <3>1. ASSUME NEW i \in DOMAIN o, o[i] = q, q # r
          PROVE  Tracked(q)
      <4>1. i \in 1 .. Len(order) /\ order[i] = q
        BY <1>0, <2>2, <3>1
      <4> QED
        BY <1>a, <4>1
    <3>2. ASSUME Tracked(q)
          PROVE  \E i \in DOMAIN o : o[i] = q
      <4>1. PICK k \in 1 .. Len(order) : order[k] = q
        BY <1>a, <3>2
      <4>2. k \in DOMAIN o /\ o[k] = q
        BY <1>0, <2>2, <4>1
      <4> QED
        BY <4>2
    <3>3. Len(order) + 1 \in DOMAIN o /\ o[Len(order) + 1] = r
      BY <1>0, <2>2
    <3> QED
      BY <3>1, <3>2, <3>3
  <2> QED
    BY <2>1, <2>2, <2>3, <2>4, <2>5, <2>6 DEF o
<1>3. CASE ~Tracked(r) /\ StoreFull
  <2>1. OrderAfter(r) = Append(Tail(order), r)
    BY <1>3 DEF OrderAfter
  <2>2. Len(order) = MaxTrackedRuns /\ order # <<>>
    <3>0. Len(order) >= MaxTrackedRuns
      BY <1>3 DEF StoreFull
    <3> DEFINE n == Len(order)
    <3>1. n = MaxTrackedRuns /\ n > 0
      <4>1. n \in Nat /\ n <= MaxTrackedRuns /\ n >= MaxTrackedRuns /\ MaxTrackedRuns \in Nat \ {0}
        BY <1>0, <3>0
      <4> HIDE DEF n
      <4> QED
        BY <4>1
    <3> QED
      BY <1>0, <3>1, NonEmpty
  <2> DEFINE t == Tail(order)
             o == Append(t, r)
             n == Len(order)
  <2>3. /\ t \in Seq(Runs)
        /\ Len(t) = n - 1
        /\ \A i \in 1 .. (n - 1) : t[i] = order[i + 1]
    BY <1>0, <2>2, HeadTailProperties
  <2>4. Head(order) = order[1]
    BY <1>0, <2>2, HeadTailProperties
  <2> HIDE DEF t
  <2>5. /\ o \in Seq(Runs)
        /\ DOMAIN o = 1 .. n
        /\ Len(o) = n
        /\ \A i \in 1 .. (n - 1) : o[i] = order[i + 1]
        /\ o[n] = r
    <3>1. /\ o \in Seq(Runs)
          /\ Len(o) = Len(t) + 1
          /\ \A i \in 1 .. Len(t) : o[i] = t[i]
          /\ o[Len(t) + 1] = r
      BY <2>3, AppendProperties
    <3> HIDE DEF o
    <3> QED
      BY <1>0, <2>3, <3>1, LenProperties
  <2> HIDE DEF o
  <2>6. \A i, j \in DOMAIN o : o[i] = o[j] => i = j
    BY <1>0, <1>3, <1>a, <2>2, <2>5
  <2>7. \A q \in Runs : Drops(r, q) <=> q = order[1]
    BY <1>3, <2>4 DEF Drops, EvictsFor
  <2>8. ASSUME NEW q \in Runs
        PROVE  (\E i \in DOMAIN o : o[i] = q) <=> (q = r \/ (Tracked(q) /\ q # order[1]))
    <3>1. ASSUME NEW i \in DOMAIN o, o[i] = q, q # r
          PROVE  Tracked(q) /\ q # order[1]
      <4>1. i \in 1 .. (n - 1) /\ i + 1 \in 1 .. n /\ order[i + 1] = q
        BY <1>0, <2>5, <3>1
      <4> QED
        BY <1>0, <1>a, <4>1
    <3>2. ASSUME Tracked(q), q # order[1]
          PROVE  \E i \in DOMAIN o : o[i] = q
      <4>1. PICK k \in 1 .. n : order[k] = q
        BY <1>a, <3>2
      <4>2. k - 1 \in 1 .. (n - 1) /\ o[k - 1] = order[(k - 1) + 1] /\ (k - 1) + 1 = k
        BY <1>0, <2>5, <3>2, <4>1
      <4> QED
        BY <1>0, <2>5, <4>1, <4>2
    <3>3. \E i \in DOMAIN o : o[i] = r
      BY <1>0, <2>2, <2>5
    <3> QED
      BY <3>1, <3>2, <3>3
  <2> QED
    BY <1>0, <2>1, <2>2, <2>5, <2>6, <2>7, <2>8 DEF o, t
<1> QED
  BY <1>1, <1>2, <1>3

\* An emission keeps the order, the bound and the window.
LEMMA EmitKeepsWindow ==
    ASSUME StoreIInv, NEW r \in Runs, NEW signal, Emit(r, signal)
    PROVE  StoreInv'
<1> USE DEF StoreIInv
<1> signal \in SafeEventSummaries
  BY DEF Emit
<1> DEFINE e == NewEvent(r, signal)
           s == events[r]
           n == nextSequence[r]
           m == emitted[r]
           t == BoundedAppend(s, e)
           cut == IF Len(s) < MaxEventsPerRun THEN 0 ELSE 1
<1>1. /\ t \in Seq(ProgressEvents)
      /\ Len(t) = Len(s) + 1 - cut
      /\ t # <<>>
      /\ t[Len(t)] = e
      /\ \A i \in 1 .. (Len(t) - 1) : t[i] = s[i + cut]
  BY NewEventType, BoundedAppendProperties DEF StoreTypeOK, StoreInv, MemoryBounded
<1>2. /\ s \in Seq(ProgressEvents) /\ Len(s) \in Nat /\ DOMAIN s = 1 .. Len(s)
      /\ DOMAIN t = 1 .. Len(t) /\ Len(t) \in Nat
      /\ n \in Nat /\ m \in Nat
      /\ MaxEventsPerRun \in Nat \ {0} /\ cut \in {0, 1}
  BY <1>1, LenProperties, CapacityAssumption DEF StoreTypeOK
<1>3. e.sequence = n + 1 /\ e.timestamp = m + 1
  BY DEF NewEvent
<1>4. /\ n <= m
      /\ Len(s) = IF n < MaxEventsPerRun THEN n ELSE MaxEventsPerRun
      /\ \A i \in 1 .. Len(s) : /\ s[i].sequence = n - Len(s) + i
                                /\ s[i].timestamp = m - Len(s) + i
  BY <1>2 DEF StoreInv, TailIsWindow
<1>a. Len(s) < MaxEventsPerRun <=> cut = 0
  BY DEF cut
<1>5. /\ events'[r] = t /\ nextSequence'[r] = n + 1 /\ emitted'[r] = m + 1
      /\ \A q \in Runs \ {r} :
            /\ emitted'[q] = emitted[q]
            /\ events'[q] = IF Drops(r, q) THEN <<>> ELSE events[q]
            /\ nextSequence'[q] = IF Drops(r, q) THEN 0 ELSE nextSequence[q]
  BY DEF Emit, StoreTypeOK
<1> HIDE DEF e, s, n, m, t, cut
<1>6. OrderNamesKeys'
  <2>1. \A q \in Runs : Tracked(q)' <=> (q = r \/ (Tracked(q) /\ ~Drops(r, q)))
    BY <1>1, <1>5 DEF Tracked
  <2>2. order' = OrderAfter(r)
    BY DEF Emit
  <2> QED
    BY <2>1, <2>2, OrderAfterProperties DEF OrderNamesKeys
<1>7. MemoryBounded'
  <2>1. Len(order') <= MaxTrackedRuns
    BY OrderAfterProperties DEF Emit
  <2>2. Len(events'[r]) <= MaxEventsPerRun
    BY <1>1, <1>2, <1>4, <1>5, <1>a
  <2>3. ASSUME NEW q \in Runs \ {r} PROVE Len(events'[q]) <= MaxEventsPerRun
    BY <1>2, <1>5, EmptySeq DEF StoreInv, MemoryBounded
  <2> QED
    BY <2>1, <2>2, <2>3 DEF MemoryBounded
<1>8. TailIsWindow'
  <2>1. /\ n + 1 <= m + 1
        /\ Len(t) = IF n + 1 < MaxEventsPerRun THEN n + 1 ELSE MaxEventsPerRun
    BY <1>1, <1>2, <1>4, <1>a
  <2>2. ASSUME NEW i \in 1 .. Len(t)
        PROVE  /\ t[i].sequence = n + 1 - Len(t) + i
               /\ t[i].timestamp = m + 1 - Len(t) + i
    <3>1. CASE i = Len(t)
      BY <1>1, <1>2, <1>3, <3>1
    <3>2. CASE i # Len(t)
      <4>1. i \in 1 .. (Len(t) - 1) /\ i + cut \in 1 .. Len(s)
        BY <1>1, <1>2, <3>2
      <4>2. t[i] = s[i + cut]
        BY <1>1, <4>1
      <4>3. /\ s[i + cut].sequence = n - Len(s) + (i + cut)
            /\ s[i + cut].timestamp = m - Len(s) + (i + cut)
        BY <1>4, <4>1
      <4>4. i + cut \in Int /\ Len(s) \in Int /\ Len(t) = Len(s) + 1 - cut /\ i \in Int
        BY <1>1, <1>2
      <4>5. /\ n - Len(s) + (i + cut) = n + 1 - Len(t) + i
            /\ m - Len(s) + (i + cut) = m + 1 - Len(t) + i
        BY <1>2, <4>4
      <4> QED
        BY <4>2, <4>3, <4>5
    <3> QED
      BY <3>1, <3>2
  <2>3. ASSUME NEW q \in Runs \ {r}, Drops(r, q)
        PROVE  /\ nextSequence'[q] = 0 /\ events'[q] = <<>> /\ emitted'[q] \in Nat
    BY <1>5, <2>3 DEF StoreTypeOK
  <2>4. ASSUME NEW q \in Runs \ {r}, ~Drops(r, q)
        PROVE  /\ nextSequence'[q] = nextSequence[q]
               /\ events'[q] = events[q] /\ emitted'[q] = emitted[q]
    BY <1>5, <2>4
  <2>5. ASSUME NEW q \in Runs
        PROVE  /\ nextSequence'[q] <= emitted'[q]
               /\ Len(events'[q]) = IF nextSequence'[q] < MaxEventsPerRun
                                    THEN nextSequence'[q] ELSE MaxEventsPerRun
               /\ \A i \in DOMAIN events'[q] :
                     /\ events'[q][i].sequence = nextSequence'[q] - Len(events'[q]) + i
                     /\ events'[q][i].timestamp = emitted'[q] - Len(events'[q]) + i
    <3>1. CASE q = r
      <4>1. events'[q] = t /\ nextSequence'[q] = n + 1 /\ emitted'[q] = m + 1
        BY <1>5, <3>1
      <4>2. DOMAIN events'[q] = 1 .. Len(t)
        BY <1>2, <4>1
      <4>3. /\ nextSequence'[q] <= emitted'[q]
            /\ Len(events'[q]) = IF nextSequence'[q] < MaxEventsPerRun
                                 THEN nextSequence'[q] ELSE MaxEventsPerRun
        BY <2>1, <4>1
      <4>4. ASSUME NEW i \in DOMAIN events'[q]
            PROVE  /\ events'[q][i].sequence = nextSequence'[q] - Len(events'[q]) + i
                   /\ events'[q][i].timestamp = emitted'[q] - Len(events'[q]) + i
        <5>1. i \in 1 .. Len(t)
          BY <4>2
        <5>2. /\ t[i].sequence = n + 1 - Len(t) + i
              /\ t[i].timestamp = m + 1 - Len(t) + i
          BY <2>2, <5>1
        <5>3. events'[q][i] = t[i] /\ Len(events'[q]) = Len(t)
          BY <4>1
        <5>4. t[i].sequence = nextSequence'[q] - Len(t) + i
          BY <1>2, <4>1, <5>1, <5>2
        <5>5. t[i].timestamp = emitted'[q] - Len(t) + i
          BY <1>2, <4>1, <5>1, <5>2
        <5> QED
          BY <1>2, <4>1, <5>1, <5>3, <5>4, <5>5
      <4> QED
        BY <4>3, <4>4
    <3>2. CASE q # r /\ Drops(r, q)
      BY <1>2, <2>3, <3>2, EmptySeq
    <3>3. CASE q # r /\ ~Drops(r, q)
      BY <2>4, <3>3 DEF StoreInv, TailIsWindow
    <3> QED
      BY <3>1, <3>2, <3>3
  <2> QED
    BY <2>5 DEF TailIsWindow
<1> QED
  BY <1>6, <1>7, <1>8 DEF StoreInv

\* Every step keeps the order, the bound and the window.
LEMMA StoreInvStep ==
    ASSUME StoreIInv, [StoreNext]_storeVars
    PROVE  StoreInv'
<1> USE DEF StoreIInv
<1>1. ASSUME NEW r \in Runs, NEW signal, Emit(r, signal)
      PROVE  StoreInv'
  BY <1>1, EmitKeepsWindow
<1>2. CASE Reset
  BY <1>2, EmptySeq, CapacityAssumption
     DEF Reset, StoreInv, OrderNamesKeys, MemoryBounded, TailIsWindow, Tracked, StoreTypeOK
<1>3. CASE UNCHANGED storeVars
  BY <1>3 DEF storeVars, StoreInv, OrderNamesKeys, MemoryBounded, TailIsWindow, Tracked
<1> QED
  BY <1>1, <1>2, <1>3 DEF StoreNext, BoundedEmit

\* The store starts empty, which satisfies the invariant.
LEMMA StoreInitInv == StoreInit => StoreIInv
  BY EmptySeq, CapacityAssumption
     DEF StoreInit, StoreIInv, StoreTypeOK, StoreInv, OrderNamesKeys,
         MemoryBounded, TailIsWindow, Tracked

-----------------------------------------------------------------------------

\* The inductive invariant holds in every behaviour of the store.
THEOREM StoreInvariance == StoreSpec => []StoreIInv
<1>1. StoreInit => StoreIInv
  BY StoreInitInv
<1>2. StoreIInv /\ [StoreNext]_storeVars => StoreIInv'
  BY StoreTypeStep, StoreInvStep DEF StoreIInv
<1> QED
  BY <1>1, <1>2, PTL DEF StoreSpec

\* Type correctness of the store (progress.py:61-64).
THEOREM StoreTypeCorrect == StoreSpec => []StoreTypeOK
  BY StoreInvariance, PTL DEF StoreIInv

\* The memory bound of progress.py:13-14 holds for every number of runs.
THEOREM StoreMemoryBounded == StoreSpec => []MemoryBounded
  BY StoreInvariance, PTL DEF StoreIInv, StoreInv

\* What after() can return is always the window of the latest emissions, in
\* order and without a hole, whatever was evicted (progress.py:70-89).
THEOREM StoreTailIsWindow == StoreSpec => []TailIsWindow
  BY StoreInvariance, PTL DEF StoreIInv, StoreInv

\* An emission drops only the oldest run, and only when it must
\* (progress.py:70-73).
THEOREM StoreDropsOnlyOldest == StoreSpec => EmitDropsOnlyOldest
<1> DEFINE A == \A r, q \in Runs :
                  (r # q /\ emitted'[r] = emitted[r] + 1 /\ events'[q] # events[q]) =>
                     /\ ~Tracked(r) /\ StoreFull /\ Len(order') = MaxTrackedRuns
                     /\ q = Head(order)
<1>1. StoreIInv /\ [StoreNext]_storeVars => [A]_storeVars
  <2> SUFFICES ASSUME StoreIInv, StoreNext, NEW r \in Runs, NEW q \in Runs, r # q,
                      emitted'[r] = emitted[r] + 1, events'[q] # events[q]
               PROVE  /\ ~Tracked(r) /\ StoreFull /\ Len(order') = MaxTrackedRuns
                      /\ q = Head(order)
    BY DEF storeVars
  <2>1. ~Reset
    BY DEF Reset, StoreIInv, StoreTypeOK
  <2>2. PICK p \in Runs, signal \in Signals : Emit(p, signal)
    BY <2>1 DEF StoreNext, BoundedEmit
  <2>3. p = r
    BY <2>2 DEF Emit, StoreIInv, StoreTypeOK
  <2>4. Drops(r, q)
    BY <2>2, <2>3 DEF Emit, StoreIInv, StoreTypeOK
  <2>5. order' = Append(Tail(order), r)
    BY <2>2, <2>3, <2>4 DEF Emit, OrderAfter, Drops, EvictsFor
  <2>6. order \in Seq(Runs) /\ order # <<>> /\ Len(order) = MaxTrackedRuns
    BY <2>4, CapacityAssumption, EmptySeq, LenProperties
       DEF Drops, EvictsFor, StoreFull, StoreIInv, StoreTypeOK, StoreInv, MemoryBounded
  <2>7. Tail(order) \in Seq(Runs) /\ Len(Tail(order)) = MaxTrackedRuns - 1
    BY <2>6, HeadTailProperties
  <2>8. Len(order') = MaxTrackedRuns
    BY <2>5, <2>7, AppendProperties, CapacityAssumption
  <2> QED
    BY <2>4, <2>8 DEF Drops, EvictsFor
<1> QED
  BY <1>1, StoreInvariance, PTL DEF StoreSpec, EmitDropsOnlyOldest
=============================================================================
