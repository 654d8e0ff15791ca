--------------------------- MODULE ProgressStore ---------------------------
(***************************************************************************)
(* The in-process progress store of app/services/progress.py.              *)
(*                                                                         *)
(* A dictionary maps a run id to a bounded deque of events, another to the *)
(* number of the last event.  Both are guarded by one lock, so emit, after *)
(* and reset are atomic.  When a run the store does not know emits while   *)
(* the store is full, the run that was inserted first is dropped, whether  *)
(* it is still active or not; if a dropped run emits again it is inserted  *)
(* anew and its numbers restart at 1.                                      *)
(***************************************************************************)
EXTENDS Naturals, Sequences, ProgressSignals

CONSTANTS
    Runs,              \* run ids
    Signals,           \* the <<stage, status>> pairs callers try to emit
    MaxEventsPerRun,   \* MAX_EVENTS_PER_RUN, 32 in the code
    MaxTrackedRuns,    \* MAX_TRACKED_RUNS, 128 in the code
    MaxEmissions       \* bound of the model: emissions of one run

ASSUME CapacityAssumption ==
    /\ MaxEventsPerRun \in Nat \ {0}
    /\ MaxTrackedRuns \in Nat \ {0}

ASSUME BoundAssumption == MaxEmissions \in Nat

VARIABLES
    events,        \* run -> tail of its events; <<>> when the run is not a key
    nextSequence,  \* run -> number of its last event; 0 when it is not a key
    order          \* the keys of the events dictionary, in insertion order

(***************************************************************************)
(* History, not program state: how many signals of a run the store ever    *)
(* accepted.  It dates the events, as the timestamp does in the code.      *)
(***************************************************************************)
VARIABLE emitted

storeVars == <<events, nextSequence, order, emitted>>

ProgressEvents ==
    [sequence : Nat \ {0}, timestamp : Nat \ {0}, signal : SafeEventSummaries]

-----------------------------------------------------------------------------

Tracked(r) == events[r] # <<>>

StoreFull == Len(order) >= MaxTrackedRuns

\* emit(r) must first drop the oldest key.
EvictsFor(r) == ~Tracked(r) /\ StoreFull

\* deque(maxlen = MaxEventsPerRun).append(event)
BoundedAppend(tail, event) ==
    IF Len(tail) < MaxEventsPerRun THEN Append(tail, event)
    ELSE Append(Tail(tail), event)

\* Mutant: numbers by the length of the deque, wrong once the deque is full.
NewEventByLength(r, signal) ==
    [sequence |-> Len(events[r]) + 1, timestamp |-> emitted[r] + 1, signal |-> signal]

\* Mutant: numbers from zero.
NewEventFromZero(r, signal) ==
    [sequence |-> nextSequence[r], timestamp |-> emitted[r] + 1, signal |-> signal]

NewEvent(r, signal) ==
    [sequence |-> nextSequence[r] + 1, timestamp |-> emitted[r] + 1, signal |-> signal]

\* Mutant: forgets to take the dropped key out.
OrderAfterKeepingAll(r) == IF Tracked(r) THEN order ELSE Append(order, r)

\* The keys after r emitted: r keeps its place or comes last.
OrderAfter(r) ==
    IF Tracked(r) THEN order
    ELSE Append(IF StoreFull THEN Tail(order) ELSE order, r)

\* Mutant: drops the newest key.
DropsNewest(r, q) == EvictsFor(r) /\ q = order[Len(order)]

\* oldest = next(iter(events)): the key emit(r) drops.
Drops(r, q) == EvictsFor(r) /\ q = Head(order)

Emit(r, signal) ==
    /\ signal \in SafeEventSummaries
    /\ events' = [q \in Runs |->
           IF q = r THEN BoundedAppend(events[r], NewEvent(r, signal))
           ELSE IF Drops(r, q) THEN <<>> ELSE events[q]]
    /\ nextSequence' = [q \in Runs |->
           IF q = r THEN nextSequence[r] + 1
           ELSE IF Drops(r, q) THEN 0 ELSE nextSequence[q]]
    /\ order' = OrderAfter(r)
    /\ emitted' = [emitted EXCEPT ![r] = @ + 1]

\* reset(), and what is left of the store when the process restarts.
Reset ==
    /\ events' = [r \in Runs |-> <<>>]
    /\ nextSequence' = [r \in Runs |-> 0]
    /\ order' = <<>>
    /\ UNCHANGED emitted

(***************************************************************************)
(* after(r, n).  The code lists these events in deque order; TailIsWindow  *)
(* below says that this is the order of their numbers, so the set stands   *)
(* for the list.                                                           *)
(***************************************************************************)
After(r, n) ==
    {e \in {events[r][i] : i \in DOMAIN events[r]} : e.sequence > n}

StoreInit ==
    /\ events = [r \in Runs |-> <<>>]
    /\ nextSequence = [r \in Runs |-> 0]
    /\ order = <<>>
    /\ emitted = [r \in Runs |-> 0]

BoundedEmit(r) ==
    /\ emitted[r] < MaxEmissions
    /\ \E signal \in Signals : Emit(r, signal)

StoreNext == (\E r \in Runs : BoundedEmit(r)) \/ Reset

StoreSpec == StoreInit /\ [][StoreNext]_storeVars

-----------------------------------------------------------------------------

\* Type invariant of the store (progress.py:61-64): every event holds an
\* allowed pair and every number is a natural number.
StoreTypeOK ==
    /\ events \in [Runs -> Seq(ProgressEvents)]
    /\ nextSequence \in [Runs -> Nat]
    /\ order \in Seq(Runs)
    /\ emitted \in [Runs -> Nat]

\* The insertion order names every key exactly once, so "oldest" is well
\* defined and an eviction frees exactly one place (progress.py:70-76).
OrderNamesKeys ==
    /\ \A r \in Runs : Tracked(r) <=> \E i \in DOMAIN order : order[i] = r
    /\ \A i, j \in DOMAIN order : order[i] = order[j] => i = j

\* The memory bound the module promises: never more than MaxTrackedRuns runs
\* and never more than MaxEventsPerRun events of a run (progress.py:13-14).
MemoryBounded ==
    /\ Len(order) <= MaxTrackedRuns
    /\ \A r \in Runs : Len(events[r]) <= MaxEventsPerRun

\* The two dictionaries agree (progress.py:72-76): the tail of a run is the
\* window of its latest emissions, numbered without a hole up to the counter;
\* it is cut only at its capacity, also after the run was dropped and came back.
TailIsWindow ==
    \A r \in Runs :
        /\ nextSequence[r] <= emitted[r]
        /\ Len(events[r]) = IF nextSequence[r] < MaxEventsPerRun
                            THEN nextSequence[r] ELSE MaxEventsPerRun
        /\ \A i \in DOMAIN events[r] :
              /\ events[r][i].sequence = nextSequence[r] - Len(events[r]) + i
              /\ events[r][i].timestamp = emitted[r] - Len(events[r]) + i

StoreInv == OrderNamesKeys /\ MemoryBounded /\ TailIsWindow

\* An emission drops another run only when the emitter is new and the store is
\* full, drops only the run inserted first, and leaves the store full: the
\* events of every other run survive untouched (progress.py:70-73).
EmitDropsOnlyOldest ==
    [][\A r, q \in Runs :
          (r # q /\ emitted'[r] = emitted[r] + 1 /\ events'[q] # events[q]) =>
             /\ ~Tracked(r) /\ StoreFull /\ Len(order') = MaxTrackedRuns
             /\ q = Head(order)]_storeVars
=============================================================================
