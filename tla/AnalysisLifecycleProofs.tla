----------------------- MODULE AnalysisLifecycleProofs -----------------------
(***************************************************************************)
(* Safety of the life of runs for every number of runs and streams, every  *)
(* capacity of the store, and any number of restarts and failing commits.  *)
(*                                                                         *)
(* The argument for the order of frames: an event's number and its date    *)
(* differ by emitted - nextSequence, a difference that only grows, namely  *)
(* when the run is dropped and counts anew.  So an event with a number     *)
(* above a stream's cursor is later than every frame sent.  A terminal     *)
(* frame made from the row is later than every signal, because the row is  *)
(* dated when no signal can follow but the terminal one.                   *)
(***************************************************************************)
EXTENDS AnalysisLifecycle, ProgressStoreProofs

\* The statuses whose announcement the row always supports: without faults of the
\* database, failures too.
Supportable == IF DbFaults THEN {"completed", "limited"} ELSE TerminalRunStatuses

\* What an event or a frame of r says of a status is so.
Supported(r, told) ==
    \A status \in Supportable : told.signal = TerminalSignal(status) => row[r].status = status

\* A signal is older than the row that settles its run.
BeforeRow(r, told) ==
    RowSettled(r) /\ ~IsTerminal(told.signal) => told.timestamp < row[r].completedAt

\* Not ahead of number n in the present count of r.
NotAhead(r, told, n) == told.timestamp + nextSequence[r] <= emitted[r] + n

EventsOf(r) == {events[r][i] : i \in DOMAIN events[r]}

Sent(s) == {stream[s].frames[i] : i \in DOMAIN stream[s].frames}

-----------------------------------------------------------------------------

\* Where a job stands tells what its row says.
JobRow(r) ==
    /\ task[r].pc \in {"queued", "workflow", "saving", "recording"} => row[r].status = "running"
    /\ task[r].pc = "sync" => row[r].status = "absent"
    /\ task[r].pc = "saving" => task[r].outcome \in {"completed", "limited"}
    /\ task[r].pc = "announcing" =>
          /\ task[r].outcome \in TerminalRunStatuses
          /\ task[r].outcome \in Supportable => row[r].status = task[r].outcome
    /\ RowSettled(r) => row[r].completedAt > 0

\* Without faults and restarts no visible run is abandoned.
Undisturbed == ~DbFaults /\ MaxCrashes = 0 => crashes = 0 /\ RunningRowHasJob

StoreTrue(r) == \A e \in EventsOf(r) : Supported(r, e) /\ BeforeRow(r, e)

\* A stream that polls: its cursor, and the batch it is sending.
CursorOK(s) ==
    \A f \in Sent(s) :
        /\ f.timestamp <= emitted[stream[s].run]
        /\ NotAhead(stream[s].run, f, stream[s].last)
        /\ BeforeRow(stream[s].run, f)

BatchOK(s) ==
    \A e \in stream[s].batch :
        /\ e.timestamp <= emitted[stream[s].run]
        /\ NotAhead(stream[s].run, e, e.sequence)
        /\ BeforeRow(stream[s].run, e) /\ Supported(stream[s].run, e)
        /\ e.sequence > stream[s].last
        /\ \A f \in Sent(s) : f.timestamp < e.timestamp
        /\ \A other \in stream[s].batch :
              /\ e.sequence < other.sequence => e.timestamp < other.timestamp
              /\ e.sequence = other.sequence => e = other

\* A stream that sent everything so far.
WithoutGaps(s) ==
    /\ \A i \in DOMAIN stream[s].frames : stream[s].frames[i].timestamp = i
    /\ stream[s].last = Len(stream[s].frames)
    /\ \A e \in stream[s].batch :
          /\ e.timestamp = e.sequence
          /\ \A n \in (stream[s].last + 1) .. e.sequence :
                \E other \in stream[s].batch : other.sequence = n

KnownRun(s) ==
    /\ stream[s].pc = "new" => stream[s] = NoStream
    /\ stream[s].pc # "new" =>
          stream[s].run \in Runs /\ row[stream[s].run].status # "absent"

Polling(s) ==
    Open(s) =>
        /\ CursorOK(s) /\ BatchOK(s)
        /\ NothingDropped(stream[s].run) => WithoutGaps(s)

Truthful(s) == stream[s].pc # "new" => \A f \in Sent(s) : Supported(stream[s].run, f)

Ordered(s) ==
    \A i, j \in DOMAIN stream[s].frames :
        i < j => stream[s].frames[i].timestamp < stream[s].frames[j].timestamp

Ends(s) ==
    /\ \A i \in DOMAIN stream[s].frames : IsTerminal(stream[s].frames[i].signal) =>
          i = Len(stream[s].frames) /\ stream[s].pc = "closed"
    /\ stream[s].pc = "closed" =>
          /\ stream[s].frames # <<>>
          /\ IsTerminal(stream[s].frames[Len(stream[s].frames)].signal)

Gapless(s) ==
    stream[s].run \in Runs /\ NothingDropped(stream[s].run) =>
        \A i \in DOMAIN stream[s].frames :
            /\ stream[s].frames[i].timestamp >= i
            /\ i < Len(stream[s].frames) => stream[s].frames[i].timestamp = i

StreamInv(s) ==
    KnownRun(s) /\ Polling(s) /\ Truthful(s) /\ Ordered(s) /\ Ends(s) /\ Gapless(s)

IInv ==
    /\ TypeOK /\ StoreInv
    /\ \A r \in Runs : JobRow(r) /\ StoreTrue(r)
    /\ Undisturbed
    /\ \A s \in Streams : StreamInv(s)

-----------------------------------------------------------------------------
(* The store.                                                              *)

\* Each status has its own terminal signal, in the vocabulary.
LEMMA TerminalSignals ==
    \A status \in TerminalRunStatuses :
        /\ TerminalSignal(status) \in SafeEventSummaries
        /\ IsTerminal(TerminalSignal(status))
        /\ \A other \in TerminalRunStatuses :
              TerminalSignal(status) = TerminalSignal(other) => status = other
<1>1. /\ TerminalSignal("failed") = <<"failed", "failed">>
      /\ TerminalSignal("limited") = <<"analysis_completed", "limited">>
      /\ TerminalSignal("completed") = <<"analysis_completed", "completed">>
  BY DEF TerminalSignal
<1> QED
  BY <1>1 DEF TerminalRunStatuses, SafeEventSummaries, IsTerminal, TerminalStages

\* What the window says of single events.
LEMMA WindowFacts ==
    ASSUME StoreIInv, NEW r \in Runs
    PROVE  /\ EventsOf(r) \subseteq ProgressEvents
           /\ emitted[r] \in Nat /\ nextSequence[r] \in Nat
           /\ \A e \in EventsOf(r) :
                 /\ e.sequence \in Nat \ {0} /\ e.timestamp \in Nat \ {0}
                 /\ e.timestamp <= emitted[r]
                 /\ e.timestamp + nextSequence[r] = emitted[r] + e.sequence
           /\ \A e, f \in EventsOf(r) : e.sequence = f.sequence => e = f
           /\ NothingDropped(r) =>
                 \A e \in EventsOf(r) : \A n \in 1 .. e.sequence :
                     \E f \in EventsOf(r) : f.sequence = n
<1> DEFINE t == events[r]
           n == nextSequence[r]
           m == emitted[r]
<1>1. /\ t \in Seq(ProgressEvents) /\ Len(t) \in Nat /\ DOMAIN t = 1 .. Len(t)
      /\ n \in Nat /\ m \in Nat /\ MaxEventsPerRun \in Nat \ {0}
  BY LenProperties, CapacityAssumption DEF StoreIInv, StoreTypeOK
<1>2. /\ n <= m
      /\ Len(t) = IF n < MaxEventsPerRun THEN n ELSE MaxEventsPerRun
      /\ \A i \in 1 .. Len(t) :
            /\ t[i].sequence = n - Len(t) + i
            /\ t[i].timestamp = m - Len(t) + i
  BY <1>1 DEF StoreIInv, StoreInv, TailIsWindow
<1>3. \A i \in 1 .. Len(t) : t[i] \in ProgressEvents
  BY <1>1, ElementOfSeq
<1>4. EventsOf(r) = {t[i] : i \in 1 .. Len(t)}
  BY <1>1 DEF EventsOf
<1>5. NothingDropped(r) => n = m /\ n <= MaxEventsPerRun
  BY DEF NothingDropped
<1> HIDE DEF t, n, m
<1>6. EventsOf(r) \subseteq ProgressEvents
  BY <1>3, <1>4
<1>7. \A e \in EventsOf(r) :
          /\ e.sequence \in Nat \ {0} /\ e.timestamp \in Nat \ {0}
          /\ e.timestamp <= m
          /\ e.timestamp + n = m + e.sequence
  <2> SUFFICES ASSUME NEW i \in 1 .. Len(t)
               PROVE  /\ t[i].sequence \in Nat \ {0} /\ t[i].timestamp \in Nat \ {0}
                      /\ t[i].timestamp <= m
                      /\ t[i].timestamp + n = m + t[i].sequence
    BY <1>4
  <2>1. t[i].sequence \in Nat \ {0} /\ t[i].timestamp \in Nat \ {0}
    BY <1>3 DEF ProgressEvents
  <2> DEFINE a == t[i].sequence
             b == t[i].timestamp
             k == Len(t)
  <2>2. a = n - k + i /\ b = m - k + i
    BY <1>2
  <2>3. k \in Nat /\ i \in 1 .. k
    BY <1>1
  <2> HIDE DEF a, b, k
  <2>4. b <= m /\ b + n = m + a
    BY <1>1, <2>2, <2>3
  <2> QED
    BY <2>1, <2>4 DEF a, b
<1>8. ASSUME NEW e \in EventsOf(r), NEW f \in EventsOf(r), e.sequence = f.sequence
      PROVE  e = f
  <2>1. PICK i \in 1 .. Len(t) : e = t[i]
    BY <1>4
  <2>2. PICK j \in 1 .. Len(t) : f = t[j]
    BY <1>4
  <2>3. n - Len(t) + i = n - Len(t) + j
    BY <1>2, <1>8, <2>1, <2>2
  <2>4. i = j
    BY <1>1, <2>3
  <2> QED
    BY <2>1, <2>2, <2>4
<1>9. ASSUME NothingDropped(r), NEW e \in EventsOf(r), NEW k \in 1 .. e.sequence
      PROVE  \E f \in EventsOf(r) : f.sequence = k
  <2>1. PICK i \in 1 .. Len(t) : e = t[i]
    BY <1>4
  <2>2. Len(t) = n
    BY <1>1, <1>2, <1>5, <1>9
  <2>3. e.sequence = i
    <3>1. t[i].sequence = n - Len(t) + i
      BY <1>2
    <3> QED
      BY <1>1, <2>1, <2>2, <3>1
  <2>4. k \in 1 .. Len(t) /\ t[k].sequence = k
    BY <1>1, <1>2, <1>9, <2>2, <2>3
  <2> QED
    BY <1>4, <2>4
<1> QED
  BY <1>1, <1>6, <1>7, <1>8, <1>9 DEF n, m

\* A step of the store: nothing is un-emitted, and numbers fall behind dates only.
StoreMoves ==
    \A q \in Runs :
        /\ emitted'[q] \in Nat /\ nextSequence'[q] \in Nat
        /\ emitted[q] <= emitted'[q]
        /\ emitted[q] + nextSequence'[q] <= emitted'[q] + nextSequence[q]
        /\ NothingDropped(q)' => NothingDropped(q)

\* An emission adds its event to its run and drops others.
LEMMA EmitFacts ==
    ASSUME StoreIInv, NEW r \in Runs, NEW signal, Emit(r, signal)
    PROVE  /\ StoreIInv'
           /\ StoreMoves
           /\ \A q \in Runs : \A e \in EventsOf(q)' :
                 e \in EventsOf(q) \/ (q = r /\ e = NewEvent(r, signal))
<1>1. StoreIInv'
  BY EmitKeepsTypes, EmitKeepsWindow DEF StoreIInv
<1>2. signal \in SafeEventSummaries
  BY DEF Emit
<1>3. /\ events'[r] = BoundedAppend(events[r], NewEvent(r, signal))
      /\ nextSequence'[r] = nextSequence[r] + 1 /\ emitted'[r] = emitted[r] + 1
      /\ \A q \in Runs \ {r} :
            /\ emitted'[q] = emitted[q]
            /\ events'[q] = <<>> \/ events'[q] = events[q]
            /\ nextSequence'[q] = 0 \/ nextSequence'[q] = nextSequence[q]
  BY DEF Emit, StoreIInv, StoreTypeOK
<1>4. \A q \in Runs : emitted[q] \in Nat /\ nextSequence[q] \in Nat /\ nextSequence[q] <= emitted[q]
  BY DEF StoreIInv, StoreTypeOK, StoreInv, TailIsWindow
<1>5. StoreMoves
  <2> SUFFICES ASSUME NEW q \in Runs
               PROVE  /\ emitted'[q] \in Nat /\ nextSequence'[q] \in Nat
                      /\ emitted[q] <= emitted'[q]
                      /\ emitted[q] + nextSequence'[q] <= emitted'[q] + nextSequence[q]
                      /\ NothingDropped(q)' => NothingDropped(q)
    BY DEF StoreMoves
  <2>1. CASE q = r
    BY <1>3, <1>4, <2>1, CapacityAssumption DEF NothingDropped
  <2>2. CASE q # r
    BY <1>3, <1>4, <2>2 DEF NothingDropped
  <2> QED
    BY <2>1, <2>2
<1>6. ASSUME NEW q \in Runs, NEW e \in EventsOf(q)'
      PROVE  e \in EventsOf(q) \/ (q = r /\ e = NewEvent(r, signal))
  <2>1. CASE q = r
    <3> DEFINE t == BoundedAppend(events[r], NewEvent(r, signal))
               cut == IF Len(events[r]) < MaxEventsPerRun THEN 0 ELSE 1
    <3>1. /\ t \in Seq(ProgressEvents)
          /\ Len(t) = Len(events[r]) + 1 - cut
          /\ t[Len(t)] = NewEvent(r, signal)
          /\ \A i \in 1 .. (Len(t) - 1) : t[i] = events[r][i + cut]
      BY <1>2, NewEventType, BoundedAppendProperties
         DEF StoreIInv, StoreTypeOK, StoreInv, MemoryBounded
    <3>2. /\ Len(events[r]) \in Nat /\ DOMAIN events[r] = 1 .. Len(events[r])
          /\ Len(t) \in Nat /\ DOMAIN t = 1 .. Len(t) /\ cut \in {0, 1}
      BY <3>1, LenProperties DEF StoreIInv, StoreTypeOK
    <3>3. events'[q] = t
      BY <1>3, <2>1
    <3> HIDE DEF t, cut
    <3>4. PICK i \in 1 .. Len(t) : e = t[i]
      BY <3>2, <3>3 DEF EventsOf
    <3>5. CASE i = Len(t)
      BY <2>1, <3>1, <3>4, <3>5
    <3>6. CASE i # Len(t)
      <4>1. i \in 1 .. (Len(t) - 1) /\ i + cut \in DOMAIN events[r]
        BY <3>1, <3>2, <3>6
      <4> QED
        BY <2>1, <3>1, <3>4, <4>1 DEF EventsOf
    <3> QED
      BY <3>5, <3>6
  <2>2. CASE q # r /\ events'[q] = <<>>
    BY <2>2 DEF EventsOf
  <2>3. CASE q # r /\ events'[q] = events[q]
    BY <2>3 DEF EventsOf
  <2> QED
    BY <1>3, <2>1, <2>2, <2>3
<1> QED
  BY <1>1, <1>5, <1>6

\* The event an emission adds is the latest of its run.
LEMMA NewEventFacts ==
    ASSUME StoreIInv, NEW r \in Runs, NEW signal
    PROVE  /\ NewEvent(r, signal).signal = signal
           /\ NewEvent(r, signal).timestamp = emitted[r] + 1
  BY DEF NewEvent

\* A restart leaves an empty store.
LEMMA ResetFacts ==
    ASSUME StoreIInv, Reset
    PROVE  StoreIInv' /\ StoreMoves /\ \A q \in Runs : EventsOf(q)' = {}
<1>1. StoreIInv'
  BY StoreTypeStep, StoreInvStep DEF StoreIInv, StoreNext
<1>2. \A q \in Runs : emitted[q] \in Nat /\ nextSequence[q] \in Nat /\ nextSequence[q] <= emitted[q]
  BY DEF StoreIInv, StoreTypeOK, StoreInv, TailIsWindow
<1>3. \A q \in Runs : nextSequence'[q] = 0 /\ emitted'[q] = emitted[q] /\ events'[q] = <<>>
  BY DEF Reset
<1>4. StoreMoves
  BY <1>2, <1>3 DEF StoreMoves, NothingDropped
<1>5. \A q \in Runs : EventsOf(q)' = {}
  BY <1>3 DEF EventsOf
<1> QED
  BY <1>1, <1>4, <1>5

\* A step that leaves the store alone.
LEMMA SameStore ==
    ASSUME StoreIInv, UNCHANGED storeVars
    PROVE  StoreIInv' /\ StoreMoves /\ \A q \in Runs : EventsOf(q)' = EventsOf(q)
<1>1. StoreIInv'
  BY StoreTypeStep, StoreInvStep DEF StoreIInv
<1>2. \A q \in Runs : emitted[q] \in Nat /\ nextSequence[q] \in Nat
  BY DEF StoreIInv, StoreTypeOK
<1> QED
  BY <1>1, <1>2 DEF StoreMoves, NothingDropped, EventsOf, storeVars

-----------------------------------------------------------------------------
(* Rows, and steps of others as a stream sees them.                        *)

\* A row comes to be, and is settled once, later than every signal so far.
RowsMove ==
    \A r \in Runs :
        \/ row'[r] = row[r]
        \/ /\ ~RowSettled(r) /\ row'[r].status # "absent"
           /\ RowSettled(r)' => row'[r].completedAt = emitted[r] + 1

\* What a row supports it goes on supporting.
LEMMA RowsKeepPromises ==
    ASSUME RowsMove, NEW r \in Runs, NEW told, Supported(r, told)
    PROVE  Supported(r, told)'
<1> SUFFICES ASSUME NEW status \in Supportable, told.signal = TerminalSignal(status)
             PROVE  row'[r].status = status
  BY DEF Supported
<1>1. row[r].status = status /\ RowSettled(r)
  BY DEF Supported, Supportable, RowSettled, TerminalRunStatuses
<1> QED
  BY <1>1 DEF RowsMove

\* What was signalled before stays before the row.
LEMMA RowsComeAfter ==
    ASSUME RowsMove, NEW r \in Runs, emitted[r] \in Nat, NEW told, told.timestamp \in Nat,
           told.timestamp <= emitted[r], BeforeRow(r, told)
    PROVE  BeforeRow(r, told)'
<1>1. CASE row'[r] = row[r]
  BY <1>1 DEF BeforeRow, RowSettled
<1>2. CASE row'[r] # row[r]
  BY <1>2 DEF BeforeRow, RowSettled, RowsMove
<1> QED
  BY <1>1, <1>2

\* The parts of a stream.
LEMMA StreamTypes ==
    ASSUME TypeOK, NEW s \in Streams
    PROVE  /\ stream[s].frames \in Seq(Frames)
           /\ Len(stream[s].frames) \in Nat
           /\ DOMAIN stream[s].frames = 1 .. Len(stream[s].frames)
           /\ stream[s].last \in Nat
           /\ Sent(s) \subseteq Frames
           /\ \A f \in Sent(s) : f.timestamp \in Nat \ {0} /\ f.signal \in SafeEventSummaries
           /\ stream[s].batch \subseteq ProgressEvents
           /\ \A e \in stream[s].batch :
                 /\ e.timestamp \in Nat \ {0} /\ e.sequence \in Nat \ {0}
                 /\ e.signal \in SafeEventSummaries
<1>1. /\ stream[s].frames \in Seq(Frames) /\ stream[s].last \in Nat
      /\ stream[s].batch \subseteq ProgressEvents
  BY DEF TypeOK
<1>2. /\ Len(stream[s].frames) \in Nat
      /\ DOMAIN stream[s].frames = 1 .. Len(stream[s].frames)
      /\ Sent(s) \subseteq Frames
  BY <1>1, LenProperties, ElementOfSeq DEF Sent
<1> QED
  BY <1>1, <1>2 DEF Frames, ProgressEvents

\* A stream that others leave alone keeps its invariant while rows and store move.
LEMMA OthersMove ==
    ASSUME TypeOK, StoreInv, NEW s \in Streams, StreamInv(s),
           StoreMoves, RowsMove, stream'[s] = stream[s]
    PROVE  StreamInv(s)'
<1> DEFINE r == stream[s].run
<1>1. /\ Sent(s)' = Sent(s) /\ (Open(s)' <=> Open(s))
  BY DEF Sent, Open
<1>2. KnownRun(s)'
  <2>1. stream[s].pc = "new" => stream'[s] = NoStream
    BY DEF StreamInv, KnownRun
  <2>2. stream[s].pc # "new" => r \in Runs /\ row[r].status # "absent"
    BY DEF StreamInv, KnownRun
  <2> QED
    BY <2>1, <2>2 DEF KnownRun, RowsMove
<1>3. Polling(s)'
  <2> SUFFICES ASSUME Open(s)
               PROVE  CursorOK(s)' /\ BatchOK(s)'
                      /\ (NothingDropped(r)' => WithoutGaps(s)')
    BY <1>1 DEF Polling
  <2>1. r \in Runs /\ CursorOK(s) /\ BatchOK(s) /\ (NothingDropped(r) => WithoutGaps(s))
    BY DEF StreamInv, KnownRun, Polling, Open
  <2>2. /\ emitted[r] \in Nat /\ nextSequence[r] \in Nat
        /\ emitted'[r] \in Nat /\ nextSequence'[r] \in Nat
        /\ emitted[r] <= emitted'[r]
        /\ emitted[r] + nextSequence'[r] <= emitted'[r] + nextSequence[r]
    BY <2>1 DEF StoreMoves, TypeOK, StoreTypeOK
  <2>3. ASSUME NEW told, told.timestamp \in Nat, NEW n \in Nat,
               told.timestamp <= emitted[r], NotAhead(r, told, n)
        PROVE  told.timestamp <= emitted'[r] /\ NotAhead(r, told, n)'
    BY <2>2, <2>3 DEF NotAhead
  <2>4. CursorOK(s)'
    <3> SUFFICES ASSUME NEW f \in Sent(s)
                 PROVE  f.timestamp <= emitted'[r]
                        /\ NotAhead(r, f, stream[s].last)' /\ BeforeRow(r, f)'
      BY <1>1 DEF CursorOK, NotAhead, BeforeRow, RowSettled
    <3>1. f.timestamp \in Nat /\ stream[s].last \in Nat
      BY StreamTypes
    <3>2. f.timestamp <= emitted[r] /\ NotAhead(r, f, stream[s].last) /\ BeforeRow(r, f)
      BY <2>1 DEF CursorOK
    <3>3. BeforeRow(r, f)'
      BY <2>1, <2>2, <3>1, <3>2, RowsComeAfter
    <3>4. f.timestamp <= emitted'[r] /\ NotAhead(r, f, stream[s].last)'
      BY <2>2, <3>1, <3>2 DEF NotAhead
    <3> QED
      BY <3>3, <3>4
  <2>5. BatchOK(s)'
    <3>1. ASSUME NEW e \in stream[s].batch
          PROVE  /\ e.timestamp <= emitted'[r] /\ NotAhead(r, e, e.sequence)'
                 /\ BeforeRow(r, e)' /\ Supported(r, e)'
      <4>1. e.timestamp \in Nat /\ e.sequence \in Nat
        BY StreamTypes
      <4>2. e.timestamp <= emitted[r] /\ NotAhead(r, e, e.sequence)
            /\ BeforeRow(r, e) /\ Supported(r, e)
        BY <2>1 DEF BatchOK
      <4>3. BeforeRow(r, e)'
        BY <2>1, <2>2, <4>1, <4>2, RowsComeAfter
      <4>4. Supported(r, e)'
        BY <2>1, <4>2, RowsKeepPromises
      <4>5. e.timestamp <= emitted'[r] /\ NotAhead(r, e, e.sequence)'
        BY <2>2, <4>1, <4>2 DEF NotAhead
      <4> QED
        BY <4>3, <4>4, <4>5
    <3> QED
      BY <1>1, <2>1, <3>1 DEF BatchOK, NotAhead, BeforeRow, RowSettled, Supported
  <2>6. NothingDropped(r)' => WithoutGaps(s)'
    BY <2>1 DEF StoreMoves, WithoutGaps
  <2> QED
    BY <2>4, <2>5, <2>6
<1>4. Truthful(s)'
  <2> SUFFICES ASSUME stream[s].pc # "new", NEW f \in Sent(s)
               PROVE  Supported(r, f)'
    BY <1>1 DEF Truthful, Supported
  <2>1. r \in Runs /\ Supported(r, f)
    BY DEF StreamInv, KnownRun, Truthful
  <2> QED
    BY <2>1, RowsKeepPromises
<1>5. Ordered(s)' /\ Ends(s)'
  BY DEF StreamInv, Ordered, Ends
<1>6. Gapless(s)'
  BY DEF StreamInv, Gapless, StoreMoves
<1> QED
  BY <1>2, <1>3, <1>4, <1>5, <1>6 DEF StreamInv

\* A stream the client or the process gives up.
LEMMA GivenUp ==
    ASSUME TypeOK, StoreInv, NEW s \in Streams, StreamInv(s), StoreMoves, RowsMove,
           Open(s), stream'[s].pc = "gone", stream'[s].run = stream[s].run,
           stream'[s].frames = stream[s].frames
    PROVE  StreamInv(s)'
<1> DEFINE r == stream[s].run
<1>1. /\ stream'[s].pc = "gone" /\ stream'[s].run = r
      /\ stream'[s].frames = stream[s].frames /\ Sent(s)' = Sent(s)
  BY DEF Sent
<1>2. r \in Runs /\ row[r].status # "absent" /\ Truthful(s)
  BY DEF StreamInv, KnownRun, Open
<1>3. KnownRun(s)'
  BY <1>1, <1>2 DEF KnownRun, RowsMove
<1>4. Polling(s)'
  BY <1>1 DEF Polling, Open
<1>5. Truthful(s)'
  <2> SUFFICES ASSUME NEW f \in Sent(s) PROVE Supported(r, f)'
    BY <1>1 DEF Truthful, Supported
  <2>1. Supported(r, f)
    BY <1>2 DEF Truthful, Open
  <2> QED
    BY <1>2, <2>1, RowsKeepPromises
<1>6. Ordered(s)' /\ Ends(s)'
  BY <1>1 DEF StreamInv, Ordered, Ends, Open
<1>7. Gapless(s)'
  BY <1>1 DEF StreamInv, Gapless, StoreMoves
<1> QED
  BY <1>3, <1>4, <1>5, <1>6, <1>7 DEF StreamInv

-----------------------------------------------------------------------------
(* The steps of a stream.                                                  *)

\* A stream step leaves store and rows alone.
Frozen == UNCHANGED <<storeVars, row>>

LEMMA FrozenMoves ==
    ASSUME TypeOK, StoreInv, Frozen
    PROVE  StoreMoves /\ RowsMove
  BY SameStore DEF Frozen, StoreIInv, TypeOK, RowsMove

\* What a frozen step does not change of r.
LEMMA FrozenFacts ==
    ASSUME Frozen, NEW r, NEW told, NEW n
    PROVE  /\ Supported(r, told)' <=> Supported(r, told)
           /\ BeforeRow(r, told)' <=> BeforeRow(r, told)
           /\ NotAhead(r, told, n)' <=> NotAhead(r, told, n)
           /\ NothingDropped(r)' <=> NothingDropped(r)
           /\ emitted'[r] = emitted[r] /\ row'[r] = row[r]
  BY DEF Frozen, storeVars, Supported, BeforeRow, NotAhead, NothingDropped, RowSettled

\* A stream that only goes on to its next point.
LEMMA GoesOn ==
    ASSUME TypeOK, StoreInv, NEW s \in Streams, StreamInv(s), Frozen, Open(s),
           NEW pc \in {"poll", "sleep"}, stream'[s] = [stream[s] EXCEPT !.pc = pc]
    PROVE  StreamInv(s)'
<1> DEFINE r == stream[s].run
<1>1. /\ stream'[s].pc = pc /\ stream'[s].run = r /\ stream'[s].last = stream[s].last
      /\ stream'[s].batch = stream[s].batch
      /\ stream'[s].frames = stream[s].frames /\ Sent(s)' = Sent(s) /\ Open(s)'
  BY DEF TypeOK, Sent, Open
<1>2. KnownRun(s)' /\ Truthful(s)' /\ Gapless(s)'
  <2>1. KnownRun(s)'
    BY <1>1, FrozenFacts DEF StreamInv, KnownRun, Open
  <2>2. Truthful(s)'
    BY <1>1, FrozenFacts DEF StreamInv, Truthful, Open
  <2>3. Gapless(s)'
    BY <1>1, FrozenFacts DEF StreamInv, Gapless
  <2> QED
    BY <2>1, <2>2, <2>3
<1>3. Ordered(s)' /\ Ends(s)'
  BY <1>1 DEF StreamInv, Ordered, Ends, Open
<1>4. Polling(s)'
  <2>1. CursorOK(s)'
    BY <1>1, FrozenFacts DEF StreamInv, Polling, CursorOK
  <2>2. BatchOK(s)'
    BY <1>1, FrozenFacts DEF StreamInv, Polling, BatchOK
  <2>3. NothingDropped(r)' => WithoutGaps(s)'
    BY <1>1, FrozenFacts DEF StreamInv, Polling, WithoutGaps
  <2> QED
    BY <1>1, <2>1, <2>2, <2>3 DEF Polling
<1> QED
  BY <1>2, <1>3, <1>4 DEF StreamInv

\* A new stream has sent nothing.
LEMMA Subscribes ==
    ASSUME TypeOK, StoreInv, NEW s \in Streams, NEW r \in Runs, Subscribe(s, r)
    PROVE  StreamInv(s)'
<1>1. /\ stream'[s] = [pc |-> "poll", run |-> r, last |-> 0, batch |-> {}, frames |-> <<>>]
      /\ row'[r].status # "absent"
  BY DEF Subscribe, Set, TypeOK, NoStream
<1>2. /\ stream'[s].pc = "poll" /\ stream'[s].run = r /\ stream'[s].last = 0
      /\ stream'[s].batch = {} /\ stream'[s].frames = <<>> /\ Len(stream'[s].frames) = 0
      /\ DOMAIN stream'[s].frames = {} /\ Sent(s)' = {}
  BY <1>1 DEF Sent
<1> QED
  BY <1>1, <1>2
     DEF StreamInv, KnownRun, Polling, CursorOK, BatchOK, WithoutGaps, Truthful, Ordered, Ends, Gapless

\* A new batch is ahead of the cursor, so later than every frame.
LEMMA Fetches ==
    ASSUME TypeOK, StoreInv, NEW s \in Streams, StreamInv(s),
           StoreTrue(stream[s].run), Fetch(s)
    PROVE  StreamInv(s)'
<1> DEFINE r == stream[s].run
           last == stream[s].last
           batch == After(r, last)
<1>1. /\ stream'[s].pc \in {"readRow", "yield"} /\ stream'[s].run = r
      /\ stream'[s].last = last /\ stream'[s].batch = batch
      /\ stream'[s].frames = stream[s].frames /\ Sent(s)' = Sent(s) /\ Open(s)'
  BY DEF Fetch, Set, TypeOK, Sent, Open
<1>2. Frozen /\ stream[s].pc = "poll" /\ Open(s)
  BY DEF Fetch, Frozen, Open
<1>3. r \in Runs
  BY <1>2 DEF StreamInv, KnownRun
<1>4. batch = {e \in EventsOf(r) : e.sequence > last}
  BY DEF After, EventsOf
<1>5. StoreIInv
  BY DEF StoreIInv, TypeOK
<1> HIDE DEF batch
<1>6. KnownRun(s)' /\ Truthful(s)' /\ Gapless(s)'
  BY <1>1, <1>2, FrozenFacts DEF StreamInv, KnownRun, Truthful, Gapless
<1>7. Ordered(s)' /\ Ends(s)'
  BY <1>1, <1>2 DEF StreamInv, Ordered, Ends
<1>8. CursorOK(s)'
  BY <1>1, <1>2, FrozenFacts DEF StreamInv, Polling, CursorOK
<1>9. BatchOK(s)'
  <2> SUFFICES ASSUME NEW e \in batch
               PROVE  /\ e.timestamp <= emitted[r] /\ NotAhead(r, e, e.sequence)
                      /\ BeforeRow(r, e) /\ Supported(r, e)
                      /\ e.sequence > last
                      /\ \A f \in Sent(s) : f.timestamp < e.timestamp
                      /\ \A other \in batch :
                            /\ e.sequence < other.sequence => e.timestamp < other.timestamp
                            /\ e.sequence = other.sequence => e = other
    BY <1>1, <1>2, FrozenFacts DEF BatchOK
  <2>1. /\ e \in EventsOf(r) /\ e.sequence > last
        /\ e.timestamp \in Nat /\ e.sequence \in Nat
        /\ e.timestamp <= emitted[r] /\ emitted[r] \in Nat /\ nextSequence[r] \in Nat
        /\ e.timestamp + nextSequence[r] = emitted[r] + e.sequence
    BY <1>3, <1>4, <1>5, WindowFacts
  <2>2. NotAhead(r, e, e.sequence)
    BY <2>1 DEF NotAhead
  <2>3. BeforeRow(r, e) /\ Supported(r, e)
    BY <2>1 DEF StoreTrue
  <2>4. ASSUME NEW f \in Sent(s)
        PROVE  f.timestamp < e.timestamp
    <3>1. f.timestamp \in Nat /\ last \in Nat
      BY StreamTypes
    <3>2. f.timestamp + nextSequence[r] <= emitted[r] + last
      BY <1>2 DEF StreamInv, Polling, CursorOK, NotAhead
    <3> QED
      BY <2>1, <3>1, <3>2
  <2>5. ASSUME NEW other \in batch
        PROVE  /\ e.sequence < other.sequence => e.timestamp < other.timestamp
               /\ e.sequence = other.sequence => e = other
    <3>1. /\ other \in EventsOf(r) /\ other.timestamp \in Nat /\ other.sequence \in Nat
          /\ other.timestamp + nextSequence[r] = emitted[r] + other.sequence
      BY <1>3, <1>4, <1>5, WindowFacts
    <3>2. e.sequence = other.sequence => e = other
      BY <1>3, <1>5, <2>1, <3>1, WindowFacts
    <3> QED
      BY <2>1, <3>1, <3>2
  <2> QED
    BY <2>1, <2>2, <2>3, <2>4, <2>5
<1>10. ASSUME NothingDropped(r)
       PROVE  WithoutGaps(s)'
  <2>1. WithoutGaps(s)
    BY <1>2, <1>10 DEF StreamInv, Polling
  <2>2. ASSUME NEW e \in batch
        PROVE  /\ e.timestamp = e.sequence
               /\ \A n \in (last + 1) .. e.sequence : \E other \in batch : other.sequence = n
    <3>1. /\ e \in EventsOf(r) /\ e.sequence > last /\ last \in Nat
          /\ e.timestamp \in Nat /\ e.sequence \in Nat
          /\ emitted[r] \in Nat /\ nextSequence[r] = emitted[r]
          /\ e.timestamp + nextSequence[r] = emitted[r] + e.sequence
      BY <1>3, <1>4, <1>5, <1>10, WindowFacts, StreamTypes DEF NothingDropped
    <3>2. ASSUME NEW n \in (last + 1) .. e.sequence
          PROVE  \E other \in batch : other.sequence = n
      <4>1. n \in 1 .. e.sequence /\ n > last
        BY <3>1
      <4>2. PICK f \in EventsOf(r) : f.sequence = n
        BY <1>3, <1>5, <1>10, <3>1, <4>1, WindowFacts
      <4> QED
        BY <1>4, <4>1, <4>2
    <3> QED
      BY <3>1, <3>2
  <2> QED
    BY <1>1, <2>1, <2>2 DEF WithoutGaps
<1>11. Polling(s)'
  BY <1>1, <1>2, <1>8, <1>9, <1>10, FrozenFacts DEF Polling
<1> QED
  BY <1>6, <1>7, <1>11 DEF StreamInv

\* Sending one more frame.
LEMMA AppendFrame ==
    ASSUME NEW q \in Seq(Frames), NEW x \in Frames
    PROVE  LET p == Append(q, x)
           IN  /\ p \in Seq(Frames) /\ Len(p) = Len(q) + 1 /\ p # <<>>
               /\ Len(q) \in Nat
               /\ DOMAIN q = 1 .. Len(q) /\ DOMAIN p = 1 .. (Len(q) + 1)
               /\ \A i \in 1 .. Len(q) : p[i] = q[i]
               /\ p[Len(q) + 1] = x
               /\ {p[i] : i \in DOMAIN p} = {q[i] : i \in DOMAIN q} \cup {x}
<1> DEFINE p == Append(q, x)
<1>1. /\ p \in Seq(Frames) /\ Len(p) = Len(q) + 1 /\ Len(q) \in Nat
      /\ \A i \in 1 .. Len(q) : p[i] = q[i]
      /\ p[Len(q) + 1] = x
  BY AppendProperties, LenProperties
<1> HIDE DEF p
<1>2. DOMAIN q = 1 .. Len(q) /\ DOMAIN p = 1 .. (Len(q) + 1)
  BY <1>1, LenProperties
<1>3. p # <<>>
  BY <1>1, EmptySeq
<1>4. {p[i] : i \in DOMAIN p} = {q[i] : i \in DOMAIN q} \cup {x}
  <2>1. ASSUME NEW i \in DOMAIN p PROVE p[i] \in {q[j] : j \in DOMAIN q} \cup {x}
    <3>1. CASE i \in 1 .. Len(q)
      BY <1>1, <1>2, <3>1
    <3>2. CASE i = Len(q) + 1
      BY <1>1, <3>2
    <3> QED
      BY <1>1, <1>2, <3>1, <3>2
  <2>2. ASSUME NEW j \in DOMAIN q PROVE \E i \in DOMAIN p : p[i] = q[j]
    <3>1. j \in DOMAIN p /\ p[j] = q[j]
      BY <1>1, <1>2
    <3> QED
      BY <3>1
  <2>3. \E i \in DOMAIN p : p[i] = x
    <3>1. Len(q) + 1 \in DOMAIN p
      BY <1>1, <1>2
    <3> QED
      BY <1>1, <3>1
  <2> QED
    BY <2>1, <2>2, <2>3
<1> QED
  BY <1>1, <1>2, <1>3, <1>4 DEF p

\* What becomes of the frames when one is sent that is later than all before, and
\* closes the stream exactly when it is terminal.
LEMMA OneMoreFrame ==
    ASSUME TypeOK, StoreInv, NEW s \in Streams, StreamInv(s), Frozen, Open(s),
           NEW x \in Frames, x.timestamp \in Nat, Supported(stream[s].run, x),
           \A f \in Sent(s) : f.timestamp < x.timestamp,
           stream'[s].frames = Append(stream[s].frames, x),
           stream'[s].run = stream[s].run,
           stream'[s].pc # "new",
           IsTerminal(x.signal) <=> stream'[s].pc = "closed",
           NothingDropped(stream[s].run) =>
               /\ x.timestamp > Len(stream[s].frames)
               /\ ~IsTerminal(x.signal) => x.timestamp = Len(stream[s].frames) + 1
    PROVE  KnownRun(s)' /\ Truthful(s)' /\ Ordered(s)' /\ Ends(s)' /\ Gapless(s)'
<1> DEFINE r == stream[s].run
           q == stream[s].frames
           p == stream'[s].frames
<1>1. q \in Seq(Frames)
  BY StreamTypes
<1>2. /\ Len(p) = Len(q) + 1 /\ p # <<>> /\ Len(q) \in Nat
      /\ DOMAIN q = 1 .. Len(q) /\ DOMAIN p = 1 .. (Len(q) + 1)
      /\ \A i \in 1 .. Len(q) : p[i] = q[i]
      /\ p[Len(q) + 1] = x
      /\ Sent(s)' = Sent(s) \cup {x}
  <2>1. /\ Len(p) = Len(q) + 1 /\ p # <<>> /\ Len(q) \in Nat
        /\ DOMAIN q = 1 .. Len(q) /\ DOMAIN p = 1 .. (Len(q) + 1)
        /\ \A i \in 1 .. Len(q) : p[i] = q[i]
        /\ p[Len(q) + 1] = x
    BY <1>1, AppendFrame
  <2>2. {p[i] : i \in DOMAIN p} = {q[i] : i \in DOMAIN q} \cup {x}
    <3>1. p = Append(q, x)
      OBVIOUS
    <3> HIDE DEF p, q
    <3> QED
      BY <1>1, <3>1, AppendFrame
  <2>3. Sent(s)' = Sent(s) \cup {x}
    BY <2>2 DEF Sent
  <2> QED
    BY <2>1, <2>3
<1>3. r \in Runs /\ row[r].status # "absent" /\ stream[s].pc # "closed" /\ stream[s].pc # "new"
  BY DEF StreamInv, KnownRun, Open
<1>4. \A i \in 1 .. Len(q) : q[i] \in Sent(s) /\ q[i].timestamp \in Nat
  BY <1>2, StreamTypes DEF Sent
<1>5. KnownRun(s)'
  BY <1>3, FrozenFacts DEF KnownRun
<1>6. Truthful(s)'
  <2>1. \A f \in Sent(s) \cup {x} : Supported(r, f)
    BY <1>3 DEF StreamInv, Truthful
  <2> QED
    BY <1>2, <2>1, FrozenFacts DEF Truthful
<1>7. Ordered(s)'
  <2> SUFFICES ASSUME NEW i \in 1 .. (Len(q) + 1), NEW j \in 1 .. (Len(q) + 1), i < j
               PROVE  p[i].timestamp < p[j].timestamp
    BY <1>2 DEF Ordered
  <2>1. i \in 1 .. Len(q) /\ p[i] = q[i]
    BY <1>2
  <2>2. CASE j = Len(q) + 1
    BY <1>2, <1>4, <2>1, <2>2
  <2>3. CASE j \in 1 .. Len(q)
    <3>1. p[j] = q[j]
      BY <1>2, <2>3
    <3>2. q[i].timestamp < q[j].timestamp
      BY <1>2, <2>1, <2>3 DEF StreamInv, Ordered
    <3> QED
      BY <2>1, <3>1, <3>2
  <2> QED
    BY <1>2, <2>2, <2>3
<1>8. Ends(s)'
  <2>1. ASSUME NEW i \in 1 .. (Len(q) + 1), IsTerminal(p[i].signal)
        PROVE  i = Len(p) /\ stream'[s].pc = "closed"
    <3>1. CASE i \in 1 .. Len(q)
      BY <1>2, <1>3, <2>1, <3>1 DEF StreamInv, Ends
    <3>2. CASE i = Len(q) + 1
      BY <1>2, <2>1, <3>2
    <3> QED
      BY <1>2, <3>1, <3>2
  <2>2. stream'[s].pc = "closed" => IsTerminal(p[Len(p)].signal)
    BY <1>2
  <2> QED
    BY <1>2, <2>1, <2>2 DEF Ends
<1>9. Gapless(s)'
  <2> SUFFICES ASSUME NothingDropped(r), NEW i \in 1 .. (Len(q) + 1)
               PROVE  /\ p[i].timestamp >= i
                      /\ i < Len(p) => p[i].timestamp = i
    BY <1>2, FrozenFacts DEF Gapless
  <2>1. CASE i \in 1 .. Len(q)
    <3>1. q[i].timestamp = i
      BY <1>2, <2>1 DEF StreamInv, Polling, WithoutGaps
    <3> QED
      BY <1>2, <2>1, <3>1
  <2>2. CASE i = Len(q) + 1
    <3>1. x.timestamp > Len(q)
      OBVIOUS
    <3> QED
      BY <1>2, <2>2, <3>1
  <2> QED
    BY <1>2, <2>1, <2>2
<1> QED
  BY <1>5, <1>6, <1>7, <1>8, <1>9

\* The next event of the batch is sent.
LEMMA Yields ==
    ASSUME TypeOK, StoreInv, NEW s \in Streams, StreamInv(s), YieldEvent(s)
    PROVE  StreamInv(s)'
<1> DEFINE r == stream[s].run
           last == stream[s].last
           batch == stream[s].batch
           q == stream[s].frames
<1>1. Frozen /\ Open(s)
  BY DEF YieldEvent, Frozen, Open
<1>2. PICK e \in batch :
          /\ \A other \in batch : e.sequence <= other.sequence
          /\ stream' = [stream EXCEPT ![s] = Deliver(s, e)]
  BY DEF YieldEvent, Set
<1> DEFINE x == Frame(e)
<1>3. /\ stream'[s].run = r /\ stream'[s].last = e.sequence
      /\ stream'[s].batch = batch \ {e} /\ stream'[s].frames = Append(q, x)
      /\ stream'[s].pc \in {"closed", "readRow", "yield"}
      /\ stream'[s].pc = "closed" <=> IsTerminal(e.signal)
  BY <1>2 DEF Deliver, TypeOK
<1>4. /\ x.signal = e.signal /\ x.timestamp = e.timestamp
      /\ e.timestamp \in Nat \ {0} /\ e.sequence \in Nat \ {0}
      /\ e.signal \in SafeEventSummaries /\ x \in Frames
  BY StreamTypes DEF Frame, Frames
<1>5. r \in Runs /\ CursorOK(s) /\ BatchOK(s) /\ (NothingDropped(r) => WithoutGaps(s))
  BY <1>1 DEF StreamInv, KnownRun, Polling, Open
<1>6. /\ Supported(r, x) /\ BeforeRow(r, x)
      /\ \A f \in Sent(s) : f.timestamp < x.timestamp
      /\ e.timestamp <= emitted[r] /\ NotAhead(r, e, e.sequence) /\ e.sequence > last
  BY <1>4, <1>5 DEF BatchOK, Supported, BeforeRow
<1>7. ASSUME NothingDropped(r)
      PROVE  /\ last = Len(q) /\ e.sequence = last + 1 /\ e.timestamp = last + 1
  <2>1. WithoutGaps(s) /\ last = Len(q) /\ last \in Nat
    BY <1>5, <1>7, StreamTypes DEF WithoutGaps
  <2>2. PICK other \in batch : other.sequence = last + 1
    <3>1. last + 1 \in (last + 1) .. e.sequence
      BY <1>4, <1>6, <2>1
    <3> QED
      BY <2>1, <3>1 DEF WithoutGaps
  <2>3. e.sequence <= other.sequence
    BY <1>2
  <2>4. e.sequence = last + 1
    BY <1>4, <1>6, <2>1, <2>2, <2>3
  <2> QED
    BY <2>1, <2>4 DEF WithoutGaps
<1>8. Sent(s)' = Sent(s) \cup {x}
  <2> DEFINE p == stream'[s].frames
  <2>1. q \in Seq(Frames) /\ x \in Frames /\ p = Append(q, x)
    BY <1>3, <1>4, StreamTypes
  <2> HIDE DEF x, q, p
  <2>2. {p[i] : i \in DOMAIN p} = {q[i] : i \in DOMAIN q} \cup {x}
    BY <2>1, AppendFrame
  <2> QED
    BY <2>2 DEF Sent, q, p
<1> HIDE DEF x
<1>9. KnownRun(s)' /\ Truthful(s)' /\ Ordered(s)' /\ Ends(s)' /\ Gapless(s)'
  <2>1. NothingDropped(r) => /\ x.timestamp > Len(q)
                             /\ ~IsTerminal(x.signal) => x.timestamp = Len(q) + 1
    BY <1>4, <1>7, StreamTypes
  <2> QED
    BY <1>1, <1>3, <1>4, <1>6, <2>1, OneMoreFrame
<1>10. ASSUME Open(s)'
       PROVE  CursorOK(s)' /\ BatchOK(s)' /\ (NothingDropped(r)' => WithoutGaps(s)')
  <2>0. emitted[r] \in Nat /\ nextSequence[r] \in Nat /\ last \in Nat
    BY <1>5, StreamTypes DEF TypeOK, StoreTypeOK
  <2>1. CursorOK(s)'
    <3> SUFFICES ASSUME NEW f \in Sent(s) \cup {x}
                 PROVE  f.timestamp <= emitted[r] /\ NotAhead(r, f, e.sequence)
                        /\ BeforeRow(r, f)
      BY <1>1, <1>3, <1>8, FrozenFacts DEF CursorOK
    <3>1. CASE f = x
      BY <1>4, <1>6, <3>1 DEF NotAhead
    <3>2. CASE f \in Sent(s)
      <4>1. /\ f.timestamp <= emitted[r] /\ BeforeRow(r, f) /\ f.timestamp \in Nat
            /\ f.timestamp + nextSequence[r] <= emitted[r] + last
        BY <1>5, <3>2, StreamTypes DEF CursorOK, NotAhead
      <4> QED
        BY <1>4, <1>6, <2>0, <4>1 DEF NotAhead
    <3> QED
      BY <3>1, <3>2
  <2>2. BatchOK(s)'
    <3> SUFFICES ASSUME NEW d \in batch \ {e}
                 PROVE  /\ d.timestamp <= emitted[r] /\ NotAhead(r, d, d.sequence)
                        /\ BeforeRow(r, d) /\ Supported(r, d)
                        /\ d.sequence > e.sequence
                        /\ \A f \in Sent(s) \cup {x} : f.timestamp < d.timestamp
                        /\ \A other \in batch \ {e} :
                              /\ d.sequence < other.sequence => d.timestamp < other.timestamp
                              /\ d.sequence = other.sequence => d = other
      BY <1>1, <1>3, <1>8, FrozenFacts DEF BatchOK
    <3>1. /\ d.timestamp <= emitted[r] /\ NotAhead(r, d, d.sequence)
          /\ BeforeRow(r, d) /\ Supported(r, d)
          /\ \A f \in Sent(s) : f.timestamp < d.timestamp
          /\ \A other \in batch \ {e} :
                /\ d.sequence < other.sequence => d.timestamp < other.timestamp
                /\ d.sequence = other.sequence => d = other
      BY <1>5 DEF BatchOK
    <3>2. e.sequence <= d.sequence /\ e.sequence # d.sequence
      BY <1>2, <1>5 DEF BatchOK
    <3>3. d.sequence \in Nat /\ d.sequence > e.sequence
      BY <1>4, <3>2, StreamTypes
    <3>4. x.timestamp < d.timestamp
      BY <1>4, <1>5, <3>3 DEF BatchOK
    <3> QED
      BY <3>1, <3>3, <3>4
  <2>3. ASSUME NothingDropped(r)
        PROVE  WithoutGaps(s)'
    <3>1. WithoutGaps(s) /\ last = Len(q) /\ e.sequence = last + 1 /\ x.timestamp = last + 1
      BY <1>4, <1>5, <1>7, <2>3
    <3>2. /\ Len(q) \in Nat
          /\ Len(stream'[s].frames) = Len(q) + 1
          /\ DOMAIN stream'[s].frames = 1 .. (Len(q) + 1)
          /\ DOMAIN q = 1 .. Len(q)
          /\ \A i \in 1 .. Len(q) : stream'[s].frames[i] = q[i]
          /\ stream'[s].frames[Len(q) + 1] = x
      BY <1>3, <1>4, AppendFrame, StreamTypes
    <3>3. \A i \in DOMAIN stream'[s].frames : stream'[s].frames[i].timestamp = i
      <4> SUFFICES ASSUME NEW i \in 1 .. (Len(q) + 1)
                   PROVE  stream'[s].frames[i].timestamp = i
        BY <3>2
      <4>1. CASE i = Len(q) + 1
        BY <3>1, <3>2, <4>1
      <4>2. CASE i \in 1 .. Len(q)
        BY <3>1, <3>2, <4>2 DEF WithoutGaps
      <4> QED
        BY <3>2, <4>1, <4>2
    <3>4. ASSUME NEW d \in batch \ {e}
          PROVE  /\ d.timestamp = d.sequence
                 /\ \A n \in (e.sequence + 1) .. d.sequence :
                       \E other \in batch \ {e} : other.sequence = n
      <4>1. d.timestamp = d.sequence
        BY <3>1 DEF WithoutGaps
      <4>2. ASSUME NEW n \in (e.sequence + 1) .. d.sequence
            PROVE  \E other \in batch \ {e} : other.sequence = n
        <5>1. n \in (last + 1) .. d.sequence /\ n # e.sequence
          BY <1>4, <2>0, <3>1
        <5>2. PICK other \in batch : other.sequence = n
          BY <3>1, <5>1 DEF WithoutGaps
        <5> QED
          BY <5>1, <5>2
      <4> QED
        BY <4>1, <4>2
    <3>5. stream'[s].last = Len(stream'[s].frames)
      BY <1>3, <3>1, <3>2
    <3>6. \A d \in stream'[s].batch :
              /\ d.timestamp = d.sequence
              /\ \A n \in (stream'[s].last + 1) .. d.sequence :
                    \E other \in stream'[s].batch : other.sequence = n
      BY <1>3, <3>4
    <3> QED
      BY <3>3, <3>5, <3>6 DEF WithoutGaps
  <2>4. NothingDropped(r)' <=> NothingDropped(r)
    BY <1>1, <1>3, FrozenFacts
  <2> QED
    BY <2>1, <2>2, <2>3, <2>4
<1>11. Polling(s)'
  BY <1>3, <1>10 DEF Polling
<1> QED
  BY <1>9, <1>11 DEF StreamInv

\* The row answers: a terminal frame later than every signal, or a pause.
LEMMA ReadsRow ==
    ASSUME TypeOK, StoreInv, NEW s \in Streams, StreamInv(s),
           JobRow(stream[s].run), ReadRow(s)
    PROVE  StreamInv(s)'
<1> DEFINE r == stream[s].run
           q == stream[s].frames
           x == [signal |-> TerminalSignal(row[r].status), timestamp |-> row[r].completedAt]
<1>1. Frozen /\ Open(s) /\ stream' = [stream EXCEPT ![s] = AfterRow(s)]
  BY DEF ReadRow, Set, Frozen, Open
<1>2. r \in Runs /\ row[r].status # "absent" /\ CursorOK(s) /\ (NothingDropped(r) => WithoutGaps(s))
  BY <1>1 DEF StreamInv, KnownRun, Polling, Open
<1>3. CASE RowSettled(r)
  <2>1. stream'[s] = [stream[s] EXCEPT !.pc = "closed", !.frames = Append(@, x)]
    BY <1>1, <1>2, <1>3 DEF AfterRow, TypeOK
  <2>2. /\ stream'[s].pc = "closed" /\ stream'[s].run = r /\ stream'[s].frames = Append(q, x)
    BY <2>1 DEF TypeOK
  <2>3. /\ row[r].status \in TerminalRunStatuses
        /\ row[r].completedAt \in Nat \ {0}
    BY <1>2, <1>3 DEF RowSettled, JobRow, TypeOK
  <2>4. x \in Frames /\ IsTerminal(x.signal) /\ x.timestamp = row[r].completedAt
    BY <2>3, TerminalSignals DEF Frames
  <2>5. Supported(r, x)
    BY <2>3, TerminalSignals DEF Supported, Supportable, TerminalRunStatuses
  <2>6. \A f \in Sent(s) : f.timestamp < x.timestamp
    <3> SUFFICES ASSUME NEW f \in Sent(s) PROVE f.timestamp < row[r].completedAt
      BY <2>4
    <3>1. ~IsTerminal(f.signal)
      BY <1>1 DEF Sent, StreamInv, Ends, Open
    <3> QED
      BY <1>2, <1>3, <3>1 DEF CursorOK, BeforeRow
  <2>7. ASSUME NothingDropped(r)
        PROVE  x.timestamp > Len(q)
    <3>1. Len(q) \in Nat /\ DOMAIN q = 1 .. Len(q) /\ WithoutGaps(s)
      BY <1>2, <2>7, StreamTypes
    <3>2. CASE Len(q) = 0
      BY <2>3, <2>4, <3>2
    <3>3. CASE Len(q) # 0
      <4>1. Len(q) \in DOMAIN q
        BY <3>1, <3>3
      <4>2. q[Len(q)] \in Sent(s) /\ q[Len(q)].timestamp = Len(q)
        BY <3>1, <4>1 DEF Sent, WithoutGaps
      <4>3. Len(q) < row[r].completedAt
        BY <2>4, <2>6, <4>2
      <4> QED
        BY <2>3, <2>4, <3>1, <4>3
    <3> QED
      BY <3>2, <3>3
  <2> HIDE DEF x
  <2>8. KnownRun(s)' /\ Truthful(s)' /\ Ordered(s)' /\ Ends(s)' /\ Gapless(s)'
    BY <1>1, <2>2, <2>3, <2>4, <2>5, <2>6, <2>7, OneMoreFrame
  <2>9. Polling(s)'
    BY <2>2 DEF Polling, Open
  <2> QED
    BY <2>8, <2>9 DEF StreamInv
<1>4. CASE ~RowSettled(r)
  <2>1. stream'[s] = [stream[s] EXCEPT !.pc = "sleep"]
    BY <1>1, <1>2, <1>4 DEF AfterRow, TypeOK
  <2> QED
    BY <1>1, <2>1, GoesOn
<1> QED
  BY <1>3, <1>4

\* Every stream step keeps the types.
LEMMA StreamStepTypes ==
    ASSUME IInv, NEW s \in Streams,
           StreamStep(s) \/ Disconnect(s) \/ (\E r \in Runs : Subscribe(s, r))
    PROVE  TypeOK'
<1> DEFINE Records == [pc : {"new", "poll", "yield", "readRow", "sleep", "closed", "gone"},
                       run : Runs \cup {"none"}, last : Nat,
                       batch : SUBSET ProgressEvents, frames : Seq(Frames)]
<1> SUFFICES \E record \in Records : Set(s, record) /\ UNCHANGED <<storeVars, row, task, crashes>>
  BY DEF IInv, TypeOK, StoreTypeOK, storeVars, Set
<1>0. stream[s] \in Records /\ TypeOK /\ StoreIInv
  BY DEF IInv, TypeOK, StoreIInv
<1>1. ASSUME NEW r \in Runs, Subscribe(s, r)
      PROVE  [NoStream EXCEPT !.pc = "poll", !.run = r] \in Records
  BY EmptySeq DEF NoStream
<1>2. CASE Fetch(s)
  <2> DEFINE batch == After(stream[s].run, stream[s].last)
  <2>1. stream[s].run \in Runs
    BY <1>2 DEF Fetch, IInv, StreamInv, KnownRun
  <2>2. batch \in SUBSET ProgressEvents
    BY <1>0, <2>1, WindowFacts DEF After, EventsOf
  <2> HIDE DEF batch
  <2>3. [stream[s] EXCEPT !.batch = batch, !.pc = IF batch = {} THEN "readRow" ELSE "yield"] \in Records
    BY <1>0, <2>2
  <2> QED
    BY <1>2, <2>3 DEF Fetch, batch
<1>3. CASE YieldEvent(s)
  <2>1. PICK e \in stream[s].batch : Set(s, Deliver(s, e))
    BY <1>3 DEF YieldEvent
  <2>2. e \in ProgressEvents /\ e.sequence \in Nat /\ Frame(e) \in Frames
    BY <1>0, StreamTypes DEF Frame, Frames
  <2>3. Append(stream[s].frames, Frame(e)) \in Seq(Frames)
    BY <1>0, <2>2, AppendProperties
  <2>4. Deliver(s, e) \in Records
    BY <1>0, <2>2, <2>3 DEF Deliver
  <2> QED
    BY <1>3, <2>1, <2>4 DEF YieldEvent
<1>4. CASE ReadRow(s)
  <2> DEFINE r == stream[s].run
             x == [signal |-> TerminalSignal(row[r].status), timestamp |-> row[r].completedAt]
  <2>1. r \in Runs /\ JobRow(r)
    BY <1>4 DEF ReadRow, IInv, StreamInv, KnownRun
  <2>2. CASE RowSettled(r)
    <3>1. x \in Frames
      BY <1>0, <2>1, <2>2, TerminalSignals DEF RowSettled, JobRow, TypeOK, Frames
    <3>2. Append(stream[s].frames, x) \in Seq(Frames)
      BY <1>0, <3>1, AppendProperties
    <3>3. AfterRow(s) \in Records
      BY <1>0, <2>2, <3>2 DEF AfterRow
    <3> QED
      BY <1>4, <3>3 DEF ReadRow
  <2>3. CASE ~RowSettled(r)
    <3>1. AfterRow(s) \in Records
      BY <1>0, <2>3 DEF AfterRow
    <3> QED
      BY <1>4, <3>1 DEF ReadRow
  <2> QED
    BY <2>2, <2>3
<1>5. /\ \A pc \in {"poll", "gone"} : [stream[s] EXCEPT !.pc = pc] \in Records
      /\ [stream[s] EXCEPT !.pc = "gone", !.batch = {}] \in Records
  BY <1>0
<1>6. CASE ReadRowFails(s)
  BY <1>5, <1>6 DEF ReadRowFails
<1>7. CASE Wake(s)
  BY <1>5, <1>7 DEF Wake
<1>8. CASE Disconnect(s)
  BY <1>5, <1>8 DEF Disconnect
<1>9. CASE \E r \in Runs : Subscribe(s, r)
  BY <1>1, <1>9 DEF Subscribe
<1> QED
  BY <1>2, <1>3, <1>4, <1>6, <1>7, <1>8, <1>9 DEF StreamStep

\* Every stream step keeps the invariant.
LEMMA StreamsKeepInvariant ==
    ASSUME IInv, NEW s \in Streams,
           StreamStep(s) \/ Disconnect(s) \/ (\E r \in Runs : Subscribe(s, r))
    PROVE  IInv'
<1>1. TypeOK'
  BY StreamStepTypes
<1>2. TypeOK /\ StoreInv /\ StreamInv(s)
  BY DEF IInv
<1>3. Frozen /\ UNCHANGED <<task, crashes>> /\ \E record : Set(s, record)
  BY DEF StreamStep, Fetch, YieldEvent, ReadRow, ReadRowFails, Wake, Disconnect, Subscribe, Frozen
<1>4. StoreMoves /\ RowsMove /\ StoreInv'
  BY <1>2, <1>3, FrozenMoves, SameStore DEF Frozen, StoreIInv, TypeOK
<1>5. \A q \in Streams \ {s} : stream'[q] = stream[q]
  BY <1>2, <1>3 DEF Set, TypeOK
<1>6. \A r \in Runs : JobRow(r)' /\ StoreTrue(r)'
  BY <1>3 DEF IInv, JobRow, StoreTrue, RowSettled, Frozen, storeVars, EventsOf, Supported, BeforeRow
<1>7. Undisturbed'
  BY <1>3 DEF IInv, Undisturbed, RunningRowHasJob, Frozen
<1>8. \A q \in Streams \ {s} : StreamInv(q)'
  BY <1>2, <1>4, <1>5, OthersMove DEF IInv
<1>9. StreamInv(s)'
  <2>1. stream[s].pc # "new" => StoreTrue(stream[s].run) /\ JobRow(stream[s].run)
    BY DEF IInv, StreamInv, KnownRun
  <2>2. CASE Fetch(s)
    BY <1>2, <2>1, <2>2, Fetches DEF Fetch
  <2>3. CASE YieldEvent(s)
    BY <1>2, <2>3, Yields
  <2>4. CASE ReadRow(s)
    BY <1>2, <2>1, <2>4, ReadsRow DEF ReadRow
  <2>5. CASE Wake(s)
    <3>1. Open(s) /\ stream'[s] = [stream[s] EXCEPT !.pc = "poll"]
      BY <1>2, <2>5 DEF Wake, Set, Open, TypeOK
    <3> QED
      BY <1>2, <1>3, <3>1, GoesOn
  <2>6. CASE ReadRowFails(s) \/ Disconnect(s)
    <3>1. Open(s)
      BY <2>6 DEF ReadRowFails, Disconnect, Open
    <3>2. \/ stream'[s] = [stream[s] EXCEPT !.pc = "gone"]
          \/ stream'[s] = [stream[s] EXCEPT !.pc = "gone", !.batch = {}]
      BY <1>2, <2>6 DEF ReadRowFails, Disconnect, Set, TypeOK
    <3>3. /\ stream'[s].pc = "gone" /\ stream'[s].run = stream[s].run
          /\ stream'[s].frames = stream[s].frames
      BY <1>2, <3>2 DEF TypeOK
    <3> QED
      BY <1>2, <1>4, <3>1, <3>3, GivenUp
  <2>7. CASE \E r \in Runs : Subscribe(s, r)
    BY <1>2, <2>7, Subscribes
  <2> QED
    BY <2>2, <2>3, <2>4, <2>5, <2>6, <2>7 DEF StreamStep
<1> QED
  BY <1>1, <1>4, <1>6, <1>7, <1>8, <1>9 DEF IInv

-----------------------------------------------------------------------------
(* The steps of a job, and a restart.                                      *)

\* What JobRow and Undisturbed ask of a job and its row.
JobFits(pc, outcome, record) ==
    /\ pc \in {"queued", "workflow", "saving", "recording"} => record.status = "running"
    /\ pc = "sync" => record.status = "absent"
    /\ pc = "saving" => outcome \in {"completed", "limited"}
    /\ pc = "announcing" =>
          /\ outcome \in TerminalRunStatuses
          /\ outcome \in Supportable => record.status = outcome
    /\ ~DbFaults /\ record.status = "running" =>
          pc \in {"queued", "workflow", "saving", "recording"}

\* A step of a job that emits nothing.
LEMMA JobMoves ==
    ASSUME IInv, NEW r \in Runs, UNCHANGED <<storeVars, stream, crashes>>,
           NEW pc \in {"none", "queued", "workflow", "saving", "recording",
                       "announcing", "sync", "done", "lost"},
           NEW outcome \in {"none"} \cup TerminalRunStatuses, GoTo(r, pc, outcome),
           NEW record \in [status : {"absent", "running"} \cup TerminalRunStatuses, completedAt : Nat],
           row' = [row EXCEPT ![r] = record],
           JobFits(pc, outcome, record),
           \/ record = row[r]
           \/ /\ ~RowSettled(r) /\ record.status # "absent"
              /\ record.status \in TerminalRunStatuses => record.completedAt = emitted[r] + 1
    PROVE  IInv'
<1>1. TypeOK /\ StoreIInv
  BY DEF IInv, TypeOK, StoreIInv
<1>2. TypeOK' /\ StoreInv'
  <2>1. StoreIInv'
    BY <1>1, SameStore
  <2> QED
    BY <1>1, <2>1 DEF TypeOK, GoTo, StoreIInv
<1>3. /\ task'[r] = [pc |-> pc, outcome |-> outcome] /\ row'[r] = record
      /\ \A q \in Runs \ {r} : task'[q] = task[q] /\ row'[q] = row[q]
  BY <1>1 DEF GoTo, TypeOK
<1>4. RowsMove
  BY <1>3 DEF RowsMove, RowSettled
<1>5. /\ StoreMoves /\ \A q \in Runs : EventsOf(q)' = EventsOf(q)
  BY <1>1, SameStore
<1>6. \A q \in Runs : emitted[q] \in Nat
  BY <1>1 DEF StoreIInv, StoreTypeOK
<1>7. ASSUME NEW q \in Runs
      PROVE  JobRow(q)'
  <2>1. CASE q = r
    <3>1. record.status \in TerminalRunStatuses => record.completedAt > 0
      BY <1>6 DEF IInv, JobRow, RowSettled
    <3> QED
      BY <1>3, <2>1, <3>1 DEF JobRow, JobFits, RowSettled
  <2>2. CASE q # r
    BY <1>3, <2>2 DEF IInv, JobRow, RowSettled
  <2> QED
    BY <2>1, <2>2
<1>8. ASSUME NEW q \in Runs
      PROVE  StoreTrue(q)'
  <2> SUFFICES ASSUME NEW e \in EventsOf(q) PROVE Supported(q, e)' /\ BeforeRow(q, e)'
    BY <1>5 DEF StoreTrue, Supported, BeforeRow, RowSettled
  <2>1. Supported(q, e) /\ BeforeRow(q, e)
    BY DEF IInv, StoreTrue
  <2>2. e.timestamp \in Nat /\ e.timestamp <= emitted[q]
    BY <1>1, WindowFacts
  <2> QED
    BY <1>4, <1>6, <2>1, <2>2, RowsKeepPromises, RowsComeAfter
<1>9. Undisturbed'
  BY <1>3 DEF IInv, Undisturbed, RunningRowHasJob, JobFits
<1>10. \A s \in Streams : StreamInv(s)'
  BY <1>1, <1>4, <1>5, OthersMove DEF IInv
<1> QED
  BY <1>2, <1>7, <1>8, <1>9, <1>10 DEF IInv

\* An emission: a signal of the workflow, or the announcement of what the row says.
LEMMA EmissionMoves ==
    ASSUME IInv, NEW r \in Runs, NEW signal, Emit(r, signal), UNCHANGED <<row, stream, crashes>>,
           ~IsTerminal(signal) => ~RowSettled(r),
           \A status \in Supportable : signal = TerminalSignal(status) => row[r].status = status,
           UNCHANGED task \/ (At(r, "announcing") /\ GoTo(r, "done", task[r].outcome))
    PROVE  IInv'
<1>1. TypeOK /\ StoreIInv
  BY DEF IInv, TypeOK, StoreIInv
<1>2. /\ StoreIInv' /\ StoreMoves /\ RowsMove
      /\ \A q \in Runs : \A e \in EventsOf(q)' :
            e \in EventsOf(q) \/ (q = r /\ e = NewEvent(r, signal))
  BY <1>1, EmitFacts DEF RowsMove
<1>3. TypeOK' /\ StoreInv'
  <2>1. task' \in [Runs -> [pc : {"none", "queued", "workflow", "saving", "recording",
                                  "announcing", "sync", "done", "lost"},
                            outcome : {"none"} \cup TerminalRunStatuses]]
    <3>1. task[r].outcome \in {"none"} \cup TerminalRunStatuses
      BY <1>1 DEF TypeOK
    <3>2. [pc |-> "done", outcome |-> task[r].outcome] \in
              [pc : {"none", "queued", "workflow", "saving", "recording",
                     "announcing", "sync", "done", "lost"},
               outcome : {"none"} \cup TerminalRunStatuses]
      BY <3>1
    <3> QED
      BY <1>1, <3>2 DEF TypeOK, GoTo
  <2> QED
    BY <1>1, <1>2, <2>1 DEF TypeOK, StoreIInv
<1>4. \A q \in Runs : task'[q] = task[q] \/ (task[q].pc = "announcing" /\ task'[q].pc = "done")
  BY <1>1 DEF TypeOK, GoTo, At
<1>5. \A q \in Runs : JobRow(q)'
  BY <1>4 DEF IInv, JobRow, RowSettled
<1>6. ASSUME NEW q \in Runs, NEW e \in EventsOf(q)'
      PROVE  Supported(q, e)' /\ BeforeRow(q, e)'
  <2>1. CASE e \in EventsOf(q)
    BY <2>1 DEF IInv, StoreTrue, Supported, BeforeRow, RowSettled
  <2>2. CASE q = r /\ e = NewEvent(r, signal)
    <3>1. e.signal = signal
      BY <2>2 DEF NewEvent
    <3> QED
      BY <2>2, <3>1 DEF Supported, BeforeRow, RowSettled
  <2> QED
    BY <1>2, <2>1, <2>2
<1>7. \A q \in Runs : StoreTrue(q)'
  BY <1>6 DEF StoreTrue, Supported, BeforeRow, RowSettled
<1>8. Undisturbed'
  BY <1>4 DEF IInv, Undisturbed, RunningRowHasJob
<1>9. \A s \in Streams : StreamInv(s)'
  BY <1>1, <1>2, OthersMove DEF IInv
<1> QED
  BY <1>3, <1>5, <1>7, <1>8, <1>9 DEF IInv

\* Every step of a job or a request keeps the invariant.
LEMMA JobsKeepInvariant ==
    ASSUME IInv, NEW r \in Runs, RequestStep(r) \/ TaskStep(r)
    PROVE  IInv'
<1> DEFINE Pcs == {"none", "queued", "workflow", "saving", "recording",
                   "announcing", "sync", "done", "lost"}
           Outcomes == {"none"} \cup TerminalRunStatuses
           Rows == [status : {"absent", "running"} \cup TerminalRunStatuses, completedAt : Nat]
           Settled(status) == [status |-> status, completedAt |-> emitted[r] + 1]
<1>1. /\ row[r] \in Rows /\ row = [row EXCEPT ![r] = row[r]]
      /\ task[r].outcome \in Outcomes
      /\ emitted[r] \in Nat
      /\ JobRow(r)
  BY DEF IInv, TypeOK, StoreTypeOK
<1>2. ASSUME NEW status \in TerminalRunStatuses
      PROVE  /\ Settled(status) \in Rows
             /\ Commit(r, status) => row' = [row EXCEPT ![r] = Settled(status)]
             /\ Settled(status).status = status
             /\ Settled(status).completedAt = emitted[r] + 1
  BY <1>1 DEF Commit
<1>3. row[r].status \in TerminalRunStatuses <=> RowSettled(r)
  BY DEF RowSettled
<1>4. ASSUME NEW pc \in Pcs, NEW outcome \in Outcomes, GoTo(r, pc, outcome),
             UNCHANGED <<storeVars, row, stream, crashes>>, JobFits(pc, outcome, row[r])
      PROVE  IInv'
  BY <1>1, <1>4, JobMoves
<1>5. ASSUME NEW pc \in Pcs, NEW outcome \in Outcomes, GoTo(r, pc, outcome),
             UNCHANGED <<storeVars, stream, crashes>>,
             NEW status \in TerminalRunStatuses, Commit(r, status), ~RowSettled(r),
             JobFits(pc, outcome, Settled(status))
      PROVE  IInv'
  <2> DEFINE record == Settled(status)
  <2>1. /\ record \in Rows /\ row' = [row EXCEPT ![r] = record]
        /\ record.completedAt = emitted[r] + 1 /\ record.status # "absent"
        /\ JobFits(pc, outcome, record)
    BY <1>2, <1>5 DEF TerminalRunStatuses
  <2> HIDE DEF record
  <2> QED
    BY <1>5, <2>1, JobMoves
<1>6. CASE StartAnalysisRun(r) \/ StartInterrupted(r)
  <2> DEFINE record == [row[r] EXCEPT !.status = "running"]
  <2>1. record \in Rows /\ record.status = "running" /\ ~RowSettled(r)
    BY <1>1, <1>6 DEF StartAnalysisRun, StartInterrupted, RowSettled, TerminalRunStatuses
  <2>2. row' = [row EXCEPT ![r] = record] /\ UNCHANGED <<storeVars, stream, crashes>>
    BY <1>6 DEF StartAnalysisRun, StartInterrupted
  <2>3. \E pc \in {"queued", "lost"} : GoTo(r, pc, "none") /\ (pc = "lost" => DbFaults)
    BY <1>6 DEF StartAnalysisRun, StartInterrupted
  <2> HIDE DEF record
  <2>4. \A pc \in {"queued", "lost"} :
            (pc = "lost" => DbFaults) => JobFits(pc, "none", record)
    BY <2>1 DEF JobFits
  <2>5. "running" \notin TerminalRunStatuses
    BY DEF TerminalRunStatuses
  <2> QED
    BY <2>1, <2>2, <2>3, <2>4, <2>5, JobMoves
<1>7. CASE RunSynchronously(r)
  <2>1. JobFits("sync", "none", row[r])
    BY <1>7 DEF RunSynchronously, JobFits
  <2> QED
    BY <1>4, <1>7, <2>1 DEF RunSynchronously
<1>8. CASE LoadRun(r)
  <2>1. row[r].status = "running" /\ GoTo(r, "workflow", "none")
    BY <1>1, <1>8 DEF LoadRun, At, JobRow
  <2>2. JobFits("workflow", "none", row[r])
    BY <2>1 DEF JobFits
  <2> QED
    BY <1>4, <1>8, <2>1, <2>2 DEF LoadRun
<1>9. CASE LoadRunFails(r) \/ SaveFails(r) \/ RecordFailureFails(r)
  <2>1. DbFaults /\ GoTo(r, "announcing", "failed") /\ UNCHANGED <<storeVars, row, stream, crashes>>
    BY <1>9 DEF LoadRunFails, SaveFails, RecordFailureFails
  <2>2. JobFits("announcing", "failed", row[r]) /\ "failed" \in Outcomes
    BY <2>1 DEF JobFits, Supportable, TerminalRunStatuses
  <2> QED
    BY <1>4, <2>1, <2>2
<1>10. CASE WorkflowReturns(r)
  <2>1. PICK status \in {"completed", "limited"} : GoTo(r, "saving", status)
    BY <1>10 DEF WorkflowReturns
  <2>2. JobFits("saving", status, row[r]) /\ status \in Outcomes
    BY <1>1, <1>10 DEF WorkflowReturns, At, JobRow, JobFits, TerminalRunStatuses
  <2> QED
    BY <1>4, <1>10, <2>1, <2>2 DEF WorkflowReturns
<1>11. CASE WorkflowRaises(r)
  <2>1. JobFits("recording", "failed", row[r]) /\ "failed" \in Outcomes
    BY <1>1, <1>11 DEF WorkflowRaises, At, JobRow, JobFits, TerminalRunStatuses
  <2> QED
    BY <1>4, <1>11, <2>1 DEF WorkflowRaises
<1>12. ASSUME At(r, "saving") \/ At(r, "recording") \/ At(r, "sync")
       PROVE  ~RowSettled(r)
  BY <1>1, <1>12 DEF At, JobRow, RowSettled, TerminalRunStatuses
<1>13. ASSUME NEW status \in TerminalRunStatuses
       PROVE  /\ JobFits("announcing", status, Settled(status))
              /\ JobFits("done", status, Settled(status))
              /\ DbFaults => JobFits("announcing", "failed", Settled(status))
  BY DEF JobFits, Supportable, TerminalRunStatuses
<1>14. CASE SaveCompletedResult(r) \/ SaveUnacknowledged(r)
  <2>1. /\ At(r, "saving") /\ Commit(r, task[r].outcome)
        /\ UNCHANGED <<storeVars, stream, crashes>>
        /\ \/ GoTo(r, "announcing", task[r].outcome)
           \/ DbFaults /\ GoTo(r, "announcing", "failed")
    BY <1>14 DEF SaveCompletedResult, SaveUnacknowledged
  <2>2. task[r].outcome \in TerminalRunStatuses /\ "failed" \in Outcomes
    BY <1>1, <2>1 DEF At, JobRow, TerminalRunStatuses
  <2> QED
    BY <1>5, <1>12, <1>13, <2>1, <2>2
<1>15. CASE RecordFailure(r)
  <2>1. "failed" \in TerminalRunStatuses /\ "failed" \in Outcomes
    BY DEF TerminalRunStatuses
  <2> QED
    BY <1>5, <1>12, <1>13, <1>15, <2>1 DEF RecordFailure
<1>16. CASE PersistSynchronously(r)
  <2>1. PICK status \in TerminalRunStatuses : Commit(r, status) /\ GoTo(r, "done", status)
    BY <1>16 DEF PersistSynchronously
  <2>2. status \in Outcomes
    OBVIOUS
  <2> QED
    BY <1>5, <1>12, <1>13, <1>16, <2>1, <2>2 DEF PersistSynchronously
<1>17. CASE PersistFails(r)
  <2>1. JobFits("lost", "none", row[r])
    BY <1>17 DEF PersistFails, JobFits
  <2> QED
    BY <1>4, <1>17, <2>1 DEF PersistFails
<1>18. CASE WorkflowReports(r)
  <2>1. PICK signal \in Signals : ~IsTerminal(signal) /\ Emit(r, signal)
    BY <1>18 DEF WorkflowReports
  <2>2. ~RowSettled(r)
    BY <1>1, <1>18 DEF WorkflowReports, At, JobRow, RowSettled, TerminalRunStatuses
  <2>3. \A status \in Supportable : signal # TerminalSignal(status)
    BY <2>1, TerminalSignals DEF Supportable, TerminalRunStatuses
  <2> QED
    BY <1>18, <2>1, <2>2, <2>3, EmissionMoves DEF WorkflowReports
<1>19. CASE Announce(r)
  <2> DEFINE signal == TerminalSignal(task[r].outcome)
  <2>1. /\ task[r].outcome \in TerminalRunStatuses
        /\ task[r].outcome \in Supportable => row[r].status = task[r].outcome
    BY <1>1, <1>19 DEF Announce, At, JobRow
  <2>2. IsTerminal(signal)
    BY <2>1, TerminalSignals
  <2>3. \A status \in Supportable : signal = TerminalSignal(status) => row[r].status = status
    BY <2>1, TerminalSignals DEF Supportable, TerminalRunStatuses
  <2> QED
    BY <1>19, <2>2, <2>3, EmissionMoves DEF Announce
<1> QED
  BY <1>6, <1>7, <1>8, <1>9, <1>10, <1>11, <1>14, <1>15, <1>16, <1>17, <1>18, <1>19
     DEF RequestStep, TaskStep

\* A restart keeps the invariant: what is lost is never spoken of again.
LEMMA CrashKeepsInvariant ==
    ASSUME IInv, Crash
    PROVE  IInv'
<1>1. TypeOK /\ StoreIInv
  BY DEF IInv, TypeOK, StoreIInv
<1>2. /\ StoreIInv' /\ StoreMoves /\ RowsMove
      /\ \A q \in Runs : EventsOf(q)' = {}
  BY <1>1, ResetFacts DEF Crash, RowsMove
<1>3. \A r \in Runs : task'[r] = task[r] \/ task'[r] = [pc |-> "lost", outcome |-> "none"]
  BY DEF Crash
<1>4. \A s \in Streams : stream'[s] = IF Open(s) THEN [stream[s] EXCEPT !.pc = "gone", !.batch = {}]
                                      ELSE stream[s]
  BY DEF Crash
<1>5. TypeOK'
  <2>1. task' \in [Runs -> [pc : {"none", "queued", "workflow", "saving", "recording",
                                  "announcing", "sync", "done", "lost"},
                            outcome : {"none"} \cup TerminalRunStatuses]]
    BY <1>1 DEF TypeOK, Crash
  <2>2. stream' \in [Streams -> [pc : {"new", "poll", "yield", "readRow", "sleep", "closed", "gone"},
                                 run : Runs \cup {"none"}, last : Nat,
                                 batch : SUBSET ProgressEvents, frames : Seq(Frames)]]
    <3> DEFINE Records == [pc : {"new", "poll", "yield", "readRow", "sleep", "closed", "gone"},
                           run : Runs \cup {"none"}, last : Nat,
                           batch : SUBSET ProgressEvents, frames : Seq(Frames)]
    <3>1. ASSUME NEW s \in Streams
          PROVE  /\ stream[s] \in Records
                 /\ [stream[s] EXCEPT !.pc = "gone", !.batch = {}] \in Records
      BY <1>1 DEF TypeOK
    <3> HIDE DEF Records
    <3>2. stream' \in [Streams -> Records]
      BY <3>1 DEF Crash
    <3> QED
      BY <3>2 DEF Records
  <2>3. crashes' \in Nat /\ row' = row
    <3>1. crashes' = crashes + 1 /\ row' = row
      BY DEF Crash
    <3>2. crashes \in Nat
      BY <1>1 DEF TypeOK
    <3> QED
      BY <3>1, <3>2
  <2> QED
    BY <1>1, <1>2, <2>1, <2>2, <2>3 DEF TypeOK, StoreIInv
<1>6. \A r \in Runs : JobRow(r)'
  BY <1>3 DEF IInv, JobRow, RowSettled, Crash
<1>7. \A r \in Runs : StoreTrue(r)'
  BY <1>2 DEF StoreTrue
<1>8. Undisturbed'
  <2>1. crashes \in Nat /\ crashes < MaxCrashes
    BY <1>1 DEF Crash, TypeOK
  <2>2. MaxCrashes # 0
    BY <2>1
  <2> QED
    BY <2>2 DEF Undisturbed
<1>9. ASSUME NEW s \in Streams
      PROVE  StreamInv(s)'
  <2>1. CASE Open(s)
    <3>1. /\ stream'[s].pc = "gone" /\ stream'[s].run = stream[s].run
          /\ stream'[s].frames = stream[s].frames
      BY <1>1, <1>4, <2>1 DEF TypeOK
    <3> QED
      BY <1>1, <1>2, <2>1, <3>1, GivenUp DEF IInv
  <2>2. CASE ~Open(s)
    <3>1. stream'[s] = stream[s]
      BY <1>4, <2>2
    <3> QED
      BY <1>1, <1>2, <3>1, OthersMove DEF IInv
  <2> QED
    BY <2>1, <2>2
<1> QED
  BY <1>2, <1>5, <1>6, <1>7, <1>8, <1>9 DEF IInv, StoreIInv

\* A step in which nothing happens.
LEMMA StutterKeepsInvariant ==
    ASSUME IInv, UNCHANGED lifecycleVars
    PROVE  IInv'
<1>1. TypeOK /\ StoreIInv /\ UNCHANGED <<storeVars, row, task, stream, crashes>>
  BY DEF IInv, TypeOK, StoreIInv, lifecycleVars
<1>2. StoreIInv' /\ StoreMoves /\ RowsMove
  BY <1>1, SameStore DEF RowsMove
<1>3. TypeOK'
  BY <1>1, <1>2 DEF TypeOK, StoreIInv
<1>4. \A r \in Runs : JobRow(r)' /\ StoreTrue(r)'
  BY <1>1 DEF IInv, JobRow, StoreTrue, RowSettled, storeVars, EventsOf, Supported, BeforeRow
<1>5. Undisturbed'
  BY <1>1 DEF IInv, Undisturbed, RunningRowHasJob
<1>6. \A s \in Streams : StreamInv(s)'
  BY <1>1, <1>2, OthersMove DEF IInv
<1> QED
  BY <1>2, <1>3, <1>4, <1>5, <1>6 DEF IInv, StoreIInv

\* Before the first request.
LEMMA InitKeepsInvariant ==
    ASSUME Init
    PROVE  IInv
<1>1. StoreIInv
  BY StoreInitInv DEF Init
<1>2. /\ \A r \in Runs : row[r] = [status |-> "absent", completedAt |-> 0] /\ task[r] = NoTask
      /\ \A s \in Streams : stream[s] = NoStream
      /\ crashes = 0
  BY DEF Init
<1>3. TypeOK
  BY <1>1, EmptySeq DEF Init, TypeOK, StoreIInv, NoTask, NoStream
<1>4. ASSUME NEW r \in Runs
      PROVE  JobRow(r) /\ StoreTrue(r)
  <2>1. EventsOf(r) = {}
    BY DEF Init, StoreInit, EventsOf
  <2> QED
    BY <1>2, <2>1 DEF JobRow, StoreTrue, NoTask, RowSettled, TerminalRunStatuses
<1>5. Undisturbed
  BY <1>2 DEF Undisturbed, RunningRowHasJob
<1>6. ASSUME NEW s \in Streams
      PROVE  StreamInv(s)
  <2>1. /\ stream[s] = NoStream /\ stream[s].pc = "new" /\ stream[s].frames = <<>>
        /\ DOMAIN stream[s].frames = {} /\ ~Open(s)
    BY <1>2 DEF NoStream, Open
  <2> QED
    BY <2>1 DEF StreamInv, KnownRun, Polling, Truthful, Ordered, Ends, Gapless
<1> QED
  BY <1>1, <1>3, <1>4, <1>5, <1>6 DEF IInv, StoreIInv

-----------------------------------------------------------------------------

\* The inductive invariant holds for every number of runs, streams and restarts
\* (analysis_runs.py:28-195, routes.py:398-453).
THEOREM LifecycleInvariance == Spec => []IInv
<1>1. Init => IInv
  BY InitKeepsInvariant
<1>2. IInv /\ [Next]_lifecycleVars => IInv'
  BY JobsKeepInvariant, StreamsKeepInvariant, CrashKeepsInvariant, StutterKeepsInvariant DEF Next
<1> QED
  BY <1>1, <1>2, PTL DEF Spec

\* Type correctness of rows, jobs and streams (analysis_runs.py:28-195).
THEOREM LifecycleTypeCorrect == Spec => []TypeOK
  BY LifecycleInvariance, PTL DEF IInv

\* No client sees a signal twice or an older one after a newer one, whatever the
\* store drops, renumbers or loses (routes.py:425-447).
THEOREM LifecycleFramesInOrder == Spec => []FramesInOrder
<1>1. IInv => FramesInOrder
  BY DEF IInv, StreamInv, Ordered, FramesInOrder
<1> QED
  BY <1>1, LifecycleInvariance, PTL

\* One terminal frame ends each stream that the server closes (routes.py:431-447).
THEOREM LifecycleOneTerminalFrame == Spec => []OneTerminalFrame
<1>1. IInv => OneTerminalFrame
  BY DEF IInv, StreamInv, Ends, OneTerminalFrame
<1> QED
  BY <1>1, LifecycleInvariance, PTL

\* What a terminal frame tells of a supportable status is in the row.
LEMMA ToldIsSo ==
    ASSUME IInv, NEW s \in Streams, NEW status \in Supportable, TellsRow(s, status)
    PROVE  row[stream[s].run].status = status
<1>1. PICK i \in DOMAIN stream[s].frames : stream[s].frames[i].signal = TerminalSignal(status)
  BY DEF TellsRow
<1>2. stream[s].frames[i] \in Sent(s)
  BY DEF Sent
<1>3. stream[s].pc # "new"
  BY DEF IInv, StreamInv, KnownRun, NoStream
<1> QED
  BY <1>1, <1>2, <1>3 DEF IInv, StreamInv, Truthful, Supported

\* Success is never told before it is durable, for any number of failing commits,
\* lost acknowledgements and restarts (analysis_runs.py:119-130).
THEOREM LifecycleSuccessIsDurable == Spec => []SuccessIsDurable
<1>1. IInv => SuccessIsDurable
  BY ToldIsSo DEF SuccessIsDurable, Supportable, TerminalRunStatuses
<1> QED
  BY <1>1, LifecycleInvariance, PTL

\* While the database answers, a failure that is told is recorded, restarts
\* included (analysis_runs.py:107-113).
THEOREM LifecycleFailureIsDurable ==
    ASSUME ~DbFaults
    PROVE  Spec => []FailureIsDurable
<1>1. IInv => FailureIsDurable
  BY ToldIsSo DEF FailureIsDurable, Supportable, TerminalRunStatuses
<1> QED
  BY <1>1, LifecycleInvariance, PTL

\* While the database answers and the process lives, no visible run is abandoned
\* (analysis_runs.py:88-195).
THEOREM LifecycleRunningRowHasJob ==
    ASSUME ~DbFaults, MaxCrashes = 0
    PROVE  Spec => []RunningRowHasJob
<1>1. IInv => RunningRowHasJob
  BY DEF IInv, Undisturbed
<1> QED
  BY <1>1, LifecycleInvariance, PTL

\* A stream leaves nothing out of a run of which the store dropped nothing, also
\* with failing commits and restarts (routes.py:431-447).
THEOREM LifecycleGapless == Spec => []GaplessUntilTerminal
<1>1. IInv => GaplessUntilTerminal
  BY DEF IInv, StreamInv, Gapless, GaplessUntilTerminal
<1> QED
  BY <1>1, LifecycleInvariance, PTL

\* A settled run is never settled again (analysis_runs.py:46-116).
THEOREM LifecycleSettledOnce == Spec => SettledOnce
<1> DEFINE Stays == \A r \in Runs : RowSettled(r) => row'[r] = row[r]
<1>1. IInv /\ [Next]_lifecycleVars => [Stays]_lifecycleVars
  <2> SUFFICES ASSUME IInv, Next, NEW r \in Runs, RowSettled(r)
               PROVE  row'[r] = row[r]
    OBVIOUS
  <2>1. row \in [Runs -> [status : {"absent", "running"} \cup TerminalRunStatuses, completedAt : Nat]]
    BY DEF IInv, TypeOK
  <2>2. row[r].status \in {"completed", "limited", "failed"} /\ JobRow(r)
    BY DEF IInv, RowSettled, TerminalRunStatuses
  <2>3. ASSUME NEW q \in Runs, RequestStep(q)
        PROVE  row'[r] = row[r]
    BY <2>1, <2>2, <2>3 DEF RequestStep, StartAnalysisRun, StartInterrupted, RunSynchronously
  <2>4. ASSUME NEW q \in Runs, TaskStep(q)
        PROVE  row'[r] = row[r]
    <3>1. CASE q = r
      <4>1. task[r].pc \notin {"saving", "recording", "sync"}
        BY <2>2 DEF JobRow
      <4> QED
        BY <2>4, <3>1, <4>1
           DEF TaskStep, LoadRun, LoadRunFails, WorkflowReports, WorkflowReturns, WorkflowRaises,
               SaveCompletedResult, SaveFails, SaveUnacknowledged, RecordFailure,
               RecordFailureFails, Announce, PersistSynchronously, PersistFails, At
    <3>2. CASE q # r
      BY <2>1, <2>4, <3>2
         DEF TaskStep, LoadRun, LoadRunFails, WorkflowReports, WorkflowReturns, WorkflowRaises,
             SaveCompletedResult, SaveFails, SaveUnacknowledged, RecordFailure,
             RecordFailureFails, Announce, PersistSynchronously, PersistFails, Commit
    <3> QED
      BY <3>1, <3>2
  <2>5. ASSUME NEW s \in Streams,
               StreamStep(s) \/ Disconnect(s) \/ (\E q \in Runs : Subscribe(s, q))
        PROVE  row'[r] = row[r]
    BY <2>5 DEF StreamStep, Fetch, YieldEvent, ReadRow, ReadRowFails, Wake, Disconnect, Subscribe
  <2>6. CASE Crash
    BY <2>6 DEF Crash
  <2> QED
    BY <2>3, <2>4, <2>5, <2>6 DEF Next
<1> QED
  BY <1>1, LifecycleInvariance, PTL DEF Spec, SettledOnce
=============================================================================
