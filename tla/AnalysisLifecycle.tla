-------------------------- MODULE AnalysisLifecycle --------------------------
(***************************************************************************)
(* The life of analysis runs across three parties: the background task     *)
(* that executes a run (app/services/analysis_runs.py), the database row   *)
(* that outlives the process, and the SSE streams that poll the progress   *)
(* store and the row (app/api/routes.py).  The workflow of a run is        *)
(* abstracted to its contract (WorkflowContract): it reports at most       *)
(* MaxEmissions signals, none of them terminal, and returns or raises.     *)
(***************************************************************************)
EXTENDS ProgressStore, FiniteSets

CONSTANTS
    Streams,      \* SSE subscriptions
    DbFaults,     \* whether the database may fail during a read or a commit
    MaxCrashes    \* bound of the model: restarts of the process

ASSUME FaultAssumption == DbFaults \in BOOLEAN /\ MaxCrashes \in Nat

(* The database. *)
VARIABLE row       \* run -> [status, completedAt]; status "absent" before its commit

(* The memory of the process, besides the progress store. *)
VARIABLES
    task,          \* run -> [pc, outcome]: the job that executes it
    stream         \* stream -> [pc, run, last, batch, frames]

VARIABLE crashes   \* how often the process was restarted

lifecycleVars == <<storeVars, row, task, stream, crashes>>

TerminalRunStatuses == {"completed", "limited", "failed"}

NoTask == [pc |-> "none", outcome |-> "none"]

NoStream == [pc |-> "new", run |-> "none", last |-> 0, batch |-> {}, frames |-> <<>>]

\* A frame keeps of an event what a client can tell apart.
Frame(event) == [signal |-> event.signal, timestamp |-> event.timestamp]

Open(s) == stream[s].pc \in {"poll", "yield", "readRow", "sleep"}

Init ==
    /\ StoreInit
    /\ row = [r \in Runs |-> [status |-> "absent", completedAt |-> 0]]
    /\ task = [r \in Runs |-> NoTask]
    /\ stream = [s \in Streams |-> NoStream]
    /\ crashes = 0

-----------------------------------------------------------------------------
(* The job of a run.                                                       *)

At(r, pc) == task[r].pc = pc

GoTo(r, pc, outcome) == task' = [task EXCEPT ![r] = [pc |-> pc, outcome |-> outcome]]

\* run.status, run.completed_at and the commit that makes them durable.  The
\* time is later than every signal of the run so far.
Commit(r, status) ==
    row' = [row EXCEPT ![r] = [status |-> status, completedAt |-> emitted[r] + 1]]

\* start_analysis_run: create_pending_run commits the row, then the job is queued.
StartAnalysisRun(r) ==
    /\ row[r].status = "absent" /\ At(r, "none")
    /\ row' = [row EXCEPT ![r].status = "running"]
    /\ GoTo(r, "queued", "none")
    /\ UNCHANGED <<storeVars, stream, crashes>>

\* The row is committed but the commit or the refresh after it raises: the
\* request fails and no job is ever queued.
StartInterrupted(r) ==
    /\ DbFaults
    /\ row[r].status = "absent" /\ At(r, "none")
    /\ row' = [row EXCEPT ![r].status = "running"]
    /\ GoTo(r, "lost", "none")
    /\ UNCHANGED <<storeVars, stream, crashes>>

\* execute_pending_run up to the call of the workflow.
LoadRun(r) ==
    /\ At(r, "queued")
    /\ IF row[r].status = "running" THEN GoTo(r, "workflow", "none")
       ELSE GoTo(r, "announcing", "failed")
    /\ UNCHANGED <<storeVars, row, stream, crashes>>

\* The read raises before the try block that records a failure.
LoadRunFails(r) ==
    /\ DbFaults
    /\ At(r, "queued")
    /\ GoTo(r, "announcing", "failed")
    /\ UNCHANGED <<storeVars, row, stream, crashes>>

WorkflowReports(r) ==
    /\ At(r, "workflow")
    /\ emitted[r] < MaxEmissions
    /\ \E signal \in Signals : ~IsTerminal(signal) /\ Emit(r, signal)
    /\ UNCHANGED <<row, task, stream, crashes>>

WorkflowReturns(r) ==
    /\ At(r, "workflow")
    /\ \E status \in {"completed", "limited"} : GoTo(r, "saving", status)
    /\ UNCHANGED <<storeVars, row, stream, crashes>>

WorkflowRaises(r) ==
    /\ At(r, "workflow")
    /\ GoTo(r, "recording", "failed")
    /\ UNCHANGED <<storeVars, row, stream, crashes>>

\* _save_completed_result
SaveCompletedResult(r) ==
    /\ At(r, "saving")
    /\ Commit(r, task[r].outcome)
    /\ GoTo(r, "announcing", task[r].outcome)
    /\ UNCHANGED <<storeVars, stream, crashes>>

\* Mutant: the failed save is announced as the workflow's outcome.
SaveFailsUnnoticed(r) ==
    /\ DbFaults
    /\ At(r, "saving")
    /\ UNCHANGED row
    /\ GoTo(r, "announcing", task[r].outcome)
    /\ UNCHANGED <<storeVars, stream, crashes>>

\* The commit raises and nothing was written.  The exception is outside the try
\* block that records a failure: it reaches execute_pending_run_with_progress.
SaveFails(r) ==
    /\ DbFaults
    /\ At(r, "saving")
    /\ GoTo(r, "announcing", "failed")
    /\ UNCHANGED <<storeVars, row, stream, crashes>>

\* Mutant: the save is inside the try block that records a failure.
SaveUnacknowledgedRecorded(r) ==
    /\ DbFaults
    /\ At(r, "saving")
    /\ Commit(r, task[r].outcome)
    /\ GoTo(r, "recording", "failed")
    /\ UNCHANGED <<storeVars, stream, crashes>>

\* The commit was written but its acknowledgement is lost, so it raises.
SaveUnacknowledged(r) ==
    /\ DbFaults
    /\ At(r, "saving")
    /\ Commit(r, task[r].outcome)
    /\ GoTo(r, "announcing", "failed")
    /\ UNCHANGED <<storeVars, stream, crashes>>

\* Mutant: forgets to commit the failure.
RecordFailureUncommitted(r) ==
    /\ At(r, "recording")
    /\ GoTo(r, "announcing", "failed")
    /\ UNCHANGED <<storeVars, row, stream, crashes>>

\* The except clause of execute_pending_run.
RecordFailure(r) ==
    /\ At(r, "recording")
    /\ Commit(r, "failed")
    /\ GoTo(r, "announcing", "failed")
    /\ UNCHANGED <<storeVars, stream, crashes>>

RecordFailureFails(r) ==
    /\ DbFaults
    /\ At(r, "recording")
    /\ GoTo(r, "announcing", "failed")
    /\ UNCHANGED <<storeVars, row, stream, crashes>>

\* execute_pending_run_with_progress after the execution.
Announce(r) ==
    /\ At(r, "announcing")
    /\ Emit(r, TerminalSignal(task[r].outcome))
    /\ GoTo(r, "done", task[r].outcome)
    /\ UNCHANGED <<row, stream, crashes>>

\* Mutant: commits the pending row before the workflow runs.
RunSynchronouslyVisible(r) ==
    /\ row[r].status = "absent" /\ At(r, "none")
    /\ row' = [row EXCEPT ![r].status = "running"]
    /\ GoTo(r, "sync", "none")
    /\ UNCHANGED <<storeVars, stream, crashes>>

(***************************************************************************)
(* create_analysis_run: the request executes the run itself, without a     *)
(* reporter.  The row is flushed first and committed last, so nobody else  *)
(* sees it running.                                                        *)
(***************************************************************************)
RunSynchronously(r) ==
    /\ row[r].status = "absent" /\ At(r, "none")
    /\ GoTo(r, "sync", "none")
    /\ UNCHANGED <<storeVars, row, stream, crashes>>

\* The only commit of run_and_persist, after the workflow returned or raised.
PersistSynchronously(r) ==
    /\ At(r, "sync")
    /\ \E status \in TerminalRunStatuses : Commit(r, status) /\ GoTo(r, "done", status)
    /\ UNCHANGED <<storeVars, stream, crashes>>

\* That commit fails: the transaction is rolled back with the flushed row.
PersistFails(r) ==
    /\ DbFaults
    /\ At(r, "sync")
    /\ GoTo(r, "lost", "none")
    /\ UNCHANGED <<storeVars, row, stream, crashes>>

-----------------------------------------------------------------------------
(* The SSE stream of a subscriber: _analysis_progress_stream.  Each action *)
(* is what happens between two points where the generator is suspended or  *)
(* calls out.                                                              *)

Set(s, record) == stream' = [stream EXCEPT ![s] = record]

\* stream_analysis_progress answers 404 unless the row exists.
Subscribe(s, r) ==
    /\ stream[s].pc = "new"
    /\ row[r].status # "absent"
    /\ Set(s, [NoStream EXCEPT !.pc = "poll", !.run = r])
    /\ UNCHANGED <<storeVars, row, task, crashes>>

Fetch(s) ==
    /\ stream[s].pc = "poll"
    /\ LET batch == After(stream[s].run, stream[s].last)
       IN Set(s, [stream[s] EXCEPT !.batch = batch,
                                   !.pc = IF batch = {} THEN "readRow" ELSE "yield"])
    /\ UNCHANGED <<storeVars, row, task, crashes>>

\* Mutant: the cursor is not advanced.
DeliverWithoutCursor(s, event) ==
    [stream[s] EXCEPT
        !.batch  = @ \ {event},
        !.frames = Append(@, Frame(event)),
        !.pc     = IF IsTerminal(event.signal) THEN "closed"
                   ELSE IF stream[s].batch = {event} THEN "readRow" ELSE "yield"]

\* Mutant: the rest of the batch is skipped.
DeliverOnlyFirst(s, event) ==
    [stream[s] EXCEPT
        !.last   = CHOOSE n \in {e.sequence : e \in stream[s].batch} :
                      \A e \in stream[s].batch : e.sequence <= n,
        !.batch  = {},
        !.frames = Append(@, Frame(event)),
        !.pc     = IF IsTerminal(event.signal) THEN "closed" ELSE "readRow"]

\* Mutant: only a completed analysis ends the stream.
DeliverUntilCompleted(s, event) ==
    [stream[s] EXCEPT
        !.last   = event.sequence,
        !.batch  = @ \ {event},
        !.frames = Append(@, Frame(event)),
        !.pc     = IF event.signal[1] = "analysis_completed" THEN "closed"
                   ELSE IF stream[s].batch = {event} THEN "readRow" ELSE "yield"]

\* The stream after it sent one event of its batch.
Deliver(s, event) ==
    [stream[s] EXCEPT
        !.last   = event.sequence,
        !.batch  = @ \ {event},
        !.frames = Append(@, Frame(event)),
        !.pc     = IF IsTerminal(event.signal) THEN "closed"
                   ELSE IF stream[s].batch = {event} THEN "readRow" ELSE "yield"]

YieldEvent(s) ==
    /\ stream[s].pc = "yield"
    /\ \E event \in stream[s].batch :
          /\ \A other \in stream[s].batch : event.sequence <= other.sequence
          /\ Set(s, Deliver(s, event))
    /\ UNCHANGED <<storeVars, row, task, crashes>>

\* Mutant: forgets the status "limited".
RowSettledWithoutLimited(r) == row[r].status \in {"completed", "failed"}

RowSettled(r) == row[r].status \in TerminalRunStatuses

\* The stream after it read the row: the terminal signal made from it, the end
\* when there is no row, or a pause.
AfterRow(s) ==
    LET r == stream[s].run
    IN IF row[r].status = "absent" THEN [stream[s] EXCEPT !.pc = "closed"]
       ELSE IF RowSettled(r)
       THEN [stream[s] EXCEPT
                !.pc = "closed",
                !.frames = Append(@, [signal |-> TerminalSignal(row[r].status),
                                      timestamp |-> row[r].completedAt])]
       ELSE [stream[s] EXCEPT !.pc = "sleep"]

ReadRow(s) ==
    /\ stream[s].pc = "readRow"
    /\ Set(s, AfterRow(s))
    /\ UNCHANGED <<storeVars, row, task, crashes>>

\* The read raises: the response is cut off.
ReadRowFails(s) ==
    /\ DbFaults
    /\ stream[s].pc = "readRow"
    /\ Set(s, [stream[s] EXCEPT !.pc = "gone"])
    /\ UNCHANGED <<storeVars, row, task, crashes>>

\* asyncio.sleep(SSE_POLL_SECONDS); the keep-alive comment is not a frame.
Wake(s) ==
    /\ stream[s].pc = "sleep"
    /\ Set(s, [stream[s] EXCEPT !.pc = "poll"])
    /\ UNCHANGED <<storeVars, row, task, crashes>>

\* The client leaves: found by is_disconnected, or by the server at a yield or a
\* sleep.  The job goes on.
Disconnect(s) ==
    /\ Open(s)
    /\ Set(s, [stream[s] EXCEPT !.pc = "gone", !.batch = {}])
    /\ UNCHANGED <<storeVars, row, task, crashes>>

-----------------------------------------------------------------------------

\* The process stops and starts again: its memory is lost, and nothing in the
\* code takes up the runs that were in progress.
Crash ==
    /\ crashes < MaxCrashes
    /\ crashes' = crashes + 1
    /\ Reset
    /\ task' = [r \in Runs |->
                   IF task[r].pc \in {"none", "done"} THEN task[r]
                   ELSE [pc |-> "lost", outcome |-> "none"]]
    /\ stream' = [s \in Streams |->
                   IF Open(s) THEN [stream[s] EXCEPT !.pc = "gone", !.batch = {}]
                   ELSE stream[s]]
    /\ UNCHANGED row

TaskStep(r) ==
    \/ LoadRun(r) \/ LoadRunFails(r)
    \/ WorkflowReports(r) \/ WorkflowReturns(r) \/ WorkflowRaises(r)
    \/ SaveCompletedResult(r) \/ SaveFails(r) \/ SaveUnacknowledged(r)
    \/ RecordFailure(r) \/ RecordFailureFails(r)
    \/ Announce(r)
    \/ PersistSynchronously(r) \/ PersistFails(r)

StreamStep(s) ==
    \/ Fetch(s) \/ YieldEvent(s) \/ ReadRow(s) \/ ReadRowFails(s) \/ Wake(s)

RequestStep(r) == StartAnalysisRun(r) \/ StartInterrupted(r) \/ RunSynchronously(r)

Next ==
    \/ \E r \in Runs : RequestStep(r) \/ TaskStep(r)
    \/ \E s \in Streams : StreamStep(s) \/ Disconnect(s) \/ (\E r \in Runs : Subscribe(s, r))
    \/ Crash

\* What the thread pool and the event loop guarantee: a job and a stream go on
\* until they end.  The calls inside a workflow are bounded (WorkflowContract).
Fairness ==
    /\ \A r \in Runs : WF_lifecycleVars(TaskStep(r))
    /\ \A s \in Streams : WF_lifecycleVars(StreamStep(s))

Spec == Init /\ [][Next]_lifecycleVars

FairSpec == Spec /\ Fairness

-----------------------------------------------------------------------------

Frames == [signal : SafeEventSummaries, timestamp : Nat \ {0}]

\* Type invariant of the rows, the jobs and the streams (analysis_runs.py:28-195,
\* routes.py:422-453).
TypeOK ==
    /\ StoreTypeOK
    /\ row \in [Runs -> [status : {"absent", "running"} \cup TerminalRunStatuses,
                         completedAt : Nat]]
    /\ task \in [Runs -> [pc : {"none", "queued", "workflow", "saving", "recording",
                                "announcing", "sync", "done", "lost"},
                          outcome : {"none"} \cup TerminalRunStatuses]]
    /\ stream \in [Streams -> [pc : {"new", "poll", "yield", "readRow", "sleep",
                                     "closed", "gone"},
                               run : Runs \cup {"none"},
                               last : Nat,
                               batch : SUBSET ProgressEvents,
                               frames : Seq(Frames)]]
    /\ crashes \in Nat

\* A client never sees a signal twice or an older one after a newer one, although
\* the store may drop its run, restart the run's numbers at 1 or be lost, and
\* although the last frame may be made from the row (routes.py:425-447).
FramesInOrder ==
    \A s \in Streams : LET frames == stream[s].frames IN
        \A i, j \in DOMAIN frames : i < j => frames[i].timestamp < frames[j].timestamp

\* Exactly one terminal signal ends a stream the server closes, and nothing
\* follows it, whichever of the store and the row answered (routes.py:431-447).
OneTerminalFrame ==
    \A s \in Streams : LET frames == stream[s].frames IN
        /\ \A i \in DOMAIN frames : IsTerminal(frames[i].signal) =>
              i = Len(frames) /\ stream[s].pc = "closed"
        /\ stream[s].pc = "closed" =>
              frames # <<>> /\ IsTerminal(frames[Len(frames)].signal)

\* Which row a terminal frame speaks of.
TellsRow(s, status) ==
    \E i \in DOMAIN stream[s].frames :
        stream[s].frames[i].signal = TerminalSignal(status)

\* A client that is told of a completed or limited analysis finds that result
\* committed: also when commits fail, acknowledgements are lost and the process
\* restarts, success is never announced too early (analysis_runs.py:119-130).
SuccessIsDurable ==
    \A s \in Streams : \A status \in {"completed", "limited"} :
        TellsRow(s, status) => row[stream[s].run].status = status

\* While the database answers, a client told of a failure finds it recorded
\* (analysis_runs.py:107-113, progress.py:33).
FailureIsDurable ==
    \A s \in Streams : TellsRow(s, "failed") => row[stream[s].run].status = "failed"

\* A row that says "running" has a job that will settle it: no visible run is
\* abandoned while the process lives and the database answers, and a
\* synchronous run is never visible before its end (analysis_runs.py:88-195).
RunningRowHasJob ==
    \A r \in Runs : row[r].status = "running" =>
        task[r].pc \in {"queued", "workflow", "saving", "recording"}

\* A settled run is never settled again, whatever fails after its commit
\* (analysis_runs.py:46-116).
SettledOnce ==
    [][\A r \in Runs : RowSettled(r) => row'[r] = row[r]]_lifecycleVars

\* The store holds every event r ever had: a dropped run counts anew from 1, and
\* a full tail loses its first events.
NothingDropped(r) == nextSequence[r] = emitted[r] /\ emitted[r] <= MaxEventsPerRun

\* As long as the store drops nothing of a run, its streams deliver every signal
\* from the first one on; only the terminal frame may overtake signals, when the
\* row was settled between the fetch and the read of the row (routes.py:431-447).
GaplessUntilTerminal ==
    \A s \in Streams : LET frames == stream[s].frames IN
        stream[s].run \in Runs /\ NothingDropped(stream[s].run) =>
            \A i \in DOMAIN frames :
                /\ frames[i].timestamp >= i
                /\ i < Len(frames) => frames[i].timestamp = i

\* Every run that was started is settled (analysis_runs.py:88-116).
RunsSettle == \A r \in Runs : row[r].status = "running" ~> RowSettled(r)

\* Every stream ends, also when the store dropped the events of its run, because
\* the settled row answers instead (routes.py:438-447).
StreamsEnd == \A s \in Streams : Open(s) ~> ~Open(s)

-----------------------------------------------------------------------------
(* What the repository says and the code does not do.                      *)

\* progress.py:33 and analysis_runs.py:125, sent to the client: "Analysis failed
\* safely; final status is available from the report API."
FinalStatusAvailable ==
    \A s \in Streams : TellsRow(s, "failed") => RowSettled(stream[s].run)

\* routes.py:443-445: after a process restart the durable run state still lets a
\* subscriber receive one terminal signal, so no stream polls forever.
SubscriberAnsweredAfterRestart == \A s \in Streams : Open(s) ~> ~Open(s)
=============================================================================
