# TicketInsight: specifications

TLA+ specifications of TicketInsight, a FastAPI service that answers operations questions over
de-identified tickets with a fixed multi-role graph (retrieval, SQL planning, a bounded read-only
query, a draft, a review), stores a reviewable report and tells subscribers of the progress. All
paths below are relative to the repository (`src/` in `PROJECT.json`).

`PROJECT.json` lists the components, the TLC runs, a mutation of the code for every checked property,
the line-by-line correspondence of definitions and code, the disagreements found, the hazards, and
the theorems. Check one run with `tlc -workers 2 -config <cfg> <module>`, one proof module with
`tlapm <module>.tla`.

## 1. The system

| Component | State it keeps | Operations | Module |
|---|---|---|---|
| Progress store, `services/progress.py` | per run: a deque of the last events and the next number; at most 128 runs, 32 events each, under a lock | `emit`, `after`, `reset` | `ProgressStore` |
| Workflow, `services/agent_workflow.py` | the graph state of one run: candidate, error, query result, draft, decision, attempt and revision counters, trace, audits; a table of reporters | `run`, five nodes, two routers | `AgentWorkflow` |
| Run lifecycle, `services/analysis_runs.py` | the row of each run with its audits, evidence, traces; background jobs | start, execute, save, record a failure, announce; the synchronous path; feedback | `AnalysisLifecycle` |
| Progress stream, `api/routes.py:398-492` | per subscriber: last number, batch, frames sent | subscribe, fetch, yield, read the row, sleep, disconnect | `AnalysisLifecycle` |
| Report, `api/routes.py:344-375` | none; recomputed from rows | read | operators of `AgentWorkflow`, `QueryBounds`, `RunEvaluation` |
| Domain records, `api/routes.py:57-334`, `models.py` | six tables with unique and foreign keys | create, update, delete, list | `DomainRecords` |
| Synthetic scenario, `services/seed.py` | none of its own | `seed_synthetic_data` | `DomainRecords`, `Deployment` |
| Migrations, `alembic/`, `scripts/migrate.py` | the tables and indexes of the schema, the version stamp | upgrade, downgrade | `SchemaRevisions`, `SchemaMigrations`, `Deployment` |
| Evidence index, `services/retrieval.py` | a Qdrant collection of one dimension, a point per record | `ensure_collection`, `upsert`, `search` | `EvidenceIndex`, `QueryBounds` (size of a search) |
| SQL gate, `services/sql_safety.py` | none | `validate_readonly_select` | `SqlGate`, `RowLimits` (LIMIT), `GateEvaluation` |
| Read-only executor, `services/readonly_query.py` | the row bound of the settings | `execute` | `QueryBounds` |
| Model context, `services/agent_context.py:61-148` | none | caps on rows and evidence, snapshot | `QueryBounds`, `RunEvaluation` |
| Advisor, `services/llm_advisor.py`, `agent_contracts.py`; fake, `services/fake_llm.py` | an HTTP client | plan, draft, review | `RunEvaluation` |
| Evaluation, `services/evaluation.py`, `scripts/evaluate_*.py` | counters of one report | score, summarise, evaluate the gate | `RunEvaluation`, `GateEvaluation` |
| Checkpoint saver, feedback, request schemas, PII filter, configuration, logging, semantic review | | | not modelled, see 7 |

How they interact. A request either runs the workflow itself (`POST /analysis-runs`) or commits a row
"running" and queues a background job (`POST /analysis-runs/async`). The job calls the workflow; the
workflow calls back a reporter that emits into the progress store; the job commits the result, or
records a failure, and emits one terminal event. Streams, in other tasks, poll first the store and then
the row. The job, the streams and other requests share the store (memory of the process) and the rows
(MySQL); nothing else connects them. The workflow asks an advisor (or the fake), passes each SQL candidate
through the gate, and reads the index, which scripts fill from the tables that API requests change
meanwhile. The tables themselves are made by commands that know nothing of the running service.

Behaviours that are hard here, and what correctness means:

* **Store against row.** Success must not be told before it is durable; a stream must neither repeat
  nor reorder signals although the store evicts runs, renumbers them from 1 and is lost at a restart.
* **Failing commits.** A commit can raise before or after it was written; what is announced and what
  the row says may differ, in one direction only.
* **Restarts.** Jobs and streams live in the process, rows do not.
* **Revision loops.** Two routers bound two loops with separate counters that feed each other, and the
  counters are derived from attempts. The bounds, the audits, the persisted status and the draft must
  speak of the same result after any sequence of revisions and failures.
* **Providers.** The model answers badly or not at all; every role takes another way out, the number of
  paid calls stays bounded, and the run ends as limited, not as an exception.
* **Check then act.** Every CRUD handler checks and commits in separate statements.
* **Bounds in series.** A LIMIT is bounded twice with different numbers, fetched with a third cut and
  shown with a fourth; report and evaluation count again.
* **Names.** The gate decides what a column means without the database; the database decides again.
* **Schema changes.** No statement of a migration is undone when its command stops, and nothing keeps
  two commands apart.
* **Index.** "Does the collection exist" and "create it" are two calls; records are read long before
  they are written.

## 2. Modules

`ProgressSignals` is the closed vocabulary of signals, a `<<stage, status>>` pair standing for the pair
and its fixed sentence.

**`ProgressStore`** models `emit`, `after` and `reset`. `events`, `nextSequence` and `order` are the two
dictionaries and their insertion order; each call is one step, the lock being held throughout. History
variable `emitted` counts the accepted emissions of a run: it is also the event's timestamp, so that
"the window of the latest emissions" can be stated.

**`AgentWorkflow`** has one action per outcome of each node. What a role answers is any value of its
type, or an exception. `Candidates` are the four things `validate_readonly_select` can do with a
proposal (none, accepted, refused, an exception other than `SQLSafetyError`). A query result is named
by the plan attempt it came from, so "which result is this draft about" can be asked. `result` and the
operators `ReportSqlRevisions`, `ReportConclusionRevisions` are what is returned and what the report
API recomputes later.

**`WorkflowContract`** is the abstract specification of one call of the workflow: at most `MaxSignals`
signals, then one return or one exception, then silence, and it does end. `AgentWorkflow` implements it
(`ImplementsContract`, under the mapping phase/signals/status); `AnalysisLifecycle` uses the workflow
only through this contract.

**`QueryBounds`** extends `AgentWorkflow`: every step is a step of the workflow together with what it
does to numbers. It follows a count through the search, the gate (twice), the statement, the fetch, the
advisor's input, the snapshot and the report. The rows that match are chosen anew at each query,
because other requests change the tables in between.

**`RunEvaluation`** extends `QueryBounds` by who plays the roles (`provider`: the live model, none of it
during an outage, or the fake) and by who reads the result. A role's step is one call of the model; what
the call brings back (`Answers`: nothing, empty content, no JSON, no object, a refused object, an accepted
one) decides which outcome of the node follows, a different one for each role. The second half are
functions of a returned run: the report's context and its schema, the snapshot, the observables, the row
a question gets, the summary of rows.

**`SqlGate`** is the whole verdict of `validate_readonly_select` on statements as records: what the
parser makes of the text, which refused parts there are, FROM items with aliases, labels of the select
list, qualified and unqualified columns, TIMESTAMPDIFF calls with the one table their arguments may
have, the LIMIT (`RowLimits`, shared with `QueryBounds`). `StatementRecords` says what such a record is;
TLC draws from a finite set of them. The reference is MySQL's reading of a name: `Denoted` are the FROM
items it can belong to, `MeansLabel` says whether it is a label of the select list, which depends on the
clause it stands in: ORDER BY tries the labels first, GROUP BY and HAVING after the columns, the select
list, WHERE and ON not at all. The gate does not look at the clause. An OFFSET is refused if the parser
leaves it on the LIMIT node (`sql_safety.py:142`); sqlglot 29, the newest that `pyproject.toml` admits,
seems to keep it beside the LIMIT, and then it is not refused and the statement has an integer LIMIT.
**`GateEvaluation`** feeds such statements to the gate as `scripts/evaluate_sql_safety.py` does.

**`AnalysisLifecycle`** composes `ProgressStore` with the rows, the jobs and the streams. A job's
program counter is one of queued, workflow, saving, recording, announcing; every commit has an action
in which it fails unwritten and, where it makes a difference, one in which it is written but raises. A
stream's steps are what happens between two points where the generator is suspended or calls out.
`Crash` loses the store, the jobs and the streams and keeps the rows.

**`DomainRecords`** models the CRUD requests in two steps, the handler's reads and its commit, with any
commits of other requests between them. A row keeps the columns that relate rows: unique name and
references. InnoDB's constraints are external operators (`InsertViolates`, `DeleteViolates`, ...): they
are evaluated at the commit, foreign keys restrict deletion, and flush with commit is one step because
the row locks are held between them. The scenario of `seed.py` is a transaction of the same kind.

**`SchemaRevisions`** holds the two revisions and the tables of `models.py` as data: tables, indexes,
foreign keys in the order of their statements. **`SchemaMigrations`** executes revisions of this form: a
command carries out one DDL statement per step, is refused where MySQL would refuse, dies between any
two statements, and moves the stamp at the end of a revision if the stamp is still the one it started
from. **`Deployment`** composes both with `DomainRecords`: commands race up and down, and at the head the
scenario and the requests run on the tables. It assumes, and TLC evaluates, two facts about the two
revisions as data: they create exactly what the models declare (`ModelsAssumption`), and what a downgrade
can drop before MySQL refuses it (`Droppable`) is two indexes (`LossAssumption`).

**`EvidenceIndex`** models indexing runs of the scripts, with embedders of different dimensions, while
the API edits, retypes and deletes rows. `ensure_collection` is two steps and `upsert` a third; each call
to Qdrant may fail with or without effect. Rows exist from the start; a row's texts are its version. The
model does not rely on Qdrant refusing vectors of a wrong dimension.

`MC*.tla` hold model values and symmetry sets. Definitions commented "Mutant" are plausible bugs, used
to show that each property can fail; no specification refers to them.

## 3. Runs

| Run | Distinct states | Question |
|---|---|---|
| `progress_store` | 5 635 | Do the two dictionaries stay in step, is memory bounded, is a tail the exact window of the latest emissions after eviction and return? |
| `workflow` | 673 536 | Every answer and failure of every role, of the live model, in an outage and of the fake: bounds of loops and calls, counters, audits, status, draft, signals, termination; then the sizes of results, the report and its schema, the evaluation. |
| `lifecycle_faults` | 212 509 | With failing commits, lost acknowledgements and a restart: order of frames, one terminal frame, success durable, rows settled once. |
| `lifecycle_no_faults` | 239 319 | Without faults: every run settles, every stream ends, failures are recorded, nothing is left out of a stream, no visible run without a job. |
| `domain_races` | 507 466 | Two racing requests: references, unique names, no return of deleted rows. |
| `deployment` | 190 596 | The real revisions under two racing, dying, retried commands, up and down: what the stamp means, whether the models are served, whether an interrupted upgrade is ever completed; then the scenario loaded twice by two requests. |
| `evidence_index` | 1 128 929 | Two indexing runs of different dimensions, edits and failing calls: one dimension, and an undisturbed run refreshes every point. |
| `sql_gate` | 54 763 | Which names does the gate accept and what are they to the database: a label or listed column, or a label to the gate alone? Do its two passes agree, are durations those of one table? |

Four more runs show disagreements between the program and what its repository says (section 5).

Bounds, and why they are enough.

* `MCProgressStore`: three runs for two places make every order of eviction and return; tails of two and
  four emissions make a tail overflow and a returning run overflow again.
* `RunEvaluation`: `RevisionLimit = 1` is the literal of the code, so the loops are those of the code and
  the run covers whole calls. 200, 50, 8, 5 and 20 are scaled to 2, 1, 2, 1 and 3 in the same order; the
  setting takes a value below and one above the gate's bound; LIMITs and matching rows go past every bound.
* `RunEvaluation` keeps the audits of a run that raises in the state; in the code they are lost with it
  (only a returned result is persisted), so `ProgressMatchesAudits` speaks of the signals that were sent.
* Lifecycle: a run, a stream and the store interact only pairwise except through eviction, for which two
  runs and one place suffice. `MaxEmissions` is smaller than the eleven signals a workflow can report;
  what matters is fewer, equal and more than a tail holds. Symmetry is used without liveness only.
  Signals and rows are dated by one logical clock. MySQL keeps `completed_at` in whole seconds, so
  `FramesInOrder` says nothing of how a row's date compares with a signal of the same second.
* `DomainRecords`: each property relates at most two rows of a table and two requests.
* `Deployment`: two commands make every race of two and every death followed by another attempt.
  `Quiet` keeps half a request from falling between two statements of a command. The requests are those
  of `SeedNext`, without the single creations, to allow two of every id; the theorem about
  `SeededTicketsOnce` covers the full `Spec` of `DomainRecords`.
* `GateEvaluation`: `MaxCases = 1` because the gate keeps nothing between two cases. Statements have up
  to two FROM items over a listed table with timestamps, a listed one without and an unlisted one, every
  alias also under the other table's name; a third item would add no new way for two to clash. A column
  stands in each of the three kinds of clauses, with and without a label of its name, listed or not.
* `EvidenceIndex`: two runs race for one collection; a ticket and a knowledge row of the same number are
  the only two records that could collide; a row has two versions.

Fairness. `AgentWorkflow` and `RunEvaluation` assume weak fairness of their next step: nodes run one
after another in one thread, and each call a node makes is bounded in time (60 s at most for the model
with no retries, `llm_advisor.py:85-96`; timeouts of Qdrant and of the SQL connection).
`AnalysisLifecycle` assumes weak fairness of each job's step and each stream's step: a thread pool and an
event loop that keep running. No fairness is assumed for requests, subscriptions, disconnections,
restarts, migrations or indexing. `lifecycle_faults` needs no fairness. Deadlock is not checked where the
system may come to rest: a returned workflow, all runs and streams ended, an index with no rows left, all
commands and requests done, a written report.

## 4. Proofs

For every value of the constants (TLC: small instances). Each module has an inductive invariant; the
theorems follow the pattern `Init => IInv`, one lemma per kind of step, `IInv'`, temporal step. Every
safety invariant and every action property of the passing runs is a theorem. Eight modules hold them,
each for a specification and those it extends.

* **`ProgressStoreProofs`**: any set of runs, signals and capacities of at least 1. The memory bound needs
  that `order`, `events` and `nextSequence` name the same runs and that `order` has no repetitions; the
  window needs that a run's number never exceeds its emissions.
* **`AgentWorkflowProofs`**: any revision limit L. `WorkBounded` (at most L+1 plans, 2L+1 drafts, 6L+5
  trace entries and signals) is not inductive: `Budget` bounds the attempts per node, `Pace` ties the
  length of the trace to the attempts, `Ledger` the audits and traced drafts to the counters. Also
  proved: report counters, origin of the query result (`ResultAudited` is the inductive form, and
  `ResultDocumented` derives from it where the result departs from the diagram), status against audits, draft against result,
  accepted signals, disclosed refusals, one signal per audit, the fixed path of the roles (`PathInv`: what
  lies behind a node has run, and only the review follows a draft), and the safety part of the refinement
  of `WorkflowContract`.
* **`RunEvaluationProofs`**: in layers. First `QueryBounds`, for any bounds and settings: candidate and
  clause change together, and the evidence never exceeds the search limit, which is at most the context's
  cap. Each step of `RunEvaluation` is one of `QueryBounds`, which is one
  of the workflow (`RunImplementsBounds`), so everything proved below holds for whoever plays the roles.
  On top: the calls by provider (`CallsCounted` counts a call per node; an outage follows one path,
  `OutagePath`, and so does the fake up to its revision, `FakePath`), the report's rows (`RowsOfAudits`
  ties each count to its audit), the sums of the evaluation (`StatusGiven`, `RowOf`). Three results are about
  the literal bounds of the code (at most one revision of each kind), so they assume `RevisionLimit = 1`
  and nothing of the other constants: a returned run exceeds the six published calls exactly with a third
  draft (a part of `RunCallsByProvider`), the report fits its schema but for one history
  (`RunReportFitsSchema`), and the observables measure the graph (`RunObservablesMeasureTheGraph`).
  All three need to know, before the run has returned, which history makes which draft: `DraftsExplained`
  says that a second draft comes from a revision of the conclusion or a second query and a third from
  both, the conclusion first. The trace alone does not say that a revision was granted until the next
  node has run; `WentOn` says it from the router's choice on.
* **`AnalysisLifecycleProofs`**: any number of runs, streams, restarts and failing commits, any capacity of
  the store; all safety properties of the two lifecycle runs. `FramesInOrder` rests on the difference
  `emitted - nextSequence` of a run, which is constant while the store keeps the run and grows when it
  drops it: an event whose number exceeds a stream's cursor is therefore later than every frame sent
  (`CursorOK`, `BatchOK`), renumbered or not. A frame made from the row is later than every signal because
  a row is dated when only the terminal signal can follow (`BeforeRow`). `SuccessIsDurable` and
  `SettledOnce` need to know what a job's program counter says of its row (`JobRow`). The two properties
  that faults refute are proved under their assumptions: `FailureIsDurable` while the database answers
  (restarts allowed), `RunningRowHasJob` while the process lives, too.
* **`DomainRecordsProofs`**: any tables, names and number of requests. `SeededTicketsOnce` holds because a
  scenario ticket keeps a customer with the scenario's unique, unchangeable name (`SeededTicketsOwned`),
  which deletion cannot remove under it; requests in flight must fit their table (`RequestsFit`).
* **`DeploymentProofs`**: any revisions of the form the assumptions describe, any number of commands and
  requests. First the schema alone: what an upgrade created, or the stamp claims, exists but for what a
  downgrade can drop before it meets a pinned index, which MySQL refuses (`StampedObjectsKept`,
  `UpgradePlaced`), and that is no table (`NoTableDroppable`); at most one command is beyond the first
  table of its revision, which cannot be created twice (`OneInside`), and only this one can move the stamp;
  the first table of an interrupted revision makes every later upgrade fail at its first statement
  (`InterruptedForGood`). Then the composition: records and schema do not look at each other, so the
  invariant is the two invariants and the one fact that ties them, that rows exist only at the head
  (`ServedAtHead`); it holds because no command moves the stamp of a database at the head (`HeadStays`).
  `DeploymentHeadServesModels` follows with the two assumptions on the real revisions.
* **`EvidenceIndexProofs`**: any rows, dimensions and indexing runs. `PointsFitCollection` needs that runs
  under way have an embedder's dimension, which is not 0, hence no points exist before the collection.
  `UndisturbedRunRefreshes` needs that the batch of an undisturbed run is what the tables hold from its
  reading to its end (`BatchCurrent`), and that two records of the tables never share a point
  (`PointIdsDiffer`): otherwise one upsert could hide the other's text.
* **`GateEvaluationProofs`**: any tables, column lists and statements, with any number of FROM items. The
  gate keeps nothing between two statements, so its invariant only says that a verdict is the gate's; the
  work is in the lemmas about names. `GateFollowsTheDatabase` names the one kind of name on which gate and
  database differ (`MistakenForLabel`) and shows that there is no other. A qualified name agrees with MySQL's reading because an accepted
  statement calls no two tables the same (`AliasesOfOneTable`); an unqualified one because no withheld
  column has the name of one another table lists (`ListedMeansListed`). The second pass meets the
  statement the first one left, whose LIMIT is an integer within the bound (`ValidatedPassesAgain`).

Assumptions are those named in the modules (`CapacityAssumption` and the like): capacities and bounds are
positive, tables are disjoint, `"ticket"` is not a kind of knowledge, dimensions are positive, each
upgrade begins with a table and each downgrade meets the index of a foreign key before its first table,
the gate's lists name columns of the tables and do not contradict each other (`ColumnsAssumption`), the
revisions are those of the models (`ModelsAssumption`, `LossAssumption`). TLC evaluates all of them for the
values of the runs, which are those of the code for the revisions.

Model-checked only: liveness (`RunsSettle`, `StreamsEnd`, the termination in `ImplementsContract`), which
this prover does not do. That the two real revisions satisfy `ModelsAssumption` and `LossAssumption` is
evaluated by TLC: it is a computation on the data of `SchemaRevisions`. Proved only, without a run:
`GatesAgree`, `BoundedOnServer`, `ShortResultComplete`, `StatusMatchesAudits`, `ReportedSignalsAccepted`,
`RefusedRevisionsDisclosed`, `FixedRolePath` and `StampedTablesExist` on their own (the last two are also
parts of `ObservablesMeasureTheGraph` and `HeadServesModels`).

## 5. Disagreements

Shown by a run that finds the documented property violated:

* `workflow_published_figures`: a revision of the conclusion followed by one of the SQL writes three
  drafts. The run has called the model eight times (two plans, three drafts, three reviews) where
  `scripts/evaluate_live_agent.py:116` writes a bound of six into the report of the evaluation; and
  `routes.py:355` counts two conclusion revisions where `schemas.py:282` admits one, so the report of a
  completed run cannot be built. `evaluation.py:129` expects at most one, too.
* `lifecycle_final_status`: when a commit raises (or the first read does), subscribers are told "final
  status is available from the report API" (`progress.py:33`) while the row stays "running".
* `lifecycle_restart`: `routes.py:443-445` promises a terminal signal after a restart; a run interrupted by the
  restart stays "running", nothing resumes it, and a later subscriber polls for ever.
* `domain_seed_twice`: `seed.py:35` says the scenario is inserted once and `README.md:78` that repeated calls
  are idempotent; once its customers are deleted, its modules deleted or renamed and its policies
  deleted, a second call inserts the knowledge rows again.

Stated by a property of a passing run, which says exactly when the program departs from its documents and
that it departs in no other case:

* `ResultComesFromAudits`: a query was executed, the reviewer had the SQL revised, and the repair yields no
  candidate. The audit of the repair says "rejected", yet the earlier result stays and the run ends
  "completed" (`agent_workflow.py:194-197`), where `docs/diagrams.md:141-145` continues without statistics.
  `DocumentedResult` is the result of the diagram, `EarlierResultKept` the history.
* `VerdictFollowsTheDatabase`: `README.md:85` has the gate check a column allow-list. The gate lets every
  unqualified name pass that is also a label of the select list (`sql_safety.py:92-93`), in whatever clause;
  in the select list and in WHERE MySQL reads the column of that name, listed or not (`MistakenForLabel`).
* `CallsByProvider`, `ReportFitsSchema`: a third draft is the only history that exceeds the six calls and
  the one conclusion revision of `workflow_published_figures`, and it always does.
* `ObservablesMeasureTheGraph`: `evaluation.py:132` compares the size of the whole result, up to the
  setting, with the cap of the model's context, so a well-cut context can score as unsafe.
* `InterruptedUpgradeStays`, `HeadServesModels`: an interrupted upgrade is never completed by another one
  and needs a person; on MySQL `downgrade()` of the first revision is refused at the index of a foreign
  key, after two indexes are gone that no later upgrade brings back.

Noticed while modelling, without a run or property of their own:

* a refused revision is decided by a budget derived from the number of drafts, so a first
  `revise_conclusion` is refused after an SQL revision (`docs/diagrams.md:154, 163-164` grants it);
* `evaluate_live_agent.py:84-87` says of a run that raised that the durable run is marked failed, which it
  is not when it was the final commit that raised;
* `models.py` declares a unique index on `anonymous_id` where the migration creates a unique constraint
  and a plain index: equal in effect, so the model does not tell them apart;
* a tokenizer error of the SQL parser is no `ParseError` and escapes the gate; two FROM items of the
  same table and alias pass the gate and are refused by MySQL.

## 6. Plan

Done, in this order: progress store, workflow and its contract, lifecycle, domain records, index, bounds;
advisor, fake, report schema and evaluation; the SQL gate; migrations and their composition with the
records; proofs of all safety properties of all modules. Next, most important first:

1. **Search against index**: what a search can return while rows change (orphaned and old points); creation
   of rows while an indexing run is under way.
2. **Feedback and the answers of requests** (404, 409, 422, 500) as part of the handlers' actions.
3. **An abstract specification of a run as its owner sees it** (row, audits, terminal frame), with the
   lifecycle shown to implement it.

## 7. Not modelled

Texts: prompts, wording of summaries and limitations, redaction, the PII filter, ranking and embeddings.
They decide which values are exchanged, never which steps follow. Request schemas are ranges and
patterns; the ones that matter to a run are in `RunEvaluation`. The checkpoint saver
(`agent_context.py:27-58`) is built anew with each workflow and each request builds its own
(`routes.py:383`), so it holds the thread of one run and none of its limits is reached. Feedback is one
insertion after one check, and runs are never deleted. `semantic_review.py` validates a file in one
process. Configuration, logging, the health endpoint and engine construction keep no state that changes.
Durations are left out: no decision depends on them.
