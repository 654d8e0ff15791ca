--------------------------- MODULE EvidenceIndex ---------------------------
(***************************************************************************)
(* The evidence collection of app/services/retrieval.py.  An indexing run  *)
(* (scripts/evaluate_live_retrieval.py and others) reads every ticket and  *)
(* every knowledge row, makes sure the Qdrant collection exists with the   *)
(* dimension of its embedder, and upserts one point for each record.  The  *)
(* scripts may run at the same time, with embedders of different           *)
(* dimensions, while the API edits and deletes the rows.                   *)
(*                                                                         *)
(* Qdrant is external: it refuses to create a collection that exists, and  *)
(* a call may be refused or its answer be lost.  The model does not rely   *)
(* on Qdrant refusing a vector of the wrong dimension.                     *)
(***************************************************************************)
EXTENDS Naturals

CONSTANTS
    Ids,          \* numbers of rows; tickets and knowledge count separately
    Kinds,        \* source types of knowledge rows: "faq", "sop", ...
    Dimensions,   \* dimensions of the embedders
    Indexers,     \* indexing runs
    MaxVersion    \* bound of the model: edits of one row

ASSUME IndexAssumption ==
    /\ "ticket" \notin Kinds /\ Kinds # {}
    /\ Dimensions \subseteq Nat \ {0}
    /\ MaxVersion \in Nat \ {0}

SourceTypes == Kinds \cup {"ticket"}

Tables == {"tickets", "service_knowledge"}

\* EvidenceRecord, its texts and its category being the version of the row.
EvidenceRecords == [type : SourceTypes, id : Ids, version : 1 .. MaxVersion]

VARIABLES
    rows,         \* <<table, id>> -> [type, version] for the rows that exist
    collection,   \* dimension of the collection; 0 when there is none
    points,       \* point id -> [record, dimension]
    indexer       \* indexing run -> [pc, dimension, batch]

\* History, not program state: the runs during which no row was changed and no
\* other run wrote, since they read the rows.
VARIABLE undisturbed

indexVars == <<rows, collection, points, indexer, undisturbed>>

Idle == [pc |-> "idle", dimension |-> 0, batch |-> {}]

RowType(table, kind) == IF table = "tickets" THEN "ticket" ELSE kind

Init ==
    /\ \E kind \in Kinds :
          rows = [key \in Tables \X Ids |-> [type |-> RowType(key[1], kind), version |-> 1]]
    /\ collection = 0
    /\ points = [p \in {} |-> Idle]
    /\ indexer = [i \in Indexers |-> Idle]
    /\ undisturbed = {}

-----------------------------------------------------------------------------
(* Requests of the API.                                                    *)

RowsChange == undisturbed' = {} /\ UNCHANGED <<collection, points, indexer>>

EditRow(key) ==
    /\ rows[key].version < MaxVersion
    /\ rows' = [rows EXCEPT ![key].version = @ + 1]
    /\ RowsChange

\* PATCH of a knowledge row's source_type.
RetypeKnowledge(key, kind) ==
    /\ key[1] = "service_knowledge" /\ rows[key].type # kind
    /\ rows' = [rows EXCEPT ![key].type = kind]
    /\ RowsChange

DeleteRow(key) ==
    /\ rows' = [other \in DOMAIN rows \ {key} |-> rows[other]]
    /\ RowsChange

-----------------------------------------------------------------------------
(* One indexing run.                                                       *)

RecordsFromDatabase ==
    {[type |-> rows[key].type, id |-> key[2], version |-> rows[key].version] : key \in DOMAIN rows}

Goes(i, pc) == indexer' = [indexer EXCEPT ![i].pc = pc]

\* The scripts stop when there is no record, and so does upsert.
LoadRecords(i) ==
    /\ indexer[i].pc = "idle"
    /\ DOMAIN rows # {}
    /\ \E dimension \in Dimensions :
          indexer' = [indexer EXCEPT ![i] =
              [pc |-> "ensure", dimension |-> dimension, batch |-> RecordsFromDatabase]]
    /\ undisturbed' = undisturbed \cup {i}
    /\ UNCHANGED <<rows, collection, points>>

\* Mutant: takes any existing collection for its own.
NextAfterCheckAnySize(i) == IF collection = 0 THEN "create" ELSE "write"

\* What ensure_collection does next when it saw this collection.
NextAfterCheck(i) ==
    IF collection = 0 THEN "create"
    ELSE IF collection = indexer[i].dimension THEN "write" ELSE "failed"

CheckCollection(i) ==
    /\ indexer[i].pc = "ensure"
    /\ Goes(i, NextAfterCheck(i))
    /\ UNCHANGED <<rows, collection, points, undisturbed>>

CreateCollection(i) ==
    /\ indexer[i].pc = "create"
    /\ collection = 0
    /\ collection' = indexer[i].dimension
    /\ Goes(i, "write")
    /\ UNCHANGED <<rows, points, undisturbed>>

\* Another run created it since the check, or the answer of Qdrant is lost.
CreateRaises(i) ==
    /\ indexer[i].pc = "create"
    /\ collection' \in IF collection = 0 THEN {0, indexer[i].dimension} ELSE {collection}
    /\ Goes(i, "failed")
    /\ UNCHANGED <<rows, points, undisturbed>>

\* Mutant: names the point by the table of the row.
PointIdByTable(record) ==
    <<IF record.type = "ticket" THEN "tickets" ELSE "service_knowledge", record.id>>

\* Mutant: names the point by the number of the row alone.
PointIdByNumber(record) == <<"ticket", record.id>>

\* uuid5 of the source type and the number of the row.
PointId(record) == <<record.type, record.id>>

\* The points of Qdrant after it stored new ones over old ones.
Written(old, new) ==
    [p \in DOMAIN old \cup DOMAIN new |-> IF p \in DOMAIN new THEN new[p] ELSE old[p]]

PointsOf(i) ==
    [p \in {PointId(record) : record \in indexer[i].batch} |->
        [record    |-> CHOOSE record \in indexer[i].batch : PointId(record) = p,
         dimension |-> indexer[i].dimension]]

Stored(i) ==
    /\ points' = Written(points, PointsOf(i))
    /\ undisturbed' = undisturbed \cap {i}

Upsert(i) ==
    /\ indexer[i].pc = "write"
    /\ Stored(i)
    /\ Goes(i, "done")
    /\ UNCHANGED <<rows, collection>>

\* The call raises; the points were stored, or they were not.
UpsertRaises(i) ==
    /\ indexer[i].pc = "write"
    /\ Stored(i) \/ UNCHANGED <<points, undisturbed>>
    /\ Goes(i, "failed")
    /\ UNCHANGED <<rows, collection>>

\* The script ended; somebody runs it again.
RunAgain(i) ==
    /\ indexer[i].pc \in {"done", "failed"}
    /\ indexer' = [indexer EXCEPT ![i] = Idle]
    /\ UNCHANGED <<rows, collection, points, undisturbed>>

Indexing(i) ==
    \/ LoadRecords(i) \/ CheckCollection(i) \/ CreateCollection(i) \/ CreateRaises(i)
    \/ Upsert(i) \/ UpsertRaises(i) \/ RunAgain(i)

Editing ==
    \E key \in DOMAIN rows :
        EditRow(key) \/ DeleteRow(key) \/ \E kind \in Kinds : RetypeKnowledge(key, kind)

Next == Editing \/ \E i \in Indexers : Indexing(i)

Spec == Init /\ [][Next]_indexVars

-----------------------------------------------------------------------------

\* Type invariant of the rows, the collection and the indexing runs
\* (retrieval.py:42-49, 108-159).
TypeOK ==
    /\ DOMAIN rows \subseteq Tables \X Ids
    /\ \A key \in DOMAIN rows :
          rows[key] \in [type : IF key[1] = "tickets" THEN {"ticket"} ELSE Kinds,
                         version : 1 .. MaxVersion]
    /\ collection \in Dimensions \cup {0}
    /\ DOMAIN points \subseteq SourceTypes \X Ids
    /\ \A p \in DOMAIN points :
          points[p] \in [record : EvidenceRecords, dimension : Dimensions]
    /\ indexer \in [Indexers -> [pc : {"idle", "ensure", "create", "write", "done", "failed"},
                                 dimension : Dimensions \cup {0},
                                 batch : SUBSET EvidenceRecords]]
    /\ undisturbed \subseteq Indexers

\* Vectors of two dimensions never meet in the collection and it never changes
\* its dimension under a run, although the check for the collection and its
\* creation are two calls and runs with different embedders race through them
\* (retrieval.py:116-126).
PointsFitCollection ==
    /\ \A p \in DOMAIN points : points[p].dimension = collection
    /\ \A i \in Indexers : indexer[i].pc \in {"write", "done"} =>
          indexer[i].dimension = collection

\* After a run that nobody disturbed, the point of every row tells the row's
\* present content: also when rows were edited, deleted or given another type
\* since an earlier run, when an earlier run failed halfway, and when a ticket
\* and a knowledge row have the same number (retrieval.py:128-159).
UndisturbedRunRefreshes ==
    \A i \in undisturbed : indexer[i].pc = "done" =>
        \A record \in RecordsFromDatabase :
            PointId(record) \in DOMAIN points /\ points[PointId(record)].record = record
=============================================================================
