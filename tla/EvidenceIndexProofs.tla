------------------------- MODULE EvidenceIndexProofs -------------------------
(***************************************************************************)
(* The collection keeps one dimension and an undisturbed run refreshes     *)
(* every point, for any number of rows, dimensions and indexing runs.      *)
(*                                                                         *)
(* PointsFitCollection alone is not inductive: CreateCollection changes    *)
(* the dimension from 0, so there must be neither points nor a run about   *)
(* to write before it.  That follows when the dimensions of points and of  *)
(* runs under way are dimensions of embedders, none of which is 0.         *)
(* UndisturbedRunRefreshes needs what a run holds meanwhile (BatchCurrent) *)
(* and that no two rows share a point (PointIdsDiffer).                    *)
(***************************************************************************)
EXTENDS EvidenceIndex, TLAPS

\* A run under way has the dimension of its embedder.
RunsSized == \A i \in Indexers : indexer[i].pc # "idle" => indexer[i].dimension \in Dimensions

IInv == TypeOK /\ RunsSized /\ PointsFitCollection

\* The parts of the type invariant that the API's requests can disturb.
RowsTyped ==
    /\ DOMAIN rows \subseteq Tables \X Ids
    /\ \A key \in DOMAIN rows :
          rows[key] \in [type : IF key[1] = "tickets" THEN {"ticket"} ELSE Kinds,
                         version : 1 .. MaxVersion]

\* The parts that only an indexing run disturbs.
IndexTyped ==
    /\ collection \in Dimensions \cup {0}
    /\ DOMAIN points \subseteq SourceTypes \X Ids
    /\ \A p \in DOMAIN points :
          points[p] \in [record : EvidenceRecords, dimension : Dimensions]
    /\ indexer \in [Indexers -> [pc : {"idle", "ensure", "create", "write", "done", "failed"},
                                 dimension : Dimensions \cup {0},
                                 batch : SUBSET EvidenceRecords]]

\* The type invariant is the sum of its parts.
LEMMA TypeParts == TypeOK <=> RowsTyped /\ IndexTyped /\ undisturbed \subseteq Indexers
  BY DEF TypeOK, RowsTyped, IndexTyped

-----------------------------------------------------------------------------

\* What is read from the tables are evidence records.
LEMMA RecordsTyped ==
  ASSUME TypeOK
  PROVE  RecordsFromDatabase \subseteq EvidenceRecords
<1> SUFFICES ASSUME NEW key \in DOMAIN rows
             PROVE  [type |-> rows[key].type, id |-> key[2], version |-> rows[key].version]
                       \in EvidenceRecords
  BY DEF RecordsFromDatabase
<1>1. key \in Tables \X Ids
  BY DEF TypeOK
<1>2. key[2] \in Ids
  BY <1>1
<1>3. rows[key].type \in SourceTypes /\ rows[key].version \in 1 .. MaxVersion
  BY DEF TypeOK, SourceTypes
<1> QED
  BY <1>2, <1>3 DEF EvidenceRecords

\* The points a run writes are typed and have its dimension.
LEMMA NewPoints ==
  ASSUME TypeOK, RunsSized, NEW i \in Indexers, indexer[i].pc = "write"
  PROVE  /\ DOMAIN PointsOf(i) \subseteq SourceTypes \X Ids
         /\ \A p \in DOMAIN PointsOf(i) :
               /\ PointsOf(i)[p] \in [record : EvidenceRecords, dimension : Dimensions]
               /\ PointsOf(i)[p].dimension = indexer[i].dimension
<1> DEFINE batch == indexer[i].batch
<1>1. batch \subseteq EvidenceRecords /\ indexer[i].dimension \in Dimensions
  BY DEF TypeOK, RunsSized
<1>2. DOMAIN PointsOf(i) = {PointId(record) : record \in batch}
  BY DEF PointsOf
<1>3. \A record \in batch : PointId(record) \in SourceTypes \X Ids
  BY <1>1 DEF PointId, EvidenceRecords
<1>4. ASSUME NEW p \in DOMAIN PointsOf(i)
      PROVE  /\ PointsOf(i)[p] \in [record : EvidenceRecords, dimension : Dimensions]
             /\ PointsOf(i)[p].dimension = indexer[i].dimension
  <2> DEFINE chosen == CHOOSE record \in batch : PointId(record) = p
  <2>1. \E record \in batch : PointId(record) = p
    BY <1>2
  <2>2. chosen \in batch
    BY <2>1
  <2>3. PointsOf(i)[p] = [record |-> chosen, dimension |-> indexer[i].dimension]
    BY <1>2 DEF PointsOf
  <2> QED
    BY <1>1, <2>2, <2>3
<1> QED
  BY <1>2, <1>3, <1>4

\* Storing a run's points keeps the points typed and of the collection's dimension.
LEMMA StoredFits ==
  ASSUME IInv, NEW i \in Indexers, indexer[i].pc = "write", Stored(i)
  PROVE  /\ DOMAIN points' \subseteq SourceTypes \X Ids
         /\ \A p \in DOMAIN points' :
               /\ points'[p] \in [record : EvidenceRecords, dimension : Dimensions]
               /\ points'[p].dimension = collection
         /\ undisturbed' \subseteq Indexers
<1> DEFINE new == PointsOf(i)
<1>1. points' = [p \in DOMAIN points \cup DOMAIN new |->
                    IF p \in DOMAIN new THEN new[p] ELSE points[p]]
  BY DEF Stored, Written
<1>2. /\ DOMAIN new \subseteq SourceTypes \X Ids
      /\ \A p \in DOMAIN new :
            /\ new[p] \in [record : EvidenceRecords, dimension : Dimensions]
            /\ new[p].dimension = indexer[i].dimension
  BY NewPoints DEF IInv
<1>3. indexer[i].dimension = collection
  BY DEF IInv, PointsFitCollection
<1>4. /\ DOMAIN points \subseteq SourceTypes \X Ids
      /\ \A p \in DOMAIN points :
            /\ points[p] \in [record : EvidenceRecords, dimension : Dimensions]
            /\ points[p].dimension = collection
  BY DEF IInv, TypeOK, PointsFitCollection
<1>5. undisturbed' \subseteq Indexers
  BY DEF Stored, IInv, TypeOK
<1> HIDE DEF new
<1> QED
  BY <1>1, <1>2, <1>3, <1>4, <1>5

\* While there is no collection there is no point, and no run is about to write.
LEMMA NothingWithoutCollection ==
  ASSUME IInv, collection = 0
  PROVE  /\ DOMAIN points = {}
         /\ \A i \in Indexers : indexer[i].pc \notin {"write", "done"}
  BY IndexAssumption DEF IInv, TypeOK, RunsSized, PointsFitCollection

-----------------------------------------------------------------------------

\* Requests of the API keep the rows typed and leave the collection alone.
LEMMA EditingStep ==
  ASSUME IInv, Editing
  PROVE  IInv'
<1>1. PICK key \in DOMAIN rows :
        EditRow(key) \/ DeleteRow(key) \/ \E kind \in Kinds : RetypeKnowledge(key, kind)
  BY DEF Editing
<1>2. undisturbed' = {} /\ UNCHANGED <<collection, points, indexer>>
  BY <1>1 DEF EditRow, DeleteRow, RetypeKnowledge, RowsChange
<1>3. RowsTyped /\ key \in Tables \X Ids
  BY TypeParts DEF IInv, RowsTyped
<1>4. RowsTyped'
  <2>1. CASE EditRow(key)
    <3>1. rows' = [rows EXCEPT ![key] = [rows[key] EXCEPT !.version = rows[key].version + 1]]
      BY <2>1 DEF EditRow
    <3>2. rows[key].version + 1 \in 1 .. MaxVersion
      BY <2>1, <1>3, IndexAssumption DEF EditRow, RowsTyped
    <3> QED
      BY <1>3, <3>1, <3>2 DEF RowsTyped
  <2>2. CASE DeleteRow(key)
    BY <1>3, <2>2 DEF DeleteRow, RowsTyped
  <2>3. ASSUME NEW kind \in Kinds, RetypeKnowledge(key, kind)
        PROVE  RowsTyped'
    <3>1. rows' = [rows EXCEPT ![key] = [rows[key] EXCEPT !.type = kind]]
      BY <2>3 DEF RetypeKnowledge
    <3>2. key[1] # "tickets"
      BY <2>3 DEF RetypeKnowledge
    <3> QED
      BY <1>3, <3>1, <3>2 DEF RowsTyped
  <2> QED
    BY <1>1, <2>1, <2>2, <2>3
<1> QED
  BY <1>2, <1>4, TypeParts
  DEF IInv, TypeOK, RowsTyped, IndexTyped, RunsSized, PointsFitCollection

\* A step of an indexing run keeps the invariant.
LEMMA IndexingStep ==
  ASSUME IInv, NEW i \in Indexers, Indexing(i)
  PROVE  IInv'
<1> USE DEF IInv
<1>1. CASE LoadRecords(i)
  <2>1. PICK dimension \in Dimensions :
          indexer' = [indexer EXCEPT ![i] =
              [pc |-> "ensure", dimension |-> dimension, batch |-> RecordsFromDatabase]]
    BY <1>1 DEF LoadRecords
  <2>2. RecordsFromDatabase \subseteq EvidenceRecords
    BY RecordsTyped
  <2>3. TypeOK'
    BY <1>1, <2>1, <2>2 DEF LoadRecords, TypeOK
  <2>4. RunsSized' /\ PointsFitCollection'
    BY <1>1, <2>1 DEF LoadRecords, RunsSized, PointsFitCollection, TypeOK
  <2> QED
    BY <2>3, <2>4
<1>2. CASE CheckCollection(i)
  <2>1. /\ indexer' = [indexer EXCEPT ![i].pc = NextAfterCheck(i)]
        /\ indexer[i].pc = "ensure"
        /\ UNCHANGED <<rows, collection, points, undisturbed>>
    BY <1>2 DEF CheckCollection, Goes
  <2>2. /\ NextAfterCheck(i) \in {"create", "write", "failed"}
        /\ NextAfterCheck(i) = "write" => collection = indexer[i].dimension
    BY DEF NextAfterCheck
  <2>3. TypeOK'
    BY <2>1, <2>2 DEF TypeOK
  <2>4. RunsSized' /\ PointsFitCollection'
    BY <2>1, <2>2 DEF RunsSized, PointsFitCollection, TypeOK
  <2> QED
    BY <2>3, <2>4
<1>3. CASE CreateCollection(i)
  <2>1. /\ indexer' = [indexer EXCEPT ![i].pc = "write"]
        /\ collection' = indexer[i].dimension
        /\ indexer[i].pc = "create" /\ collection = 0
        /\ UNCHANGED <<rows, points, undisturbed>>
    BY <1>3 DEF CreateCollection, Goes
  <2>2. indexer[i].dimension \in Dimensions
    BY <2>1 DEF RunsSized
  <2>3. IndexTyped'
    BY <2>1, <2>2 DEF TypeOK, IndexTyped
  <2>4. RowsTyped' /\ undisturbed' \subseteq Indexers
    BY <2>1, TypeParts DEF RowsTyped
  <2>5. RunsSized' /\ PointsFitCollection'
    BY <2>1, NothingWithoutCollection DEF RunsSized, PointsFitCollection, TypeOK
  <2> QED
    BY <2>3, <2>4, <2>5 DEF TypeOK, IndexTyped, RowsTyped
<1>4. CASE CreateRaises(i)
  <2>1. /\ indexer' = [indexer EXCEPT ![i].pc = "failed"]
        /\ collection' = collection
             \/ (collection = 0 /\ collection' = indexer[i].dimension)
        /\ indexer[i].pc = "create"
        /\ UNCHANGED <<rows, points, undisturbed>>
    BY <1>4 DEF CreateRaises, Goes
  <2>2. TypeOK'
    BY <2>1 DEF TypeOK
  <2>3. RunsSized' /\ PointsFitCollection'
    BY <2>1, NothingWithoutCollection DEF RunsSized, PointsFitCollection, TypeOK
  <2> QED
    BY <2>2, <2>3
<1>5. CASE Upsert(i)
  <2>1. /\ indexer' = [indexer EXCEPT ![i].pc = "done"]
        /\ indexer[i].pc = "write" /\ Stored(i)
        /\ UNCHANGED <<rows, collection>>
    BY <1>5 DEF Upsert, Goes
  <2> HIDE DEF IInv
  <2>2. /\ DOMAIN points' \subseteq SourceTypes \X Ids
        /\ \A p \in DOMAIN points' :
              /\ points'[p] \in [record : EvidenceRecords, dimension : Dimensions]
              /\ points'[p].dimension = collection
        /\ undisturbed' \subseteq Indexers
    BY <2>1, StoredFits
  <2>3. TypeOK'
    BY <2>1, <2>2 DEF IInv, TypeOK
  <2>4. RunsSized' /\ PointsFitCollection'
    BY <2>1, <2>2 DEF IInv, RunsSized, PointsFitCollection, TypeOK
  <2> QED
    BY <2>3, <2>4 DEF IInv
<1>6. CASE UpsertRaises(i)
  <2>1. /\ indexer' = [indexer EXCEPT ![i].pc = "failed"]
        /\ indexer[i].pc = "write"
        /\ Stored(i) \/ UNCHANGED <<points, undisturbed>>
        /\ UNCHANGED <<rows, collection>>
    BY <1>6 DEF UpsertRaises, Goes
  <2>2. /\ DOMAIN points' \subseteq SourceTypes \X Ids
        /\ \A p \in DOMAIN points' :
              /\ points'[p] \in [record : EvidenceRecords, dimension : Dimensions]
              /\ points'[p].dimension = collection
        /\ undisturbed' \subseteq Indexers
    <3>1. CASE Stored(i)
      <4> HIDE DEF IInv
      <4> QED
        BY <2>1, <3>1, StoredFits
    <3>2. CASE UNCHANGED <<points, undisturbed>>
      BY <3>2 DEF TypeOK, PointsFitCollection
    <3> QED
      BY <2>1, <3>1, <3>2
  <2>3. TypeOK'
    BY <2>1, <2>2 DEF TypeOK
  <2>4. RunsSized' /\ PointsFitCollection'
    BY <2>1, <2>2 DEF RunsSized, PointsFitCollection, TypeOK
  <2> QED
    BY <2>3, <2>4
<1>7. CASE RunAgain(i)
  <2>1. /\ indexer' = [indexer EXCEPT ![i] = Idle]
        /\ UNCHANGED <<rows, collection, points, undisturbed>>
    BY <1>7 DEF RunAgain
  <2> QED
    BY <2>1 DEF Idle, TypeOK, RunsSized, PointsFitCollection
<1> QED
  BY <1>1, <1>2, <1>3, <1>4, <1>5, <1>6, <1>7 DEF Indexing

\* The start satisfies the invariant.
LEMMA InitInv == Init => IInv
<1> SUFFICES ASSUME Init PROVE IInv
  OBVIOUS
<1>1. RowsTyped
  BY IndexAssumption DEF Init, RowsTyped, RowType
<1>2. IndexTyped /\ undisturbed \subseteq Indexers
  BY DEF Init, IndexTyped, Idle
<1>3. RunsSized /\ PointsFitCollection
  BY DEF Init, RunsSized, PointsFitCollection, Idle
<1> QED
  BY <1>1, <1>2, <1>3, TypeParts DEF IInv

\* The inductive invariant of the index.
THEOREM IndexInvariance == Spec => []IInv
<1>1. IInv /\ [Next]_indexVars => IInv'
  <2> SUFFICES ASSUME IInv, [Next]_indexVars PROVE IInv'
    OBVIOUS
  <2>1. CASE Next
    BY <2>1, EditingStep, IndexingStep DEF Next
  <2>2. CASE UNCHANGED indexVars
    BY <2>2 DEF indexVars, IInv, TypeOK, RunsSized, PointsFitCollection
  <2> QED
    BY <2>1, <2>2
<1> QED
  BY InitInv, <1>1, PTL DEF Spec

\* Type correctness of the rows, the collection and the runs
\* (retrieval.py:42-49, 108-159).
THEOREM IndexTypeCorrect == Spec => []TypeOK
  BY IndexInvariance, PTL DEF IInv

\* Vectors of different dimensions never meet in the collection, for any number
\* of indexing runs and embedders (retrieval.py:116-126).
THEOREM IndexKeepsOneDimension == Spec => []PointsFitCollection
  BY IndexInvariance, PTL DEF IInv

-----------------------------------------------------------------------------
(* An undisturbed run refreshes every point.                               *)

\* An undisturbed run holds what the tables hold, from its reading to its end.
BatchCurrent ==
    \A i \in undisturbed : indexer[i].pc # "idle" => indexer[i].batch = RecordsFromDatabase

RefreshInv == BatchCurrent /\ UndisturbedRunRefreshes

\* No two records of the tables have the same point: a type tells the table, and
\* a row its record.
LEMMA PointIdsDiffer ==
  ASSUME TypeOK, NEW r \in RecordsFromDatabase, NEW s \in RecordsFromDatabase,
         PointId(r) = PointId(s)
  PROVE  r = s
<1>1. PICK k \in DOMAIN rows : r = [type |-> rows[k].type, id |-> k[2], version |-> rows[k].version]
  BY DEF RecordsFromDatabase
<1>2. PICK l \in DOMAIN rows : s = [type |-> rows[l].type, id |-> l[2], version |-> rows[l].version]
  BY DEF RecordsFromDatabase
<1>3. rows[k].type = rows[l].type /\ k[2] = l[2]
  BY <1>1, <1>2 DEF PointId
<1>4. k \in Tables \X Ids /\ l \in Tables \X Ids
  BY DEF TypeOK
<1>5. \A key \in {k, l} : rows[key].type = "ticket" <=> key[1] = "tickets"
  BY IndexAssumption DEF TypeOK
<1>6. k[1] = l[1]
  BY <1>3, <1>4, <1>5 DEF Tables
<1>7. k = l
  BY <1>3, <1>4, <1>6
<1> QED
  BY <1>1, <1>2, <1>7

\* What a run holds that has read the present tables is what it stores.
LEMMA StoresEveryRecord ==
  ASSUME TypeOK, NEW i \in Indexers, Stored(i), indexer[i].batch = RecordsFromDatabase,
         NEW record \in RecordsFromDatabase
  PROVE  PointId(record) \in DOMAIN points' /\ points'[PointId(record)].record = record
<1> DEFINE new == PointsOf(i)
           id == PointId(record)
           chosen == CHOOSE r \in RecordsFromDatabase : PointId(r) = id
<1>1. id \in DOMAIN new /\ new[id].record = chosen
  BY DEF PointsOf
<1>2. chosen \in RecordsFromDatabase /\ PointId(chosen) = id
  OBVIOUS
<1>3. chosen = record
  BY <1>2, PointIdsDiffer
<1>4. points' = [p \in DOMAIN points \cup DOMAIN new |-> IF p \in DOMAIN new THEN new[p] ELSE points[p]]
  BY DEF Stored, Written
<1> HIDE DEF new, id, chosen
<1>5. id \in DOMAIN points' /\ points'[id] = new[id]
  BY <1>1, <1>4
<1> QED
  BY <1>1, <1>3, <1>5 DEF id

\* A step of an indexing run leaves the batches of undisturbed runs current and
\* the points of those that are done fresh.
LEMMA IndexingRefreshes ==
  ASSUME TypeOK, RefreshInv, NEW i \in Indexers, Indexing(i)
  PROVE  RefreshInv'
<1>1. RecordsFromDatabase' = RecordsFromDatabase
  BY DEF Indexing, LoadRecords, CheckCollection, CreateCollection, CreateRaises, Upsert,
         UpsertRaises, RunAgain, RecordsFromDatabase
<1>2. undisturbed \subseteq Indexers
  BY DEF TypeOK
<1>3. ASSUME NEW next, indexer' = [indexer EXCEPT ![i] = next],
             next.pc \in {"idle", "ensure", "create", "write", "failed"},
             \/ next.batch = RecordsFromDatabase
             \/ next.batch = indexer[i].batch /\ indexer[i].pc # "idle"
             \/ next.pc = "idle",
             undisturbed' \subseteq undisturbed \cup {i},
             \/ next.batch = RecordsFromDatabase \/ next.pc = "idle"
             \/ i \notin undisturbed' \/ i \in undisturbed,
             points' = points \/ undisturbed' \subseteq {i}
      PROVE  RefreshInv'
  <2>1. \A j \in Indexers : indexer'[j] = IF j = i THEN next ELSE indexer[j]
    BY <1>3 DEF TypeOK
  <2>2. BatchCurrent'
    BY <1>1, <1>2, <1>3, <2>1 DEF RefreshInv, BatchCurrent
  <2>3. \A j \in undisturbed' : indexer'[j].pc = "done" => j \in undisturbed /\ indexer[j].pc = "done" /\ points' = points
    BY <1>2, <1>3, <2>1
  <2>4. UndisturbedRunRefreshes'
    BY <1>1, <2>3 DEF RefreshInv, UndisturbedRunRefreshes
  <2> QED
    BY <2>2, <2>4 DEF RefreshInv
<1>4. CASE LoadRecords(i)
  <2>1. PICK dimension \in Dimensions :
          indexer' = [indexer EXCEPT ![i] =
              [pc |-> "ensure", dimension |-> dimension, batch |-> RecordsFromDatabase]]
    BY <1>4 DEF LoadRecords
  <2> QED
    BY <1>3, <1>4, <2>1 DEF LoadRecords
<1>5. ASSUME NEW pc \in {"create", "write", "failed"}, Goes(i, pc), indexer[i].pc # "idle",
             \/ UNCHANGED <<points, undisturbed>>
             \/ Stored(i) /\ pc = "failed"
      PROVE  RefreshInv'
  <2> DEFINE next == [indexer[i] EXCEPT !.pc = pc]
  <2>1. next.pc = pc /\ next.batch = indexer[i].batch
    BY DEF TypeOK
  <2>2. indexer' = [indexer EXCEPT ![i] = next]
    BY <1>5 DEF Goes
  <2>3. /\ undisturbed' \subseteq undisturbed
        /\ points' = points \/ undisturbed' \subseteq {i}
    BY <1>5 DEF Stored
  <2>4. i \notin undisturbed' \/ i \in undisturbed
    BY <2>3
  <2>5. /\ next.pc \in {"idle", "ensure", "create", "write", "failed"}
        /\ undisturbed' \subseteq undisturbed \cup {i}
        /\ next.batch = indexer[i].batch /\ indexer[i].pc # "idle"
    BY <1>5, <2>1, <2>3
  <2> HIDE DEF next
  <2> QED
    BY <1>3, <2>2, <2>3, <2>4, <2>5
<1>6. CASE CheckCollection(i) \/ CreateCollection(i) \/ CreateRaises(i) \/ UpsertRaises(i)
  <2>1. NextAfterCheck(i) \in {"create", "write", "failed"}
    BY DEF NextAfterCheck
  <2>2. CASE CheckCollection(i)
    <3>1. Goes(i, NextAfterCheck(i)) /\ indexer[i].pc # "idle" /\ UNCHANGED <<points, undisturbed>>
      BY <2>2 DEF CheckCollection
    <3> QED
      BY <1>5, <2>1, <3>1
  <2>3. CASE CreateCollection(i)
    BY <1>5, <2>3 DEF CreateCollection
  <2>4. CASE CreateRaises(i)
    BY <1>5, <2>4 DEF CreateRaises
  <2>5. CASE UpsertRaises(i)
    BY <1>5, <2>5 DEF UpsertRaises
  <2> QED
    BY <1>6, <2>2, <2>3, <2>4, <2>5
<1>7. CASE Upsert(i)
  <2>1. \A j \in undisturbed' : j = i /\ i \in undisturbed
    BY <1>7 DEF Upsert, Stored
  <2>2. indexer'[i].pc = "done" /\ indexer'[i].batch = indexer[i].batch
    BY <1>7 DEF Upsert, Goes, TypeOK
  <2>3. i \in undisturbed => indexer[i].batch = RecordsFromDatabase
    BY <1>7 DEF Upsert, RefreshInv, BatchCurrent
  <2>4. BatchCurrent'
    BY <1>1, <2>1, <2>2, <2>3 DEF BatchCurrent
  <2>5. ASSUME i \in undisturbed, NEW record \in RecordsFromDatabase
        PROVE  PointId(record) \in DOMAIN points' /\ points'[PointId(record)].record = record
    BY <1>7, <2>3, <2>5, StoresEveryRecord DEF Upsert
  <2>6. UndisturbedRunRefreshes'
    BY <1>1, <2>1, <2>5 DEF UndisturbedRunRefreshes
  <2> QED
    BY <2>4, <2>6 DEF RefreshInv
<1>8. CASE RunAgain(i)
  BY <1>3, <1>8 DEF RunAgain, Idle
<1> QED
  BY <1>4, <1>6, <1>7, <1>8 DEF Indexing

\* After a run that nobody disturbed the point of every row tells the row's present
\* content, for any rows and runs, whatever failed before (retrieval.py:128-159).
THEOREM IndexUndisturbedRunRefreshes == Spec => []UndisturbedRunRefreshes
<1>1. Init => RefreshInv
  BY DEF Init, RefreshInv, BatchCurrent, UndisturbedRunRefreshes
<1>2. IInv /\ RefreshInv /\ [Next]_indexVars => RefreshInv'
  <2> SUFFICES ASSUME IInv, RefreshInv, [Next]_indexVars PROVE RefreshInv'
    OBVIOUS
  <2>1. CASE Editing
    BY <2>1
    DEF Editing, EditRow, DeleteRow, RetypeKnowledge, RowsChange, RefreshInv, BatchCurrent,
        UndisturbedRunRefreshes
  <2>2. ASSUME NEW i \in Indexers, Indexing(i) PROVE RefreshInv'
    BY <2>2, IndexingRefreshes DEF IInv
  <2>3. CASE UNCHANGED indexVars
    BY <2>3 DEF indexVars, RefreshInv, BatchCurrent, UndisturbedRunRefreshes, RecordsFromDatabase
  <2> QED
    BY <2>1, <2>2, <2>3 DEF Next
<1>3. RefreshInv => UndisturbedRunRefreshes
  BY DEF RefreshInv
<1> QED
  BY <1>1, <1>2, <1>3, IndexInvariance, PTL DEF Spec
=============================================================================
