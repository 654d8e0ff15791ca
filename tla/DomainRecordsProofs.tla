------------------------ MODULE DomainRecordsProofs ------------------------
(***************************************************************************)
(* The rows of DomainRecords stay related and the scenario's tickets are   *)
(* never doubled, for any tables, names and number of concurrent requests. *)
(* The invariant adds to the checked ones what a request in flight may     *)
(* hold, and that a ticket of the scenario has the scenario's customer:    *)
(* this ties the tickets, which have no unique column, to one that is.     *)
(***************************************************************************)
EXTENDS DomainRecords, TLAPS

RequestsFit ==
    \A c \in Clients :
        /\ request[c].op = "insert" =>
              \A i \in request[c].table \cap Tickets :
                  /\ request[c].row.name = Nil
                  /\ request[c].row.customer \in Customers
                  /\ request[c].row.module \in Modules
        /\ request[c].op = "insert" => request[c].table \in Tables
        /\ request[c].op = "rename" => request[c].id \in Modules /\ request[c].row.name \in Names
        /\ request[c].op = "relink" => request[c].id \in Tickets \cup Knowledge

SeededTicketsOwned ==
    \A i \in Live \cap Tickets : rows[i].name = SeedName =>
        /\ rows[i].customer \in Live \cap Customers
        /\ rows[rows[i].customer].name = SeedName

IInv == /\ TypeOK
        /\ RequestsFit
        /\ ReferencesResolve
        /\ NamesUnique
        /\ SeededTicketsOwned
        /\ SeededTicketsOnce

-----------------------------------------------------------------------------

\* The tables share no id.
LEMMA TablesDisjoint ==
    /\ Customers \cap Modules = {} /\ Customers \cap Policies = {} /\ Customers \cap Tickets = {}
    /\ Customers \cap Events = {} /\ Customers \cap Knowledge = {}
    /\ Modules \cap Policies = {} /\ Modules \cap Tickets = {} /\ Modules \cap Events = {}
    /\ Modules \cap Knowledge = {} /\ Policies \cap Tickets = {} /\ Policies \cap Events = {}
    /\ Policies \cap Knowledge = {} /\ Tickets \cap Events = {} /\ Tickets \cap Knowledge = {}
    /\ Events \cap Knowledge = {}
<1> DEFINE T == <<Customers, Modules, Policies, Tickets, Events, Knowledge>>
<1>1. \A m, n \in 1 .. 6 : m # n => T[m] \cap T[n] = {}
  BY TablesAssumption
<1>2. /\ T[1] = Customers /\ T[2] = Modules /\ T[3] = Policies
      /\ T[4] = Tickets /\ T[5] = Events /\ T[6] = Knowledge
  OBVIOUS
<1> HIDE DEF T
<1>3. /\ T[1] \cap T[2] = {} /\ T[1] \cap T[3] = {} /\ T[1] \cap T[4] = {}
      /\ T[1] \cap T[5] = {} /\ T[1] \cap T[6] = {} /\ T[2] \cap T[3] = {}
      /\ T[2] \cap T[4] = {} /\ T[2] \cap T[5] = {} /\ T[2] \cap T[6] = {}
      /\ T[3] \cap T[4] = {} /\ T[3] \cap T[5] = {} /\ T[3] \cap T[6] = {}
      /\ T[4] \cap T[5] = {} /\ T[4] \cap T[6] = {} /\ T[5] \cap T[6] = {}
  BY <1>1
<1> QED BY <1>2, <1>3

\* Every table is a set of ids.
LEMMA TableIds ==
    /\ \A table \in Tables : table \subseteq Ids
    /\ Customers \in Tables /\ Modules \in Tables /\ Policies \in Tables
    /\ Tickets \in Tables /\ Events \in Tables /\ Knowledge \in Tables
    /\ Nil \notin Ids
BY TablesAssumption DEF Ids, Tables

\* The blank row is a row, and so is one with a column filled in.
LEMMA BlankIsRow ==
    /\ Blank \in Row
    /\ \A name \in Names : [Blank EXCEPT !.name = name] \in Row
    /\ \A customer \in Customers, module \in Modules :
          [Blank EXCEPT !.customer = customer, !.module = module] \in Row
    /\ \A module \in Modules \cup {Nil} : [Blank EXCEPT !.module = module] \in Row
    /\ \A ticket \in Tickets : [Blank EXCEPT !.ticket = ticket] \in Row
BY DEF Blank, Row

-----------------------------------------------------------------------------

\* The invariant holds initially.
LEMMA InitInvariant == Init => IInv
<1> SUFFICES ASSUME Init PROVE IInv
  OBVIOUS
<1>1. Live = {}
  BY DEF Init, Live
<1>2. TypeOK
  BY <1>1, BlankIsRow DEF Init, TypeOK, Idle
<1>3. RequestsFit
  BY DEF Init, RequestsFit, Idle
<1> QED
  BY <1>1, <1>2, <1>3
  DEF IInv, ReferencesResolve, NamesUnique, SeededTicketsOwned, SeededTicketsOnce

\* What a client may start to ask for.
Fits(op, table, id, row) ==
    /\ op \in {"insert", "rename", "relink", "delete", "seed"}
    /\ table \in Tables \cup {{}} /\ id \in Ids \cup {Nil} /\ row \in Row
    /\ op = "insert" =>
          /\ table \in Tables
          /\ \A i \in table \cap Tickets :
                row.name = Nil /\ row.customer \in Customers /\ row.module \in Modules
    /\ op = "rename" => id \in Modules /\ row.name \in Names
    /\ op = "relink" => id \in Tickets \cup Knowledge

\* Beginning a request changes no row, so only the request has to fit.
LEMMA BeginKeeps ==
  ASSUME IInv, NEW c \in Clients, NEW op, NEW table, NEW id, NEW row,
         Fits(op, table, id, row), Begin(c, op, table, id, row)
  PROVE  IInv'
<1>1. /\ UNCHANGED <<rows, spent>>
      /\ request' = [request EXCEPT ![c] = [op |-> op, table |-> table, id |-> id, row |-> row]]
  BY DEF Begin
<1>2. TypeOK'
  BY <1>1 DEF IInv, TypeOK, Fits, Live
<1>3. RequestsFit'
  BY <1>1 DEF IInv, TypeOK, RequestsFit, Fits
<1>4. /\ ReferencesResolve' /\ NamesUnique'
      /\ SeededTicketsOwned' /\ SeededTicketsOnce'
  BY <1>1 DEF IInv, ReferencesResolve, NamesUnique, SeededTicketsOwned, SeededTicketsOnce, Live
<1> QED BY <1>2, <1>3, <1>4 DEF IInv

\* The requests the reading half begins all fit.
LEMMA ReadsKeep == ASSUME IInv, NEW c \in Clients, Reads(c) PROVE IInv'
<1> USE TablesDisjoint, TableIds, BlankIsRow
<1>1. CASE CreateCustomer(c)
  <2>1. PICK name \in Names : Begin(c, "insert", Customers, Nil, [Blank EXCEPT !.name = name])
    BY <1>1 DEF CreateCustomer
  <2>2. Fits("insert", Customers, Nil, [Blank EXCEPT !.name = name])
    BY DEF Fits
  <2> QED BY <2>1, <2>2, BeginKeeps
<1>2. CASE CreateModule(c)
  <2>1. PICK name \in Names : Begin(c, "insert", Modules, Nil, [Blank EXCEPT !.name = name])
    BY <1>2 DEF CreateModule
  <2>2. Fits("insert", Modules, Nil, [Blank EXCEPT !.name = name])
    BY DEF Fits
  <2> QED BY <2>1, <2>2, BeginKeeps
<1>3. CASE CreatePolicy(c)
  <2>1. PICK name \in Names : Begin(c, "insert", Policies, Nil, [Blank EXCEPT !.name = name])
    BY <1>3 DEF CreatePolicy
  <2>2. Fits("insert", Policies, Nil, [Blank EXCEPT !.name = name])
    BY DEF Fits
  <2> QED BY <2>1, <2>2, BeginKeeps
<1>4. CASE CreateTicket(c)
  <2>1. PICK customer \in Customers, module \in Modules :
           Begin(c, "insert", Tickets, Nil,
                 [Blank EXCEPT !.customer = customer, !.module = module])
    BY <1>4 DEF CreateTicket
  <2>2. Fits("insert", Tickets, Nil, [Blank EXCEPT !.customer = customer, !.module = module])
    BY DEF Fits, Blank
  <2> QED BY <2>1, <2>2, BeginKeeps
<1>5. CASE CreateTicketEvent(c)
  <2>1. PICK ticket \in Tickets :
           Begin(c, "insert", Events, Nil, [Blank EXCEPT !.ticket = ticket])
    BY <1>5 DEF CreateTicketEvent
  <2>2. Fits("insert", Events, Nil, [Blank EXCEPT !.ticket = ticket])
    BY DEF Fits
  <2> QED BY <2>1, <2>2, BeginKeeps
<1>6. CASE CreateKnowledge(c)
  <2>1. PICK module \in Modules \cup {Nil} :
           Begin(c, "insert", Knowledge, Nil, [Blank EXCEPT !.module = module])
    BY <1>6 DEF CreateKnowledge
  <2>2. Fits("insert", Knowledge, Nil, [Blank EXCEPT !.module = module])
    BY DEF Fits
  <2> QED BY <2>1, <2>2, BeginKeeps
<1>7. CASE UpdateModule(c)
  <2>1. PICK i \in Modules, name \in Names :
           Begin(c, "rename", Modules, i, [Blank EXCEPT !.name = name])
    BY <1>7 DEF UpdateModule
  <2>2. Fits("rename", Modules, i, [Blank EXCEPT !.name = name])
    BY DEF Fits, Blank
  <2> QED BY <2>1, <2>2, BeginKeeps
<1>8. ASSUME NEW table \in {Tickets, Knowledge}, Relink(c, table) PROVE IInv'
  <2>1. PICK i \in table, module \in Modules \cup {Nil} :
           Begin(c, "relink", table, i, [Blank EXCEPT !.module = module])
    BY <1>8 DEF Relink
  <2>2. Fits("relink", table, i, [Blank EXCEPT !.module = module])
    BY DEF Fits
  <2> QED BY <2>1, <2>2, BeginKeeps
<1>9. ASSUME NEW table \in Tables, NEW refusing, DeleteUnlessIn(c, table, refusing) PROVE IInv'
  <2>1. PICK i \in table : Begin(c, "delete", table, i, Blank)
    BY <1>9 DEF DeleteUnlessIn
  <2>2. Fits("delete", table, i, Blank)
    BY DEF Fits
  <2> QED BY <2>1, <2>2, BeginKeeps
<1>10. CASE Seed(c)
  <2>1. Begin(c, "seed", {}, Nil, Blank)
    BY <1>10 DEF Seed
  <2>2. Fits("seed", {}, Nil, Blank)
    BY DEF Fits
  <2> QED BY <2>1, <2>2, BeginKeeps
<1> QED
  BY <1>1, <1>2, <1>3, <1>4, <1>5, <1>6, <1>7, <1>8, <1>9, <1>10
  DEF Reads, UpdateTicket, UpdateKnowledge, DeleteCustomer, DeleteModule, DeletePolicy,
      DeleteTicket, DeleteTicketEvent, DeleteKnowledge

-----------------------------------------------------------------------------

\* The type invariant of the requests alone.
RequestType ==
    request \in [Clients -> [op : {"none", "insert", "rename", "relink", "delete", "seed"},
                             table : Tables \cup {{}},
                             id : Ids \cup {Nil},
                             row : Row]]

\* A request that ends leaves the others as they were.
LEMMA DoneKeeps ==
  ASSUME IInv, NEW c \in Clients, Done(c)
  PROVE  RequestType' /\ RequestsFit'
<1>1. Idle \in [op : {"none", "insert", "rename", "relink", "delete", "seed"},
                table : Tables \cup {{}}, id : Ids \cup {Nil}, row : Row]
  BY BlankIsRow DEF Idle
<1>2. request' = [request EXCEPT ![c] = Idle] /\ RequestType
  BY DEF Done, IInv, TypeOK, RequestType
<1>3. RequestType'
  BY <1>1, <1>2 DEF RequestType
<1>4. Idle.op = "none"
  BY DEF Idle
<1>5. RequestsFit'
  BY <1>2, <1>4 DEF IInv, RequestsFit, RequestType
<1> QED BY <1>3, <1>5

\* A rolled-back request changes no row.
LEMMA RolledBackKeeps == ASSUME IInv, NEW c \in Clients, RolledBack(c) PROVE IInv'
<1>1. UNCHANGED <<rows, spent>> /\ RequestType' /\ RequestsFit'
  BY DoneKeeps DEF RolledBack
<1> QED
  BY <1>1 DEF IInv, TypeOK, RequestType, ReferencesResolve, NamesUnique,
              SeededTicketsOwned, SeededTicketsOnce, Live

\* An inserted row refers to live rows, has a free name, and is no ticket of the
\* scenario.
LEMMA InsertKeeps == ASSUME IInv, NEW c \in Clients, InsertCommits(c) PROVE IInv'
<1> DEFINE table == request[c].table
           row   == request[c].row
<1>1. PICK i \in table \ spent :
        /\ rows' = [j \in Live \cup {i} |-> IF j = i THEN row ELSE rows[j]]
        /\ spent' = spent \cup {i}
  BY DEF InsertCommits
<1>2. /\ request[c].op = "insert" /\ ~InsertViolates(table, row) /\ Done(c)
  BY DEF InsertCommits
<1>3. RequestType' /\ RequestsFit'
  BY <1>2, DoneKeeps
<1>4. row \in Row /\ table \in Tables /\ i \in Ids
  BY <1>2, <1>1, TableIds DEF IInv, TypeOK, RequestsFit
<1>5. i \in Tickets => row.name = Nil /\ row.customer \in Customers /\ row.module \in Modules
  BY <1>1, <1>2 DEF IInv, RequestsFit
<1> HIDE DEF table, row
<1>6. /\ Live' = Live \cup {i} /\ i \notin Live
      /\ rows'[i] = row /\ \A j \in Live : rows'[j] = rows[j]
  BY <1>1 DEF Live, IInv, TypeOK
<1>7. TypeOK'
  <2>1. Live' \subseteq spent' /\ spent' \subseteq Ids
    BY <1>1, <1>4, <1>6 DEF IInv, TypeOK
  <2>2. \A j \in Live' : rows'[j] \in Row
    BY <1>4, <1>6 DEF IInv, TypeOK
  <2> QED BY <2>1, <2>2, <1>3 DEF TypeOK, RequestType
<1>8. ReferencesResolve'
  <2>1. References(row) \subseteq Live
    BY <1>2 DEF InsertViolates
  <2>2. i \in Tickets => row.customer # Nil /\ row.module # Nil
    BY <1>5, TableIds
  <2>3. References(rows'[i]) = References(row)
    BY <1>6 DEF References
  <2>4. \A j \in Live : References(rows'[j]) = References(rows[j])
    BY <1>6 DEF References
  <2> QED
    BY <1>6, <2>1, <2>2, <2>3, <2>4 DEF IInv, ReferencesResolve, References
<1>9. NamesUnique'
  <2> SUFFICES ASSUME NEW t \in Named, NEW j \in Live' \cap t, NEW k \in Live' \cap t,
                      rows'[j].name = rows'[k].name
               PROVE  j = k
    BY DEF NamesUnique, Named
  <2>1. CASE j # i /\ k # i
    BY <2>1, <1>6 DEF IInv, NamesUnique
  <2>2. i \in t => t = table
    BY <1>1, <1>4, TablesDisjoint DEF Named, Tables
  <2>3. i \in t => \A l \in Live \cap t : rows[l].name # row.name
    BY <1>2, <2>2 DEF InsertViolates, NameTaken
  <2> QED BY <2>1, <2>3, <1>6
<1>10. SeededTicketsOwned'
  <2> SUFFICES ASSUME NEW j \in Live' \cap Tickets, rows'[j].name = SeedName
               PROVE  /\ rows'[j].customer \in Live' \cap Customers
                      /\ rows'[rows'[j].customer].name = SeedName
    BY DEF SeededTicketsOwned
  <2>1. j # i
    BY <1>5, <1>6, TablesAssumption
  <2> QED BY <2>1, <1>6 DEF IInv, SeededTicketsOwned
<1>11. SeededTicketsOnce'
  <2>1. i \in Tickets => rows'[i].name # SeedName
    BY <1>5, <1>6, TablesAssumption
  <2> QED BY <2>1, <1>6 DEF IInv, SeededTicketsOnce
<1> QED BY <1>3, <1>7, <1>8, <1>9, <1>10, <1>11 DEF IInv

\* A renamed module keeps its references, and no other row is touched.
LEMMA RenameKeeps == ASSUME IInv, NEW c \in Clients, RenameCommits(c) PROVE IInv'
<1> DEFINE i    == request[c].id
           name == request[c].row.name
<1>1. /\ request[c].op = "rename" /\ i \in Live /\ ~RenameViolates(i, name)
      /\ rows' = [rows EXCEPT ![i].name = name] /\ spent' = spent /\ Done(c)
  BY DEF RenameCommits
<1>2. RequestType' /\ RequestsFit'
  BY <1>1, DoneKeeps
<1>3. i \in Modules /\ name \in Names
  BY <1>1 DEF IInv, RequestsFit
<1> HIDE DEF i, name
<1>4. /\ Live' = Live
      /\ rows'[i] = [rows[i] EXCEPT !.name = name]
      /\ \A j \in Live : j # i => rows'[j] = rows[j]
  BY <1>1 DEF Live
<1>5. /\ rows[i] \in Row /\ rows'[i] \in Row
      /\ References(rows'[i]) = References(rows[i])
      /\ rows'[i].name = name
  BY <1>1, <1>3, <1>4 DEF IInv, TypeOK, Row, References
<1>6. TypeOK'
  BY <1>1, <1>2, <1>4, <1>5 DEF IInv, TypeOK, RequestType
<1>7. ReferencesResolve'
  <2>1. \A j \in Live : References(rows'[j]) = References(rows[j])
    BY <1>4, <1>5
  <2> QED
    BY <2>1, <1>3, <1>4, TablesDisjoint DEF IInv, ReferencesResolve
<1>8. NamesUnique'
  <2> SUFFICES ASSUME NEW t \in Named, NEW j \in Live' \cap t, NEW k \in Live' \cap t,
                      rows'[j].name = rows'[k].name
               PROVE  j = k
    BY DEF NamesUnique, Named
  <2>1. CASE j # i /\ k # i
    BY <2>1, <1>4 DEF IInv, NamesUnique
  <2>2. i \in t => t = Modules
    BY <1>3, TablesDisjoint DEF Named
  <2>3. i \in t => \A l \in Live \cap t : l # i => rows[l].name # name
    BY <1>1, <2>2 DEF RenameViolates
  <2> QED BY <2>1, <2>3, <1>4, <1>5
<1>9. SeededTicketsOwned' /\ SeededTicketsOnce'
  BY <1>3, <1>4, TablesDisjoint DEF IInv, SeededTicketsOwned, SeededTicketsOnce
<1> QED BY <1>2, <1>6, <1>7, <1>8, <1>9 DEF IInv

\* A row that is moved to another module refers to a live one.
LEMMA RelinkKeeps == ASSUME IInv, NEW c \in Clients, RelinkCommits(c) PROVE IInv'
<1> DEFINE i      == request[c].id
           module == request[c].row.module
<1>1. /\ request[c].op = "relink" /\ i \in Live /\ ~RelinkViolates(i, module)
      /\ rows' = [rows EXCEPT ![i].module = module] /\ spent' = spent /\ Done(c)
  BY DEF RelinkCommits
<1>2. RequestType' /\ RequestsFit'
  BY <1>1, DoneKeeps
<1>3. i \in Tickets \cup Knowledge /\ module \in Modules \cup {Nil}
  BY <1>1 DEF IInv, RequestsFit, TypeOK, Row
<1> HIDE DEF i, module
<1>4. /\ Live' = Live
      /\ rows'[i] = [rows[i] EXCEPT !.module = module]
      /\ \A j \in Live : j # i => rows'[j] = rows[j]
  BY <1>1 DEF Live
<1>5. /\ rows[i] \in Row /\ rows'[i] \in Row
      /\ rows'[i].name = rows[i].name /\ rows'[i].customer = rows[i].customer
      /\ rows'[i].module = module
      /\ References(rows'[i]) \subseteq References(rows[i]) \cup ({module} \ {Nil})
  BY <1>1, <1>3, <1>4 DEF IInv, TypeOK, Row, References
<1>6. TypeOK'
  BY <1>1, <1>2, <1>4, <1>5 DEF IInv, TypeOK, RequestType
<1>7. ReferencesResolve'
  <2>1. References(rows'[i]) \subseteq Live
    BY <1>1, <1>5 DEF IInv, ReferencesResolve, RelinkViolates
  <2>2. i \in Tickets => rows'[i].customer # Nil /\ rows'[i].module # Nil
    BY <1>1, <1>5 DEF IInv, ReferencesResolve, RelinkViolates
  <2>3. \A j \in Live : j # i => References(rows'[j]) = References(rows[j])
    BY <1>4
  <2> QED BY <2>1, <2>2, <2>3, <1>4 DEF IInv, ReferencesResolve
<1>8. \A j \in Live : rows'[j].name = rows[j].name /\ rows'[j].customer = rows[j].customer
  BY <1>4, <1>5
<1>9. NamesUnique'
  <2> SUFFICES ASSUME NEW t \in Named, NEW j \in Live' \cap t, NEW k \in Live' \cap t,
                      rows'[j].name = rows'[k].name
               PROVE  j = k
    BY DEF NamesUnique, Named
  <2> QED BY <1>4, <1>8 DEF IInv, NamesUnique
<1>10. SeededTicketsOwned'
  BY <1>4, <1>8 DEF IInv, SeededTicketsOwned
<1>11. SeededTicketsOnce'
  BY <1>4, <1>8 DEF IInv, SeededTicketsOnce
<1> QED BY <1>2, <1>6, <1>7, <1>9, <1>10, <1>11 DEF IInv

\* A deleted row is referred to by none of the rows that stay.
LEMMA DeleteKeeps == ASSUME IInv, NEW c \in Clients, DeleteCommits(c) PROVE IInv'
<1> DEFINE i == request[c].id
<1>1. /\ ~DeleteViolates(i) /\ rows' = [j \in Live \ {i} |-> rows[j]]
      /\ spent' = spent /\ Done(c)
  BY DEF DeleteCommits
<1>2. RequestType' /\ RequestsFit'
  BY <1>1, DoneKeeps
<1> HIDE DEF i
<1>3. Live' = Live \ {i} /\ \A j \in Live' : rows'[j] = rows[j]
  BY <1>1 DEF Live
<1>4. \A j \in Live : i \notin References(rows[j])
  BY <1>1 DEF DeleteViolates, Children
<1>5. TypeOK'
  BY <1>1, <1>2, <1>3 DEF IInv, TypeOK, RequestType
<1>6. ReferencesResolve'
  <2>1. \A j \in Live' : References(rows'[j]) = References(rows[j])
    BY <1>3
  <2> QED BY <2>1, <1>3, <1>4 DEF IInv, ReferencesResolve
<1>7. NamesUnique' /\ SeededTicketsOnce'
  BY <1>3 DEF IInv, NamesUnique, SeededTicketsOnce
<1>8. SeededTicketsOwned'
  <2> SUFFICES ASSUME NEW j \in Live' \cap Tickets, rows'[j].name = SeedName
               PROVE  /\ rows'[j].customer \in Live' \cap Customers
                      /\ rows'[rows'[j].customer].name = SeedName
    BY DEF SeededTicketsOwned
  <2>1. /\ j \in Live /\ rows'[j] = rows[j]
        /\ rows[j].customer \in Live \cap Customers
        /\ rows[rows[j].customer].name = SeedName
    BY <1>3 DEF IInv, SeededTicketsOwned
  <2>2. rows[j].customer # Nil
    BY <2>1, TableIds
  <2>3. rows[j].customer \in References(rows[j])
    BY <2>2 DEF References
  <2>4. rows[j].customer # i
    BY <2>1, <2>3, <1>4
  <2> QED BY <2>1, <2>4, <1>3
<1> QED BY <1>2, <1>5, <1>6, <1>7, <1>8 DEF IInv

\* The scenario brings one row to each table; the names it uses are free, so no
\* live ticket belongs to a scenario already.
LEMMA SeedKeeps == ASSUME IInv, NEW c \in Clients, SeedCommits(c) PROVE IInv'
<1>1. PICK customer \in Customers \ spent, module \in Modules \ spent,
           policy \in Policies \ spent, ticket \in Tickets \ spent,
           event \in Events \ spent, knowledge \in Knowledge \ spent :
        LET scenario == Scenario(customer, module, policy, ticket, event, knowledge)
        IN /\ rows' = [i \in Live \cup DOMAIN scenario |->
                          IF i \in DOMAIN scenario THEN scenario[i] ELSE rows[i]]
           /\ spent' = spent \cup DOMAIN scenario
  BY DEF SeedCommits
<1> DEFINE new == {customer, module, policy, ticket, event, knowledge}
           scenario == Scenario(customer, module, policy, ticket, event, knowledge)
<1>2. DOMAIN scenario = new /\ new \subseteq Ids /\ new \cap spent = {}
  BY TableIds DEF Scenario
<1>3. \A i \in new :
        scenario[i] = [name     |-> SeedName,
                       customer |-> IF i = ticket THEN customer ELSE Nil,
                       module   |-> IF i \in {ticket, knowledge} THEN module ELSE Nil,
                       ticket   |-> IF i = event THEN ticket ELSE Nil]
  BY DEF Scenario
<1> HIDE DEF scenario
<1>4. /\ \A table \in Named : ~NameTaken(table, SeedName)
      /\ RequestType' /\ RequestsFit'
  BY DoneKeeps DEF SeedCommits
<1>5. /\ Live' = Live \cup new /\ spent' = spent \cup new /\ new \cap Live = {}
      /\ \A i \in Live : rows'[i] = rows[i]
      /\ \A i \in new : rows'[i] = scenario[i]
  <2>1. /\ rows' = [i \in Live \cup new |-> IF i \in new THEN scenario[i] ELSE rows[i]]
        /\ spent' = spent \cup new
    BY <1>1, <1>2 DEF scenario
  <2>2. new \cap Live = {}
    BY <1>2 DEF IInv, TypeOK
  <2> HIDE DEF new
  <2> QED BY <2>1, <2>2 DEF Live
<1>6. \A i \in new : scenario[i] \in Row /\ scenario[i].name = SeedName
  BY <1>1, <1>3, TablesAssumption DEF Row
<1>7. /\ new \cap Customers = {customer} /\ new \cap Modules = {module}
      /\ new \cap Policies = {policy} /\ new \cap Tickets = {ticket}
  BY <1>1, TablesDisjoint
<1>8. TypeOK'
  <2> HIDE DEF new
  <2>1. Live' \subseteq spent' /\ spent' \subseteq Ids
    BY <1>2, <1>5 DEF IInv, TypeOK
  <2>2. \A i \in Live' : rows'[i] \in Row
    BY <1>5, <1>6 DEF IInv, TypeOK
  <2> QED BY <2>1, <2>2, <1>4 DEF TypeOK, RequestType
<1>9. ReferencesResolve'
  <2>1. \A i \in new : References(scenario[i]) \subseteq new
    BY <1>3 DEF References
  <2>2. \A i \in new \cap Tickets : scenario[i].customer # Nil /\ scenario[i].module # Nil
    BY <1>1, <1>3, <1>7, TableIds
  <2> HIDE DEF new
  <2>3. \A i \in Live : References(rows'[i]) = References(rows[i])
    BY <1>5
  <2>4. \A i \in new : References(rows'[i]) = References(scenario[i])
    BY <1>5
  <2>5. \A i \in Live' : References(rows'[i])  \subseteq Live'
    BY <1>5, <2>1, <2>3, <2>4 DEF IInv, ReferencesResolve
  <2>6. \A i \in Live' \cap Tickets : rows'[i].customer # Nil /\ rows'[i].module # Nil
    BY <1>5, <2>2 DEF IInv, ReferencesResolve
  <2> QED BY <2>5, <2>6 DEF ReferencesResolve, References
<1>10. NamesUnique'
  <2> SUFFICES ASSUME NEW t \in Named, NEW j \in Live' \cap t, NEW k \in Live' \cap t,
                      rows'[j].name = rows'[k].name
               PROVE  j = k
    BY DEF NamesUnique, Named
  <2>1. \A l \in Live \cap t : rows[l].name # SeedName
    BY <1>4 DEF NameTaken
  <2>2. \A l, m \in new \cap t : l = m
    BY <1>7 DEF Named
  <2> HIDE DEF new
  <2>3. \A l \in new : rows'[l].name = SeedName
    BY <1>5, <1>6
  <2>4. CASE j \in Live /\ k \in Live
    BY <2>4, <1>5 DEF IInv, NamesUnique
  <2>5. CASE j \in new /\ k \in new
    BY <2>5, <2>2
  <2>6. CASE (j \in new /\ k \in Live) \/ (j \in Live /\ k \in new)
    BY <2>6, <2>1, <2>3, <1>5
  <2> QED BY <2>4, <2>5, <2>6, <1>5
<1>11. \A l \in Live \cap Tickets : rows[l].name # SeedName
  BY <1>4 DEF NameTaken, Named, IInv, SeededTicketsOwned
<1>12. SeededTicketsOwned'
  <2>1. rows'[ticket].customer = customer /\ rows'[customer].name = SeedName
    BY <1>3, <1>5, <1>6
  <2>2. customer \in Live' \cap Customers
    BY <1>5, <1>7
  <2>3. \A i \in Live' \cap Tickets : i \in Live \/ i = ticket
    BY <1>5, <1>7
  <2> HIDE DEF new
  <2> QED BY <2>1, <2>2, <2>3, <1>5, <1>11 DEF SeededTicketsOwned
<1>13. SeededTicketsOnce'
  <2>1. \A i \in Live' \cap Tickets : i \in Live \/ i = ticket
    BY <1>5, <1>7
  <2> HIDE DEF new
  <2> QED BY <2>1, <1>5, <1>11 DEF SeededTicketsOnce
<1> QED BY <1>4, <1>8, <1>9, <1>10, <1>12, <1>13 DEF IInv

\* Every step preserves the invariant.
LEMMA NextKeeps == ASSUME IInv, [Next]_domainVars PROVE IInv'
<1>1. CASE UNCHANGED domainVars
  BY <1>1 DEF domainVars, IInv, TypeOK, RequestsFit, ReferencesResolve, NamesUnique,
              SeededTicketsOwned, SeededTicketsOnce, Live
<1>2. ASSUME NEW c \in Clients, Reads(c) \/ Commits(c) PROVE IInv'
  BY <1>2, ReadsKeep, InsertKeeps, RenameKeeps, RelinkKeeps, DeleteKeeps, SeedKeeps,
     RolledBackKeeps DEF Commits
<1> QED BY <1>1, <1>2 DEF Next

-----------------------------------------------------------------------------

\* The invariant holds in every behaviour.
THEOREM DomainInvariance == Spec => []IInv
<1>1. Init => IInv
  BY InitInvariant
<1>2. IInv /\ [Next]_domainVars => IInv'
  BY NextKeeps
<1> QED BY <1>1, <1>2, PTL DEF Spec

\* Rows and requests are well typed (models.py:30-95).
THEOREM DomainTypeCorrect == Spec => []TypeOK
<1>1. IInv => TypeOK
  BY DEF IInv
<1> QED BY <1>1, DomainInvariance, PTL

\* However requests interleave, no row refers to a row that is gone
\* (routes.py:85-92, 123-134, 184-192, 225-244).
THEOREM DomainReferencesResolve == Spec => []ReferencesResolve
<1>1. IInv => ReferencesResolve
  BY DEF IInv
<1> QED BY <1>1, DomainInvariance, PTL

\* However requests interleave, unique names stay unique (models.py:34, 43, 52).
THEOREM DomainNamesUnique == Spec => []NamesUnique
<1>1. IInv => NamesUnique
  BY DEF IInv
<1> QED BY <1>1, DomainInvariance, PTL

\* However requests interleave, the tickets of the scenario exist at most once
\* (seed.py:37-89).
THEOREM DomainSeededTicketsOnce == Spec => []SeededTicketsOnce
<1>1. IInv => SeededTicketsOnce
  BY DEF IInv
<1> QED BY <1>1, DomainInvariance, PTL

\* No request brings back a row that another one deleted
\* (routes.py:76-82, 225-234, 316-325).
THEOREM DomainDeletedForGood == Spec => DeletedForGood
<1>1. ASSUME IInv, [Next]_domainVars
      PROVE  [\A i \in spent : i \notin Live => i \notin Live']_domainVars
  <2> SUFFICES ASSUME NEW i \in spent, i \notin Live, ~UNCHANGED domainVars
               PROVE  i \notin Live'
    OBVIOUS
  <2>1. PICK c \in Clients : Reads(c) \/ Commits(c)
    BY <1>1 DEF Next
  <2>2. CASE UNCHANGED rows
    BY <2>2 DEF Live
  <2>3. CASE InsertCommits(c)
    BY <2>3 DEF InsertCommits, Live
  <2>4. CASE RenameCommits(c) \/ RelinkCommits(c)
    BY <2>4 DEF RenameCommits, RelinkCommits, Live
  <2>5. CASE DeleteCommits(c)
    BY <2>5 DEF DeleteCommits, Live
  <2>6. CASE SeedCommits(c)
    <3>1. PICK customer \in Customers \ spent, module \in Modules \ spent,
               policy \in Policies \ spent, ticket \in Tickets \ spent,
               event \in Events \ spent, knowledge \in Knowledge \ spent :
             Live' = Live \cup {customer, module, policy, ticket, event, knowledge}
      BY <2>6 DEF SeedCommits, Scenario, Live
    <3> QED BY <3>1
  <2> QED
    BY <2>1, <2>2, <2>3, <2>4, <2>5, <2>6
    DEF Reads, Commits, RolledBack, Begin, CreateCustomer, CreateModule, CreatePolicy,
        CreateTicket, CreateTicketEvent, CreateKnowledge, UpdateModule, UpdateTicket,
        UpdateKnowledge, Relink, DeleteCustomer, DeleteModule, DeletePolicy, DeleteTicket,
        DeleteTicketEvent, DeleteKnowledge, DeleteUnlessIn, Seed
<1> QED BY <1>1, DomainInvariance, PTL DEF Spec, DeletedForGood
=============================================================================
