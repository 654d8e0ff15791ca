--------------------------- MODULE DomainRecords ---------------------------
(***************************************************************************)
(* The domain records behind the CRUD endpoints of app/api/routes.py and   *)
(* the synthetic scenario of app/services/seed.py, on the tables of        *)
(* app/models.py.  A request runs in a transaction of its own: it reads    *)
(* (does the row exist, do the rows it names exist, does anything refer to *)
(* it), and commits later, when other requests may have committed.  The    *)
(* database (InnoDB, the tables' foreign keys with ON DELETE RESTRICT,     *)
(* unique and NOT NULL columns) checks each statement against what is      *)
(* committed when the statement runs.  flush and commit are one step: the  *)
(* row locks they take are held between them.                              *)
(*                                                                         *)
(* A row keeps the columns that relate rows: its unique name and the rows  *)
(* it refers to.  A PATCH of any other column changes nothing here.        *)
(***************************************************************************)
EXTENDS Naturals

CONSTANTS
    Customers, Modules, Policies, Tickets, Events, Knowledge,  \* ids of each table
    Names,      \* anonymous ids, module names, categories with priorities
    SeedName,   \* the name the rows of the synthetic scenario bear
    Clients     \* concurrent requests

Tables == {Customers, Modules, Policies, Tickets, Events, Knowledge}

Ids == UNION Tables

Nil == "none"

ASSUME TablesAssumption ==
    /\ LET tables == <<Customers, Modules, Policies, Tickets, Events, Knowledge>>
       IN \A m, n \in 1 .. 6 : m # n => tables[m] \cap tables[n] = {}
    /\ Nil \notin Ids
    /\ SeedName \in Names /\ Nil \notin Names

VARIABLES
    rows,      \* the committed rows: id -> row
    spent,     \* ids AUTO_INCREMENT gave out; it never gives one out twice
    request    \* client -> what its request is about to commit

domainVars == <<rows, spent, request>>

\* A ticket, an event or a knowledge row has no unique name.  Its name is SeedName
\* when the scenario inserted it, whatever a PATCH writes into its title later.
Row == [name     : Names \cup {Nil},
        customer : Customers \cup {Nil},
        module   : Modules \cup {Nil},
        ticket   : Tickets \cup {Nil}]

Blank == [name |-> Nil, customer |-> Nil, module |-> Nil, ticket |-> Nil]

Live == DOMAIN rows

References(row) == {row.customer, row.module, row.ticket} \ {Nil}

Children(i) == {j \in Live : i \in References(rows[j])}

\* The tables whose name column is unique.
Named == {Customers, Modules, Policies}

Idle == [op |-> "none", table |-> {}, id |-> Nil, row |-> Blank]

Init ==
    /\ rows = [i \in {} |-> Blank]
    /\ spent = {}
    /\ request = [c \in Clients |-> Idle]

-----------------------------------------------------------------------------
(* What the database refuses.                                              *)

\* Mutant: anonymous ids are not unique.
NameTakenExceptCustomer(table, name) ==
    table \in {Modules, Policies} /\ \E j \in Live \cap table : rows[j].name = name

NameTaken(table, name) ==
    table \in Named /\ \E j \in Live \cap table : rows[j].name = name

\* NOT NULL: the module of a ticket.  Its customer is never changed.
MissingColumn(table, row) == table = Tickets /\ row.module = Nil

InsertViolates(table, row) ==
    \/ NameTaken(table, row.name)
    \/ MissingColumn(table, row)
    \/ ~ References(row) \subseteq Live

\* Mutant: module names are not unique to the database.
RenameViolatesNever(i, name) == FALSE

RenameViolates(i, name) == \E j \in Live \cap Modules : j # i /\ rows[j].name = name

RelinkViolates(i, module) ==
    \/ i \in Tickets /\ module = Nil
    \/ module # Nil /\ module \notin Live

\* Mutant: the deletion relies on the check the handler made.
DeleteViolatesNever(i) == FALSE

DeleteViolates(i) == Children(i) # {}

-----------------------------------------------------------------------------
(* The reading half of a request.  A request these guards refuse answers    *)
(* 404 or 409 and leaves no trace.                                          *)

Begin(c, op, table, id, row) ==
    /\ request[c] = Idle
    /\ request' = [request EXCEPT ![c] = [op |-> op, table |-> table, id |-> id, row |-> row]]
    /\ UNCHANGED <<rows, spent>>

CreateCustomer(c) ==
    \E name \in Names : Begin(c, "insert", Customers, Nil, [Blank EXCEPT !.name = name])

CreateModule(c) ==
    \E name \in Names : Begin(c, "insert", Modules, Nil, [Blank EXCEPT !.name = name])

CreatePolicy(c) ==
    \E name \in Names : Begin(c, "insert", Policies, Nil, [Blank EXCEPT !.name = name])

CreateTicket(c) ==
    \E customer \in Customers \cap Live, module \in Modules \cap Live :
        Begin(c, "insert", Tickets, Nil, [Blank EXCEPT !.customer = customer, !.module = module])

CreateTicketEvent(c) ==
    \E ticket \in Tickets \cap Live :
        Begin(c, "insert", Events, Nil, [Blank EXCEPT !.ticket = ticket])

CreateKnowledge(c) ==
    \E module \in (Modules \cap Live) \cup {Nil} :
        Begin(c, "insert", Knowledge, Nil, [Blank EXCEPT !.module = module])

\* The session writes only a column whose value differs from the one it loaded.
UpdateModule(c) ==
    \E i \in Modules \cap Live : \E name \in Names \ {rows[i].name} :
        Begin(c, "rename", Modules, i, [Blank EXCEPT !.name = name])

Relink(c, table) ==
    \E i \in table \cap Live : \E module \in ((Modules \cap Live) \cup {Nil}) \ {rows[i].module} :
        Begin(c, "relink", table, i, [Blank EXCEPT !.module = module])

UpdateTicket(c) == Relink(c, Tickets)

UpdateKnowledge(c) == Relink(c, Knowledge)

DeleteUnlessIn(c, table, refusing) ==
    \E i \in table \cap Live :
        /\ Children(i) \cap refusing = {}
        /\ Begin(c, "delete", table, i, Blank)

DeleteCustomer(c)    == DeleteUnlessIn(c, Customers, Tickets)
DeleteModule(c)      == DeleteUnlessIn(c, Modules, Tickets \cup Knowledge)
DeletePolicy(c)      == DeleteUnlessIn(c, Policies, {})
DeleteTicket(c)      == DeleteUnlessIn(c, Tickets, Events)
DeleteTicketEvent(c) == DeleteUnlessIn(c, Events, {})
DeleteKnowledge(c)   == DeleteUnlessIn(c, Knowledge, {})

\* seed_synthetic_data does nothing when a customer exists.
Seed(c) ==
    /\ Customers \cap Live = {}
    /\ Begin(c, "seed", {}, Nil, Blank)

-----------------------------------------------------------------------------
(* The committing half.                                                     *)

Done(c) == request' = [request EXCEPT ![c] = Idle]

InsertCommits(c) ==
    /\ request[c].op = "insert"
    /\ ~InsertViolates(request[c].table, request[c].row)
    /\ \E i \in request[c].table \ spent :
          /\ rows' = [j \in Live \cup {i} |-> IF j = i THEN request[c].row ELSE rows[j]]
          /\ spent' = spent \cup {i}
    /\ Done(c)

RenameCommits(c) ==
    LET i == request[c].id IN
    /\ request[c].op = "rename"
    /\ i \in Live
    /\ ~RenameViolates(i, request[c].row.name)
    /\ rows' = [rows EXCEPT ![i].name = request[c].row.name]
    /\ UNCHANGED spent
    /\ Done(c)

\* Mutant: writes the loaded row back whether it still exists or not.
RelinkCommitsMerging(c) ==
    LET i == request[c].id IN
    /\ request[c].op = "relink"
    /\ ~RelinkViolates(i, request[c].row.module)
    /\ rows' = [j \in Live \cup {i} |->
                   IF j = i THEN [Blank EXCEPT !.module = request[c].row.module] ELSE rows[j]]
    /\ UNCHANGED spent
    /\ Done(c)

RelinkCommits(c) ==
    LET i == request[c].id IN
    /\ request[c].op = "relink"
    /\ i \in Live
    /\ ~RelinkViolates(i, request[c].row.module)
    /\ rows' = [rows EXCEPT ![i].module = request[c].row.module]
    /\ UNCHANGED spent
    /\ Done(c)

\* A second DELETE of the same row finds none and is no error.
DeleteCommits(c) ==
    LET i == request[c].id IN
    /\ request[c].op = "delete"
    /\ ~DeleteViolates(i)
    /\ rows' = [j \in Live \ {i} |-> rows[j]]
    /\ UNCHANGED spent
    /\ Done(c)

(***************************************************************************)
(* The whole scenario in one transaction; one row stands for the rows it   *)
(* has in each table.                                                      *)
(***************************************************************************)
Scenario(customer, module, policy, ticket, event, knowledge) ==
    [i \in {customer, module, policy, ticket, event, knowledge} |->
        [name     |-> SeedName,
         customer |-> IF i = ticket THEN customer ELSE Nil,
         module   |-> IF i \in {ticket, knowledge} THEN module ELSE Nil,
         ticket   |-> IF i = event THEN ticket ELSE Nil]]

SeedCommits(c) ==
    /\ request[c].op = "seed"
    /\ \A table \in Named : ~NameTaken(table, SeedName)
    /\ \E customer \in Customers \ spent, module \in Modules \ spent, policy \in Policies \ spent,
          ticket \in Tickets \ spent, event \in Events \ spent, knowledge \in Knowledge \ spent :
          LET scenario == Scenario(customer, module, policy, ticket, event, knowledge)
          IN /\ rows' = [i \in Live \cup DOMAIN scenario |->
                            IF i \in DOMAIN scenario THEN scenario[i] ELSE rows[i]]
             /\ spent' = spent \cup DOMAIN scenario
    /\ Done(c)

\* The statement or the commit raises and the transaction is rolled back: a
\* violated constraint (409, or 500 for the scenario), an UPDATE whose row is gone,
\* a lost connection.
RolledBack(c) ==
    /\ request[c] # Idle
    /\ UNCHANGED <<rows, spent>>
    /\ Done(c)

Reads(c) ==
    \/ CreateCustomer(c) \/ CreateModule(c) \/ CreatePolicy(c)
    \/ CreateTicket(c) \/ CreateTicketEvent(c) \/ CreateKnowledge(c)
    \/ UpdateModule(c) \/ UpdateTicket(c) \/ UpdateKnowledge(c)
    \/ DeleteCustomer(c) \/ DeleteModule(c) \/ DeletePolicy(c)
    \/ DeleteTicket(c) \/ DeleteTicketEvent(c) \/ DeleteKnowledge(c)
    \/ Seed(c)

Commits(c) ==
    \/ InsertCommits(c) \/ RenameCommits(c) \/ RelinkCommits(c) \/ DeleteCommits(c)
    \/ SeedCommits(c) \/ RolledBack(c)

Next == \E c \in Clients : Reads(c) \/ Commits(c)

Spec == Init /\ [][Next]_domainVars

-----------------------------------------------------------------------------

\* Type invariant of the rows and the requests in flight (models.py:28-97).
TypeOK ==
    /\ Live \subseteq spent /\ spent \subseteq Ids
    /\ \A i \in Live : rows[i] \in Row
    /\ request \in [Clients -> [op : {"none", "insert", "rename", "relink", "delete", "seed"},
                                table : Tables \cup {{}},
                                id : Ids \cup {Nil},
                                row : Row]]

\* No row refers to a row that is gone, although the checks of the handlers are
\* stale when they commit; every ticket has its customer and its module
\* (routes.py:86-93, 125-134, 185-193, 226-255).
ReferencesResolve ==
    \A i \in Live :
        /\ References(rows[i]) \subseteq Live
        /\ i \in Tickets => rows[i].customer # Nil /\ rows[i].module # Nil

\* Names stay unique when requests race and when modules are renamed
\* (models.py:32, 41, 49; routes.py:44-49).
NamesUnique ==
    \A table \in Named : \A i, j \in Live \cap table : rows[i].name = rows[j].name => i = j

\* The tickets of the scenario never exist twice, whatever seeds, edits and
\* deletions race: tickets have no unique column, but they hold on to a customer
\* whose name is unique and fixed (seed.py:37-57, README.md:78).
SeededTicketsOnce ==
    \A i, j \in Live \cap Tickets :
        rows[i].name = SeedName /\ rows[j].name = SeedName => i = j

\* A deleted row stays deleted: an update that was loaded before the deletion
\* does not bring it back (routes.py:115-122, 226-235, 317-326).
DeletedForGood == [][\A i \in spent : i \notin Live => i \notin Live']_domainVars

-----------------------------------------------------------------------------
(* What the repository says and the code does not do.                      *)

\* README.md:78 and seed.py:35: repeated seeding is idempotent, the scenario is
\* inserted once.
SeededKnowledgeOnce ==
    \A i, j \in Live \cap Knowledge :
        rows[i].name = SeedName /\ rows[j].name = SeedName => i = j
=============================================================================
