-------------------------- MODULE SchemaMigrations --------------------------
(***************************************************************************)
(* The schema of the database as Alembic makes it (scripts/migrate.py,     *)
(* alembic/env.py, alembic/versions): a command carries out its revisions  *)
(* statement by statement and moves the version stamp at the end of each.  *)
(* MySQL commits every DDL statement as it runs, so nothing undoes the     *)
(* statements of a command that stops half-way, and nothing keeps two      *)
(* commands apart.                                                         *)
(*                                                                         *)
(* An object is a table <<t>> or an index <<t, column>>.                   *)
(***************************************************************************)
EXTENDS Naturals, Sequences

CONSTANTS
    Upgrades,      \* revision -> the objects its upgrade creates, in order
    Downgrades,    \* revision -> the objects its downgrade drops, in order
    ForeignKeys,   \* [table, column, target], each with ON DELETE RESTRICT
    Commands       \* invocations of Alembic

IsTable(object) == Len(object) = 1

\* InnoDB needs an index on the columns of a foreign key, and this is the only one.
Pinned(object) == \E key \in ForeignKeys : object = <<key.table, key.column>>

Revisions == DOMAIN Upgrades

ObjectsOf(n) == {Upgrades[n][i] : i \in DOMAIN Upgrades[n]}

Objects == UNION {ObjectsOf(n) : n \in Revisions}

ASSUME KeysAssumption ==
    \A key \in ForeignKeys : <<key.table>> \in Objects /\ <<key.target>> \in Objects

\* Each upgrade begins with a table and creates what no other statement creates;
\* each downgrade reaches a pinned index before its first table.
ASSUME UpgradesAssumption ==
    /\ Upgrades \in Seq(Seq(Objects))
    /\ \A n \in Revisions : Upgrades[n] # <<>> /\ IsTable(Upgrades[n][1])
    /\ \A m, n \in Revisions : \A i \in DOMAIN Upgrades[m], j \in DOMAIN Upgrades[n] :
          Upgrades[m][i] = Upgrades[n][j] => m = n /\ i = j

ASSUME DowngradesAssumption ==
    /\ Downgrades \in Seq(Seq(Objects)) /\ DOMAIN Downgrades = Revisions
    /\ \A n \in Revisions : \E p \in DOMAIN Downgrades[n] :
          /\ Pinned(Downgrades[n][p])
          /\ \A i \in 1 .. p : ~IsTable(Downgrades[n][i])

VARIABLES
    missing,   \* the objects that do not exist
    stamp,     \* alembic_version: the last revision that was completed, 0 at first
    command    \* command -> what it is about to do

schemaVars == <<missing, stamp, command>>

HeadRevision == Len(Upgrades)

Exists(object) == object \notin missing

NewCommand == [pc |-> "new", way |-> "up", revision |-> 0, at |-> 0]

EndedCommand == [NewCommand EXCEPT !.pc = "ended"]

SchemaInit ==
    /\ missing = Objects
    /\ stamp = 0
    /\ command = [c \in Commands |-> NewCommand]

-----------------------------------------------------------------------------
(* What MySQL refuses.                                                     *)

Needed(object) ==
    IF IsTable(object)
    THEN {<<key.target>> : key \in {k \in ForeignKeys : k.table = object[1]}}
    ELSE {<<object[1]>>}

\* Mutant: CREATE ... IF NOT EXISTS.
CreateRefusedUnlessThere(object) == \E other \in Needed(object) : ~Exists(other)

\* The statements are issued without IF NOT EXISTS.
CreateRefused(object) == Exists(object) \/ \E other \in Needed(object) : ~Exists(other)

\* Mutant: the index of a foreign key can be dropped.
DropRefusedForTables(object) ==
    \/ ~Exists(object)
    \/ \E key \in ForeignKeys : object = <<key.target>> /\ Exists(<<key.table>>)

DropRefused(object) ==
    \/ ~Exists(object)
    \/ Pinned(object)
    \/ \E key \in ForeignKeys : object = <<key.target>> /\ Exists(<<key.table>>)

-----------------------------------------------------------------------------

Running(c, way) == command[c].pc = "running" /\ command[c].way = way

Script(c) ==
    IF command[c].way = "up" THEN Upgrades[command[c].revision] ELSE Downgrades[command[c].revision]

Remaining(c) == command[c].at <= Len(Script(c))

Statement(c) == Script(c)[command[c].at]

Ended(c) == command' = [command EXCEPT ![c] = EndedCommand]

\* migrate.py upgrade: from the stamp it reads to the head.
StartUpgrade(c) ==
    /\ command[c].pc = "new"
    /\ IF stamp < HeadRevision
       THEN command' = [command EXCEPT ![c] =
                [pc |-> "running", way |-> "up", revision |-> stamp + 1, at |-> 1]]
       ELSE Ended(c)
    /\ UNCHANGED <<missing, stamp>>

\* alembic downgrade -1; migrate.py has no such action.
StartDowngrade(c) ==
    /\ command[c].pc = "new" /\ stamp > 0
    /\ command' = [command EXCEPT ![c] =
           [pc |-> "running", way |-> "down", revision |-> stamp, at |-> 1]]
    /\ UNCHANGED <<missing, stamp>>

CreateNext(c) ==
    /\ Running(c, "up") /\ Remaining(c)
    /\ ~CreateRefused(Statement(c))
    /\ missing' = missing \ {Statement(c)}
    /\ command' = [command EXCEPT ![c].at = @ + 1]
    /\ UNCHANGED stamp

DropNext(c) ==
    /\ Running(c, "down") /\ Remaining(c)
    /\ ~DropRefused(Statement(c))
    /\ missing' = missing \cup {Statement(c)}
    /\ command' = [command EXCEPT ![c].at = @ + 1]
    /\ UNCHANGED stamp

StatementRefused(c) ==
    /\ command[c].pc = "running" /\ Remaining(c)
    /\ IF command[c].way = "up" THEN CreateRefused(Statement(c)) ELSE DropRefused(Statement(c))
    /\ Ended(c)
    /\ UNCHANGED <<missing, stamp>>

\* The stamp a completed revision starts from, and the one it leaves.
From(c) == IF command[c].way = "up" THEN command[c].revision - 1 ELSE command[c].revision

To(c) == IF command[c].way = "up" THEN command[c].revision ELSE command[c].revision - 1

\* Mutant: goes on after the head.
MoveStampOnward(c) ==
    /\ command[c].pc = "running" /\ ~Remaining(c)
    /\ stamp' = IF stamp = From(c) THEN To(c) ELSE stamp
    /\ IF stamp = From(c) /\ command[c].way = "up" /\ stamp < HeadRevision
       THEN command' = [command EXCEPT ![c].revision = @ + 1, ![c].at = 1]
       ELSE Ended(c)
    /\ UNCHANGED missing

\* The version row is updated where it holds the expected stamp; otherwise Alembic
\* raises.  An upgrade goes on to the head, a downgrade ends.
MoveStamp(c) ==
    /\ command[c].pc = "running" /\ ~Remaining(c)
    /\ stamp' = IF stamp = From(c) THEN To(c) ELSE stamp
    /\ IF stamp = From(c) /\ command[c].way = "up" /\ To(c) < HeadRevision
       THEN command' = [command EXCEPT ![c].revision = @ + 1, ![c].at = 1]
       ELSE Ended(c)
    /\ UNCHANGED missing

\* The process or its connection dies, between any two statements.
CommandDies(c) ==
    /\ command[c].pc = "running"
    /\ Ended(c)
    /\ UNCHANGED <<missing, stamp>>

SchemaStep(c) ==
    \/ StartUpgrade(c) \/ StartDowngrade(c)
    \/ CreateNext(c) \/ DropNext(c) \/ StatementRefused(c)
    \/ MoveStamp(c) \/ CommandDies(c)

SchemaNext == \E c \in Commands : SchemaStep(c)

SchemaSpec == SchemaInit /\ [][SchemaNext]_schemaVars

-----------------------------------------------------------------------------

\* Type invariant of the schema and the commands (env.py:35-46).
SchemaTypeOK ==
    /\ missing \subseteq Objects
    /\ stamp \in 0 .. HeadRevision
    /\ command \in [Commands -> [pc : {"new", "running", "ended"}, way : {"up", "down"},
                                 revision : 0 .. HeadRevision, at : Nat]]

\* What a downgrade can drop before it is refused: its statements before the first
\* pinned index.
Droppable ==
    UNION {{Downgrades[n][i] : i \in {k \in DOMAIN Downgrades[n] : \A j \in 1 .. k : ~Pinned(Downgrades[n][j])}} :
              n \in Revisions}

\* The stamp never claims a table that is missing, although no statement and its
\* stamp are one transaction, commands race, die half-way and are run again, and
\* downgrades are attempted (versions/20260809_0001:20-109, 0002:20-88, env.py:43-46).
StampedTablesExist ==
    \A object \in missing : IsTable(object) => \A n \in 1 .. stamp : object \notin ObjectsOf(n)

\* A command stopped within the revision after the stamp, and none is in it.
Interrupted ==
    /\ stamp < HeadRevision /\ Exists(Upgrades[stamp + 1][1])
    /\ \A c \in Commands :
          ~(Running(c, "up") /\ command[c].revision = stamp + 1 /\ command[c].at > 1)

\* An upgrade that stopped half-way is never completed by another one: the first
\* statement of its revision is refused ever after, so the stamp stays
\* (versions/20260809_0001:20-29, 0002:20-22, migrate.py:17-18).
InterruptedUpgradeStays == [][Interrupted => stamp' = stamp /\ Interrupted']_schemaVars
=============================================================================
