----------------------------- MODULE Deployment -----------------------------
(***************************************************************************)
(* A database from its first migration to its use: the commands that make  *)
(* its schema (SchemaMigrations, of the revisions in SchemaRevisions),   *)
(* and, once the migrations succeeded (scripts/seed_synthetic.py:1), the   *)
(* scenario and the requests of DomainRecords on its tables.  The commands *)
(* and the requests use different accounts and know nothing of each other. *)
(***************************************************************************)
EXTENDS MCDomainRecords, SchemaMigrations, SchemaRevisions

\* The two revisions together create what the models declare, and nothing else.
ASSUME ModelsAssumption == Objects = Metadata

\* The indexes that a downgrade of the first revision drops before it is refused.
LostToDowngrade == {<<"service_knowledge", "source_type">>, <<"service_knowledge", "category">>}

ASSUME LossAssumption == Droppable \subseteq LostToDowngrade

deploymentVars == <<domainVars, schemaVars>>

DeploymentInit == Init /\ SchemaInit

Migrate == SchemaNext /\ UNCHANGED domainVars

\* Bound of the model: a command may run while a request is in flight, but no
\* half of a request falls between two steps of a command.
Quiet == \A c \in Commands : command[c].pc # "running"

Serve == stamp = HeadRevision /\ Quiet /\ SeedNext /\ UNCHANGED schemaVars

DeploymentNext == Migrate \/ Serve

DeploymentSpec == DeploymentInit /\ [][DeploymentNext]_deploymentVars

DeploymentSymmetry == DomainSymmetry \cup Permutations(Commands)

-----------------------------------------------------------------------------

\* Type invariant of the records and the schema.
DeploymentTypeOK == TypeOK /\ SchemaTypeOK

\* At the head the database has what the models declare, and rows never lose
\* their table, also after commands raced, died and were attempted backwards; only
\* a downgrade in vain of the first revision can cost two indexes that the next
\* upgrade does not bring back (models.py:28-160, versions/20260809_0001:94-109).
HeadServesModels ==
    /\ StampedTablesExist
    /\ stamp = HeadRevision => missing \subseteq LostToDowngrade
    /\ Live # {} => \A table \in DOMAIN ModelIndexes : Exists(<<table>>)
=============================================================================
