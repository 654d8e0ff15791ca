--------------------------- MODULE SchemaRevisions ---------------------------
(***************************************************************************)
(* The two revisions of alembic/versions and the tables of app/models.py:  *)
(* tables, indexes and foreign keys, in the order of their statements.     *)
(***************************************************************************)
EXTENDS Naturals, Sequences, SequencesExt

Indexed(table, columns) == [table |-> table, columns |-> columns]

\* 20260809_0001
DomainRevision ==
    <<Indexed("customers", <<"anonymous_id">>),
      Indexed("product_modules", <<>>),
      Indexed("sla_policies", <<"category", "priority">>),
      Indexed("tickets", <<"category", "priority", "status", "customer_id", "module_id", "created_at">>),
      Indexed("ticket_events", <<"ticket_id", "event_type", "occurred_at">>),
      Indexed("service_knowledge", <<"source_type", "category", "module_id">>)>>

\* 20260809_0002
AnalysisRevision ==
    <<Indexed("analysis_runs", <<>>),
      Indexed("analysis_evidence", <<"run_id">>),
      Indexed("sql_audits", <<"run_id">>),
      Indexed("agent_traces", <<"run_id">>),
      Indexed("analysis_feedback", <<"run_id">>)>>

Key(table, column, target) == [table |-> table, column |-> column, target |-> target]

RevisionKeys ==
    {Key("tickets", "customer_id", "customers"), Key("tickets", "module_id", "product_modules"),
     Key("ticket_events", "ticket_id", "tickets"), Key("service_knowledge", "module_id", "product_modules")}
    \cup {Key(table, "run_id", "analysis_runs") :
             table \in {"analysis_evidence", "sql_audits", "agent_traces", "analysis_feedback"}}

IndexesOf(entry) == [i \in DOMAIN entry.columns |-> <<entry.table, entry.columns[i]>>]

\* upgrade: a table and then its indexes, table after table.
UpgradeOf(revision) ==
    FlattenSeq([i \in DOMAIN revision |-> <<<<revision[i].table>>>> \o IndexesOf(revision[i])])

\* downgrade: the tables backwards, the indexes of each first.
DowngradeOf(revision) ==
    LET DropsOf(entry) ==
            (IF entry.table = "sla_policies" THEN Reverse(IndexesOf(entry)) ELSE IndexesOf(entry))
                \o <<<<entry.table>>>>
    IN  FlattenSeq([i \in DOMAIN revision |-> DropsOf(Reverse(revision)[i])])

RevisionUpgrades == <<UpgradeOf(DomainRevision), UpgradeOf(AnalysisRevision)>>

RevisionDowngrades == <<DowngradeOf(DomainRevision), DowngradeOf(AnalysisRevision)>>

-----------------------------------------------------------------------------

\* Columns that app/models.py declares with index=True.
ModelIndexes ==
    [customers         |-> {"anonymous_id"},
     product_modules   |-> {},
     sla_policies      |-> {"category", "priority"},
     tickets           |-> {"category", "priority", "status", "customer_id", "module_id", "created_at"},
     ticket_events     |-> {"ticket_id", "event_type", "occurred_at"},
     service_knowledge |-> {"source_type", "category", "module_id"},
     analysis_runs     |-> {},
     analysis_evidence |-> {"run_id"},
     sql_audits        |-> {"run_id"},
     agent_traces      |-> {"run_id"},
     analysis_feedback |-> {"run_id"}]

\* Base.metadata
Metadata ==
    {<<table>> : table \in DOMAIN ModelIndexes}
    \cup UNION {{<<table, column>> : column \in ModelIndexes[table]} : table \in DOMAIN ModelIndexes}
=============================================================================
