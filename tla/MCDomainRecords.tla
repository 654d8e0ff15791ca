-------------------------- MODULE MCDomainRecords --------------------------
(* Model values and symmetry for TLC. *)
EXTENDS DomainRecords, TLC

\* Ids of a table are interchangeable, and so are the requests.
DomainSymmetry ==
    UNION {Permutations(table) : table \in Tables} \cup Permutations(Clients)

\* The scenario is loaded, taken apart and loaded again: Next without the requests
\* that create single rows.
SeedNext ==
    \E c \in Clients :
        \/ Seed(c) \/ UpdateModule(c) \/ UpdateTicket(c) \/ UpdateKnowledge(c)
        \/ DeleteCustomer(c) \/ DeleteModule(c) \/ DeletePolicy(c)
        \/ DeleteTicket(c) \/ DeleteTicketEvent(c) \/ DeleteKnowledge(c)
        \/ SeedCommits(c) \/ RenameCommits(c) \/ RelinkCommits(c) \/ DeleteCommits(c)
        \/ RolledBack(c)

SeedSpec == Init /\ [][SeedNext]_domainVars
=============================================================================
