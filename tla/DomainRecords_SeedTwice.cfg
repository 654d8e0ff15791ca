\* One request at a time loads the scenario, takes it apart and loads it again.
CONSTANTS
    Customers = {c1,c2}
    Modules = {m1,m2}
    Policies = {p1,p2}
    Tickets = {t1,t2}
    Events = {e1,e2}
    Knowledge = {k1,k2}
    Names = {seed, other}
    SeedName = seed
    Clients = {a}
SPECIFICATION SeedSpec
SYMMETRY DomainSymmetry
INVARIANTS
    SeededKnowledgeOnce
