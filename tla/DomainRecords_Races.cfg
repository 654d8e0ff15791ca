\* Two requests race on a ticket, two modules and what refers to them.
CONSTANTS
    Customers = {c1}
    Modules = {m1,m2}
    Policies = {p1}
    Tickets = {t1}
    Events = {e1}
    Knowledge = {k1}
    Names = {seed, other}
    SeedName = seed
    Clients = {a,b}
SPECIFICATION Spec
SYMMETRY DomainSymmetry
INVARIANTS
    ReferencesResolve
    NamesUnique
PROPERTIES
    DeletedForGood
