\* The real revisions, two commands; then ids for two loads of the scenario, which two
\* requests load, edit and take apart.
CONSTANTS
    Customers = {c1,c2}
    Modules = {m1,m2}
    Policies = {p1,p2}
    Tickets = {t1,t2}
    Events = {e1,e2}
    Knowledge = {k1,k2}
    Names = {seed, other}
    SeedName = seed
    Clients = {a,b}
    Upgrades <- RevisionUpgrades
    Downgrades <- RevisionDowngrades
    ForeignKeys <- RevisionKeys
    Commands = {x,y}
SPECIFICATION DeploymentSpec
CHECK_DEADLOCK FALSE
SYMMETRY DeploymentSymmetry
INVARIANTS
    DeploymentTypeOK
    HeadServesModels
    SeededTicketsOnce
PROPERTIES
    InterruptedUpgradeStays
