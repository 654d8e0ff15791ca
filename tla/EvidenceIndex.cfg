\* A ticket and a knowledge row of the same number, two embedders, two scripts.
CONSTANTS
    Ids = {1}
    Kinds = {"faq", "sop"}
    Dimensions = {8, 16}
    Indexers = {i1, i2}
    MaxVersion = 2
SPECIFICATION Spec
INVARIANTS
    TypeOK
    PointsFitCollection
    UndisturbedRunRefreshes
CHECK_DEADLOCK FALSE
