\* Three Record calls that share ids, keys and bodies in any way; no symmetry,
\* for the sake of the liveness property.
CONSTANTS
    Calls = {c1, c2, c3}
    Ids = {i1, i2}
    Keys = {k1, k2}
    Bodies = {b1, b2, bad}
    Invalid = {bad}
    None = None
SPECIFICATION FairSpec
INVARIANTS
    Inv
    AcceptedIsRecorded
    ConflictIsReal
PROPERTIES
    EveryCallIsAnswered
CHECK_DEADLOCK FALSE
