\* Crashes between records and in them, and writes that fail.
SPECIFICATION Spec
CONSTANTS
    Self = n1
    Other = {n2, n3}
    None = None
    MaxTerm = 2
    MaxLogLength = 3
    MaxTorn = 2
    MaxFailed = 2
SYMMETRY OtherSymmetry
VIEW LiveState
\* At the bounds nothing more can happen.
CHECK_DEADLOCK FALSE
INVARIANTS
    DurableUnlessPending
PROPERTIES
    LoopIsAppendLoop
    RecoverableIsDurable
