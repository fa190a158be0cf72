\* Expected to be violated: a record written behind a torn one is lost.
SPECIFICATION Spec
CONSTANTS
    Self = n1
    Other = {n2, n3}
    None = None
    MaxTerm = 2
    MaxLogLength = 2
    MaxFailed = 0
    MaxTorn = 1
SYMMETRY OtherSymmetry
VIEW LiveState
\* At the bounds nothing more can happen.
CHECK_DEADLOCK FALSE
INVARIANTS
    MemoryIsDurable
