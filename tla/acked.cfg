\* Expected to be violated: a deposed leader acknowledges another's entry.
SPECIFICATION Spec
CONSTANTS
    Node = {n1, n2, n3}
    Initial = {{n1, n2, n3}}
    None = None
    Contenders = {n1, n2}
    Killable = {}
    MaxTerm = 2
    MaxLogLength = 1
    MaxCommands = 1
    MaxLate = 0
    MaxInFlight = 2
    MaxAdds = 0
SYMMETRY NodeSymmetry
VIEW LiveState
\* At the bounds, or with every node stopped, nothing more can happen.
CHECK_DEADLOCK FALSE
INVARIANTS
    AckedIsCommitted
