\* Expected to be violated: two nodes added one after the other elect a
\* second leader of a term together with a node the first did not need.
SPECIFICATION Spec
CONSTANTS
    Node = {n1, n2, n3, n4, n5}
    Initial = {{n1, n2, n3}}
    None = None
    Contenders = {n1, n3}
    Killable = {}
    MaxTerm = 1
    MaxLogLength = 0
    MaxCommands = 1
    MaxLate = 0
    MaxInFlight = 4
    MaxAdds = 2
SYMMETRY NodeSymmetry
VIEW LiveState
\* At the bounds nothing more can happen.
CHECK_DEADLOCK FALSE
INVARIANTS
    ElectionSafety
