\* Two candidates at once, a late request, one node that stops and comes
\* back, one node that is added.
SPECIFICATION Spec
CONSTANTS
    Node = {n1, n2, n3}
    Initial = {{n1}, {n2}, {n1, n2}, {n1, n2, n3}}
    None = None
    Contenders = {n1, n2}
    Killable = {n3}
    MaxTerm = 2
    MaxLogLength = 0
    MaxCommands = 1
    MaxLate = 1
    MaxInFlight = 3
    MaxAdds = 1
SYMMETRY NodeSymmetry
VIEW LiveState
\* At the bounds, or with every node stopped, nothing more can happen.
CHECK_DEADLOCK FALSE
INVARIANTS
    ElectionSafety
    OneVotePerTerm
