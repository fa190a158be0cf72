\* Expected to be violated: a leader commits an entry that only it stores.
SPECIFICATION Spec
CONSTANTS
    Node = {n1, n2, n3}
    Initial = {{n1, n2, n3}}
    None = None
    Contenders = {n1, n2}
    Killable = {}
    MaxTerm = 2
    MaxLogLength = 1
    MaxCommands = 1
    MaxLate = 0
    MaxInFlight = 3
    MaxAdds = 0
SYMMETRY NodeSymmetry
VIEW LiveLogState
\* At the bounds, or with every node stopped, nothing more can happen.
CHECK_DEADLOCK FALSE
INVARIANTS
    CommittedByQuorum
