\* A leader that stops and comes back, from memory or from the WAL; a node
\* that is alone, and then is not.
SPECIFICATION Spec
CONSTANTS
    Node = {n1, n2, n3}
    Initial = {{n1}, {n1, n2, n3}}
    None = None
    Contenders = {n1, n2}
    Killable = {n1}
    MaxTerm = 2
    MaxLogLength = 1
    MaxCommands = 1
    MaxLate = 0
    MaxInFlight = 2
    MaxAdds = 1
SYMMETRY NodeSymmetry
VIEW LiveLogState
\* At the bounds, or with every node stopped, nothing more can happen.
CHECK_DEADLOCK FALSE
INVARIANTS
    LeaderCompleteness
    NoSkippedApply
    AloneKeepsAcked
