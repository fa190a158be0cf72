\* Two leaders, two entries: logs that diverge and are repaired.
SPECIFICATION OverlapSpec
CONSTANTS
    Node = {n1, n2, n3}
    Initial = {{n1, n2, n3}}
    None = None
    Contenders = {n1, n2}
    Killable = {}
    MaxTerm = 2
    MaxLogLength = 2
    MaxCommands = 1
    MaxLate = 0
    MaxInFlight = 3
    MaxAdds = 0
SYMMETRY NodeSymmetry
VIEW LiveLogState
\* At the bounds, or with every node stopped, nothing more can happen.
CHECK_DEADLOCK FALSE
INVARIANTS
    TypeOK
    LogMatching
    LeaderCompleteness
    IndexIsPosition
    NoSkippedApply
PROPERTIES
    LeaderAppendOnly
    LeaderCommitsOwnTerm
