\* Two leaders and a follower that is behind, in a network that is healed; and
\* a leader that stops and comes back, with one follower.
SPECIFICATION ProgressSpec
CONSTANTS
    Node = {n1, n2, n3, n4}
    Initial = {{n1, n2, n3}, {n3, n4}}
    None = None
    Contenders = {n1, n2, n4}
    Killable = {n4}
    MaxTerm = 2
    MaxLogLength = 1
    MaxCommands = 1
    MaxLate = 0
    MaxInFlight = 2
    MaxAdds = 0
VIEW LiveProgressState
\* At the bounds nothing more can happen.
CHECK_DEADLOCK FALSE
PROPERTIES
    CommandsReturn
    FollowersCatchUp
