\* Expected to be violated: the NOOP fails and the read goes on without it.
SPECIFICATION FirstReadSpec
CONSTANTS
    Node = {n1, n2, n3}
    Initial = {{n1, n2, n3}}
    None = None
    Contenders = {n1, n2}
    Killable = {}
    MaxTerm = 2
    MaxLogLength = 2
    MaxCommands = 1
    MaxLate = 0
    MaxInFlight = 2
    MaxAdds = 0
    Readers = {n1, n2}
    MaxReads = 1
SYMMETRY ReaderSymmetry
VIEW LiveReadState
\* At the bounds nothing more can happen.
CHECK_DEADLOCK FALSE
INVARIANTS
    ReadsAreFresh
