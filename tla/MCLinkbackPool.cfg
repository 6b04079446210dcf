SPECIFICATION Spec
CONSTANTS
    a1 = a1
    a2 = a2
    a3 = a3
    a4 = a4
    p1 = p1
    Addrs <- MCAddrs
    Profs <- MCProfs
    NodeNum = 3
SYMMETRY Symmetry
INVARIANTS
    TypeOK
    ListMatchesPool
PROPERTIES
    ImplementsQueue
