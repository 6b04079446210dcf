SPECIFICATION Spec
CONSTANTS
    a1 = a1
    a2 = a2
    a3 = a3
    Addrs = {a1, a2, a3}
    NoAddr = NoAddr
    EntryNum = 2
    WhiteList = TRUE
    MaxChanges = 3
    MaxFaults = 2
INVARIANTS
    TypeOK
    AnswerFindsEntry
    OneEntryPerAddress
    IdleInStep
PROPERTY BusyEnds
