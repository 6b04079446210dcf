SPECIFICATION Spec
CONSTANTS
    d1 = d1
    d2 = d2
    d3 = d3
    t1 = t1
    t2 = t2
    c1 = c1
    c2 = c2
    h1 = h1
    Devs = {d1, d2, d3}
    SlotNum = 2
    ByteNum = 2
    Width = 2
    FreeNum = 4
    Tables = {t1, t2}
    Cccds = {c1, c2}
    Hashes = {h1}
    Size <- MCSize
    CccdSize <- MCCccdSize
    Garbage = {0, 256}
    Faults = {"load", "save"}
    Nothing = Nothing
SYMMETRY Symmetry
INVARIANTS
    TypeOK
    BlocksPartitioned
    OneEntryPerDevice
PROPERTIES
    ImplementsCache
    CccdKeepsTable
