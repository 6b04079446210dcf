SPECIFICATION Spec
CONSTANTS
    d1 = d1
    d2 = d2
    d3 = d3
    t1 = t1
    t2 = t2
    c1 = c1
    c2 = c2
    h1 = h1
    Devs = {d1, d2, d3}
    SlotNum = 2
    ByteNum = 3
    Width = 2
    FreeNum = 5
    Tables = {t1, t2}
    Cccds = {c1, c2}
    Hashes = {h1}
    Size <- MCSize
    CccdSize <- MCCccdSize
    Garbage = {}
    Faults = {}
    Nothing = Nothing
SYMMETRY Symmetry
INVARIANT StoredIsFound
