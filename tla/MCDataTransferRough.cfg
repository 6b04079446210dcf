SPECIFICATION Spec
CONSTANTS
    QueueNo = 3
    ResendNum = 2
    SppLinks = {s1}
    LeLinks = {l1}
    Events = {"e1"}
    MaxPush = 3
    MaxCredit = 1
    Inputs = {"refuse", "leack", "late", "starve", "down"}
INVARIANTS
    TypeOK
    RingInv
    NeverStuck
    SendBound
PROPERTIES
    ImplementsFifo
