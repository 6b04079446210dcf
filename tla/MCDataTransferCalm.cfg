SPECIFICATION FairSpec
CONSTANTS
    QueueNo = 3
    ResendNum = 2
    SppLinks = {s1}
    LeLinks = {l1}
    Events = {"e1", "e2"}
    MaxPush = 3
    MaxCredit = 6
    Inputs = {"refuse"}
PROPERTIES
    NoUnsentLoss
    EveryPacketLeaves
