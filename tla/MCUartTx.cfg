SPECIFICATION FairSpec
CONSTANTS
    QueueNo <- MCQueueNo
    ResendNum <- MCResendNum
    MaxPush <- MCMaxPush
    LateAcks = FALSE
INVARIANTS
    TypeOK
    RingInv
    NeverStuck
    RetryBound
PROPERTIES
    ImplementsFifo
    NoSilentLoss
    EveryPacketLeaves
CHECK_DEADLOCK FALSE
