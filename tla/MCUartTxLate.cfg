SPECIFICATION Spec
CONSTANTS
    QueueNo <- MCQueueNo
    ResendNum <- MCResendNum
    MaxPush <- MCMaxPush
    LateAcks = TRUE
PROPERTIES
    NoSilentLoss
CHECK_DEADLOCK FALSE
