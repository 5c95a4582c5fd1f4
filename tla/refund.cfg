SPECIFICATION FairSpec
CONSTANTS
    Tx = {t1}
    Session = {s1}
    None = None
    Admins = {a1, a2}
    Webhooks = {w1}
    Syncers = {y1}
    Credits = {c1, c2}
    ReportedAsRefunded <- AnyRefund
    MaxErrors = 2
    MaxCrashes = 1
INVARIANTS TypeOK RInv RefundMutex RefundedIsReversed NoFreeReversal
PROPERTIES RefundedIsFinal KeepsContract RefundEndsUnlessCrashed
CHECK_DEADLOCK FALSE
