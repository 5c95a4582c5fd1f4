SPECIFICATION FairSpec
CONSTANTS
    Tx = {t1}
    Session = {s1, s2}
    None = None
    Requests = {r1}
    Stuckers = {k1}
    Pollers = {p1}
    WebhookOnly = {s2}
    Retriable = {s1}
    MaxRetries = 1
    MaxFaults = 2
INVARIANTS NoUnpaidGrant RetryLimit IInv FreshRetries
PROPERTY EveryPaymentEnds
CHECK_DEADLOCK FALSE
