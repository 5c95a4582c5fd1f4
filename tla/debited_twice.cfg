SPECIFICATION Spec
CONSTANTS
    Tx = {t1}
    Session = {s1}
    None = None
    Admins = {a1}
    Webhooks = {}
    Syncers = {}
    Credits = {c1, c2}
    ReportedAsRefunded <- OnlySucceeded
    MaxErrors = 1
    MaxCrashes = 0
INVARIANT DebitedOnce
CHECK_DEADLOCK FALSE
