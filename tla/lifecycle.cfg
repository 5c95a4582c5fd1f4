SPECIFICATION Spec
CONSTANTS
    Tx = {t1}
    Session = {s1, s2}
    None = None
    Requests = {r1, r2}
    Stuckers = {k1}
    Pollers = {}
    WebhookOnly = {}
    Retriable = {s1, s2}
    MaxRetries = 1
    MaxFaults = 2
SYMMETRY Symmetry
INVARIANTS TypeOK ClaimMutex FulfilledIsGranted
PROPERTIES ClosedStaysClosed KeepsContract
CHECK_DEADLOCK FALSE
