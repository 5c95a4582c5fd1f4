SPECIFICATION ExpirySpec
CONSTANTS
    Tx = {t1}
    Session = {s1}
    None = None
    Requests = {r1}
    Stuckers = {k1}
    Pollers = {p1}
    WebhookOnly = {}
    Retriable = {}
    MaxRetries = 1
    MaxFaults = 0
PROPERTY PaidIsGranted
CHECK_DEADLOCK FALSE
