SPECIFICATION HostedSpec
CONSTANTS
    Tx = {t1, t2}
    Session = {s1, s2}
    None = None
    Requests = {r1}
    Stuckers = {k1}
    Pollers = {p1}
    WebhookOnly = {s2}
    Retriable = {}
    MaxRetries = 1
    MaxFaults = 1
PROPERTY PaidIsFulfilled
CHECK_DEADLOCK FALSE
