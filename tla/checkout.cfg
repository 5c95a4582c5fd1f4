SPECIFICATION Spec
CONSTANTS
    Tx = {t1, t2, t3}
    Session = {s1, s2}
    None = None
    Requests = {r1, r2}
    Order = {o1, o2, o3}
    Page = {p1, p2}
    MaxPending = 1
    MaxEvents = 1
SYMMETRY Symmetry
INVARIANTS TypeOK PendingBound SentIsAttached OnePaymentPerOrder
CHECK_DEADLOCK FALSE
