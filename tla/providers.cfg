SPECIFICATION Spec
CONSTANTS
    RefundIds = {f1, f2}
    TxAmount = 2
    Configs <- GenericConfigs
SYMMETRY Symmetry
INVARIANTS TypeOK PaidIsPaid ClosedIsClosed PaidIsSeen RefundedIsRequested
