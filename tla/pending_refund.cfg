SPECIFICATION Spec
CONSTANTS
    RefundIds = {f1}
    TxAmount = 2
    Configs <- FullConfig
INVARIANT RefundedIsSucceeded
