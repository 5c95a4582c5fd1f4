SPECIFICATION Spec
CONSTANTS
    Tx = {t1, t2}
    Session = {s1, s2}
    None = None
    MaxIncrements = 1
INVARIANTS TypeOK StoresAgree AnswersAgree
CHECK_DEADLOCK FALSE
