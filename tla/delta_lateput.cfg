CONSTANTS
    a = a
    b = b
    c = c
    Texts = {a, b, c}
    Big = {a, b}
    NoText = NoText
    NoBase = NoBase
    NoTx = NoTx
    MaxSeq = 3
    Faults <- BothKinds
SPECIFICATION DeltaSpec
INVARIANTS
    BaseReadable
CHECK_DEADLOCK FALSE
