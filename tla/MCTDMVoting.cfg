CONSTANTS
    v1 = v1  v2 = v2  v3 = v3  v4 = v4
    a = a  b = b  x = x
    Validator = {v1, v2, v3, v4}
    Faulty = {v4}
    Block = {a, b, x}
    ValidBlock = {a, b}
    Proposer <- FaultyThenHonest
    MaxRound = 1
    Nil = Nil
SYMMETRY Symmetry
SPECIFICATION Spec
INVARIANTS
    TypeOK
    LockIsValidated
    OneCommitPerRound
    AgreementWhileLocked
CHECK_DEADLOCK FALSE
