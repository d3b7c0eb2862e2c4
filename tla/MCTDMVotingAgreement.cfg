CONSTANTS
    v1 = v1  v2 = v2  v3 = v3  v4 = v4
    a = a  b = b
    Validator = {v1, v2, v3, v4}
    Faulty = {}
    Block = {a, b}
    ValidBlock = {a, b}
    Proposer <- RotatingProposer
    MaxRound = 2
    Nil = Nil
SPECIFICATION Spec
CONSTRAINT LockStep
INVARIANTS
    Agreement
CHECK_DEADLOCK FALSE
