CONSTANTS
    Validator = {v1, v2, v3, v4}
    Outsider = {o1}
    BlockID = {nil, a, b}
    Peer = {p1, p2}
    NoVote = NoVote
    Node = {1, 2, 3}
    Committee <- MCCommittee
    EpochBlocks = 2
    MaxBlock = 3
    MaxProposal = 1
    Data <- MCData
    partSize = 2
    MaxRead = 3
    MaxSwitch = 1
SPECIFICATION TypesSpec
INVARIANTS
    TypeOK
    CommitVerifies
    NoRivalMajority
    BlocksValidate
    OwnLinks
    PartsRebuild
PROPERTY MajorityIsFinal
