CONSTANTS
    balance1 = balance1
    balance2 = balance2
    kyc = kyc
    read = read
    Tasks = {balance1, balance2, kyc, read}
    Nested <- MCNested
    PoolSize = 2
SPECIFICATION FairPoolSpec
INVARIANTS
    ConnectionsAccounted
PROPERTIES
    EveryTaskEnds
CHECK_DEADLOCK FALSE
