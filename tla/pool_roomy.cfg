SPECIFICATION PoolFairSpec
CONSTANTS
    Requests = {r1, r2, r3}
    Boards = {b1}
    Kinds = {"create", "patch", "delete", "credential", "read"}
    PoolSize = 4
PROPERTIES Answered
