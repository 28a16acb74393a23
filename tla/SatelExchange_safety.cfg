SPECIFICATION Spec
CONSTANTS
    Clients = {c1, c2}
    Worker = worker
    Commands = {"read", "name", "control"}
    MaxRequests = 3
    MaxChanges = 2
    ChannelCapacity = 1

\* The bounds on requests and changes let a behaviour end.
CHECK_DEADLOCK FALSE

SYMMETRY ClientSymmetry

INVARIANTS
    TypeOK
    AnswersAligned
    RefusalsAnnounced
    PushesReachCache
