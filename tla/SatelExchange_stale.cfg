SPECIFICATION Spec
CONSTANTS
    Clients = {c1}
    Worker = worker
    Commands = {"read"}
    MaxRequests = 1
    MaxChanges = 1
    ChannelCapacity = 1

\* The bounds on requests and changes let a behaviour end.
CHECK_DEADLOCK FALSE

INVARIANT CacheCurrent
