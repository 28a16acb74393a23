SPECIFICATION Spec
CONSTANTS
    Clients = {c1}
    Worker = worker
    Commands = {"name"}
    MaxRequests = 2
    MaxChanges = 0
    ChannelCapacity = 1

\* The bounds on requests and changes let a behaviour end.
CHECK_DEADLOCK FALSE

INVARIANT AnswersOwn
