SPECIFICATION MCSpec
CONSTANTS
    q1 = q1
    q2 = q2
    Queriers = {q1, q2}
    Indices = {1, 256}
    Configured <- MCConfigured
    Panels <- MCPanels
    MaxResets = 1
    MaxLate = 1
    worker = worker
    state_worker = state_worker
    c1 = c1
    c2 = c2
    Tasks = {worker, state_worker, c1, c2}
    Duties <- AllDuties
    Clients = {c1}
    StateWorker = state_worker
    Categories = {"violation", "trouble", "version", "partition_alarm", "output", "report"}
    PositionsOf <- MCPositions
    EventCap = 2
    MaxReloads = 1
    MaxFrames = 3
    OptionSets <- MCOptionSets
    MaxOptionChanges = 1
    MaxTroubleFrames = 2
    Controllers = {q1, q2}
    ControlOps <- MCControlOps
    Numbers = {0, 32, 256}
    UserCodes <- MCUserCodes
    GivenCodes <- MCGivenCodes
    MaxControls = 2

SYMMETRY Queriers2

\* The parts stop at their bounds, and the locks may be deadlocked: the last two
\* properties are about them.
CHECK_DEADLOCK FALSE

INVARIANTS
    ClientDataTypeOK
    ConfirmedIsBest
    EventsFollowCache
    AskedIsWanted
    FlagsAreLastFrames
    OkMeansDone
    LocksTypeOK
    DeadlockNeedsPushAndReload

PROPERTIES
    StoredWhereAnswered
    RefreshHeals
