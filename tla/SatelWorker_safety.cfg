SPECIFICATION Spec
CONSTANTS
    Clients = {c1, c2}
    NoClient = none
    Requests = {"connect", "disconnect", "standard", "priority", "hot_reload", "reload"}
    Masks = {off, zones}
    NoMask = off
    Refused = refused
    Reconnects = {TRUE, FALSE}
    QueueCapacity = 1
    MaxMissedPings = 2
    PingIdleSecs = 2
    ReadTimeoutSecs = 2
    WatchdogSecs = 2
    BackoffBaseMs = 500
    BackoffMaxExp = 2
    BackoffCapMs = 2000
    EventAgeCap = 3
    LinkMayFreeze = FALSE

\* A client may ask before any connect: its call then waits for one.
CHECK_DEADLOCK FALSE

SYMMETRY ClientSymmetry

INVARIANTS
    TypeOK
    SessionConsistent
    NoOrphanedCaller
    MaskInSync
    MissedPingsBelowLimit
PROPERTIES
    UserDisconnectSticks
    LossCountedOnce
    TruthfulResults
    LifecycleSteps
