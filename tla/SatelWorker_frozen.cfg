SPECIFICATION FairSpec
CONSTANTS
    Clients = {c1}
    NoClient = none
    Requests = {"connect", "standard"}
    Masks = {off, zones}
    NoMask = off
    Refused = refused
    Reconnects = {TRUE, FALSE}
    QueueCapacity = 1
    MaxMissedPings = 2
    PingIdleSecs = 2
    ReadTimeoutSecs = 1
    WatchdogSecs = 1
    BackoffBaseMs = 500
    BackoffMaxExp = 1
    BackoffCapMs = 1000
    EventAgeCap = 2
    LinkMayFreeze = TRUE

\* A client may ask before any connect: its call then waits for one.
CHECK_DEADLOCK FALSE

PROPERTY FrozenLinkDetected
