SPECIFICATION Spec
CONSTANTS
    poller = poller
    c1 = c1
    Callers = {c1}
    Poller = poller
    Probes = {1, 2}
    limits <- MCLimits
    BlockingEnabled = TRUE
    MaxCalls = 2
    MaxFaults = 2
    MinFrames = 2
    NotifyCap = 1
    MaxChanges = 6
    MaxClock = 1
    Payloads <- MCPayloads
    Junk <- MCJunk
    Segments <- MCWholeFrames
    PacketMin = 3
    HeaderLen = 2
    PrefixRange = 6
    FrameLens = {1, 3}
    Incoming <- MCIncoming
    MaxSends = 2

CHECK_DEADLOCK FALSE

INVARIANT WholeFramesDecoded
