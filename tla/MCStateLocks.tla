---------------------------- MODULE MCStateLocks ----------------------------
(* StateLocks for TLC: who performs what.                                    *)
EXTENDS StateLocks

CONSTANTS worker, state_worker, c1, c2

\* The worker changes the telemetry, the state worker applies pushes, and any
\* task may use the client.
DutyOf(t) ==
    CASE t = worker -> {"ReadConfig", "ReadState", "Update"}
      [] t = state_worker -> {"ZonePush", "Update"}
      [] OTHER -> {"ReadConfig", "ReadState", "HotReload", "GetZones", "Update"}

AllDuties == [t \in Tasks |-> DutyOf(t)]

\* The two tasks of the smallest deadlock.
PushAndReload ==
    [t \in Tasks |-> IF t = state_worker THEN {"ZonePush"} ELSE {"HotReload"}]
=============================================================================
