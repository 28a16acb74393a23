---------------------------- MODULE ProbePolling ----------------------------
(***************************************************************************)
(* Temperature probes: the polling worker (src/polling_worker.rs) and the  *)
(* clients ask for temperatures; probes that fail too often are blocked in *)
(* memory, and tried again after some cycles (src/client.rs 997-1281,      *)
(* src/client_internal.rs 16-106).                                         *)
(*                                                                         *)
(* get_zone_temperature_with_blocking decides on a copy of the probe that  *)
(* it takes under one lock and acts upon under another: Copy and the       *)
(* actions after it.  limits holds temp_limits of each probe.              *)
(***************************************************************************)
EXTENDS Integers, FiniteSets

CONSTANTS
    Callers,          \* client tasks that ask for temperatures
    Poller,           \* the polling worker
    Probes,           \* zones with a probe, numbers
    limits,           \* of each probe: max_timeout_errors, max_sensor_errors,
                      \* unblock_enabled, unblock_after_cycles, interval
    BlockingEnabled,  \* temp_blocking_enabled
    MaxCalls,         \* bound: calls of the clients
    MaxFaults         \* bound: changes of a probe's health, late answers, losses

ASSUME ProbesAssumption == Probes \subseteq 1..256 /\ Poller \notin Callers

ASSUME LimitsOfProbes ==
    \A z \in Probes : /\ limits[z].max_timeout_errors \in Nat
                      /\ limits[z].max_sensor_errors \in Nat
                      /\ limits[z].unblock_enabled \in BOOLEAN
                      /\ limits[z].unblock_after_cycles \in Nat \ {0}
                      /\ limits[z].interval \in Nat \ {0}

VARIABLES
    connected,  \* the state of the connection is Connected
    health,     \* the probes themselves: fine, missing or faulty
    probe,      \* what the cache holds of each probe
    read,       \* the read each task is at
    cycle,      \* zones the polling cycle has still to read
    age,        \* minutes since last_run, up to the interval
    calls, faults,
    stale,      \* history: a decision was written that the probe had outdated
    surplus     \* history: probes with an error counted beyond the limit, until a read
                \* succeeds that brings both counts back within the limits

probesVars == <<connected, health, probe, read, cycle, age, calls, faults, stale, surplus>>

Tasks == Callers \cup {Poller}

Statuses == {"NoRead", "Ok", "SensorMissing", "CommunicationError",
             "BlockSensorMissing", "BlockCommunicationError", "RetryRead"}

NewProbe == [status |-> "NoRead", timeouts |-> 0, sensors |-> 0, cycles |-> 0]
NoRead   == [at |-> "idle", zone |-> 0, copy |-> NewProbe]

ProbesInit ==
    /\ connected = TRUE
    /\ health \in [Probes -> {"fine", "missing"}]
    /\ probe = [z \in Probes |-> NewProbe]
    /\ read = [t \in Tasks |-> NoRead]
    /\ cycle = {}
    /\ age = [z \in Probes |-> limits[z].interval]
    /\ calls = 0 /\ faults = 0
    /\ stale = FALSE
    /\ surplus = {}

World == <<connected, health, faults>>
Polls == <<cycle, age>>

Idle(t) == read[t].at = "idle"

TimeoutsReached(z, p) == p.timeouts >= limits[z].max_timeout_errors
SensorsReached(z, p)  == p.sensors >= limits[z].max_sensor_errors

\* More errors were counted than it takes to block.
Beyond(z, p) == \/ p.timeouts > limits[z].max_timeout_errors
                \/ p.sensors > limits[z].max_sensor_errors

IsBlocked(z, p) ==
    \/ p.status \in {"BlockSensorMissing", "BlockCommunicationError"}
    \/ TimeoutsReached(z, p)
    \/ SensorsReached(z, p)

-----------------------------------------------------------------------------
(* Reads of a temperature. *)

\* get_zone_temperature_raw: straight to the panel.
AskRaw(t, z) ==
    read' = [read EXCEPT ![t] = [at |-> "asked", zone |-> z, copy |-> NewProbe]]

\* get_zone_temperature_with_blocking: a copy under the read lock, then released.
Copy(t, z) ==
    read' = [read EXCEPT ![t] = [at |-> "copied", zone |-> z, copy |-> probe[z]]]

GetZoneTemperature(t, z) ==
    IF BlockingEnabled THEN Copy(t, z) ELSE AskRaw(t, z)

\* The copy is not blocked: the panel is asked.
CopyFree(t) ==
    /\ read[t].at = "copied"
    /\ ~IsBlocked(read[t].zone, read[t].copy)
    /\ AskRaw(t, read[t].zone)
    /\ UNCHANGED <<World, Polls, probe, calls, stale, surplus>>

Outdated(t) == probe[read[t].zone] # read[t].copy

\* Slip: the status alone is taken back.
UnblockStatusOnly(t) ==
    LET z == read[t].zone IN
    /\ read[t].at = "copied" /\ IsBlocked(z, read[t].copy)
    /\ limits[z].unblock_enabled
    /\ read[t].copy.cycles + 1 >= limits[z].unblock_after_cycles
    /\ probe' = [probe EXCEPT ![z].status = "RetryRead", ![z].cycles = 0]
    /\ stale' = (stale \/ Outdated(t))
    /\ read' = [read EXCEPT ![t] = NoRead]
    /\ UNCHANGED <<World, Polls, calls, surplus>>

\* Blocked for long enough: the next read may try, if the counters let it.
Unblock(t) ==
    LET z == read[t].zone
        Less(n, max) == IF n >= max /\ n > 0 THEN n - 1 ELSE n
    IN
    /\ read[t].at = "copied" /\ IsBlocked(z, read[t].copy)
    /\ limits[z].unblock_enabled
    /\ read[t].copy.cycles + 1 >= limits[z].unblock_after_cycles
    /\ probe' = [probe EXCEPT ![z] = [status |-> "RetryRead", cycles |-> 0,
           timeouts |-> Less(@.timeouts, limits[z].max_timeout_errors),
           sensors |-> Less(@.sensors, limits[z].max_sensor_errors)]]
    /\ stale' = (stale \/ Outdated(t))
    /\ read' = [read EXCEPT ![t] = NoRead]
    /\ UNCHANGED <<World, Polls, calls, surplus>>

\* Slip: the cycles are not counted up to the limit.
StayBlockedForLonger(t) ==
    LET z == read[t].zone IN
    /\ read[t].at = "copied" /\ IsBlocked(z, read[t].copy)
    /\ probe' = [probe EXCEPT ![z].cycles = read[t].copy.cycles + 1,
                              ![z].status = "BlockSensorMissing"]
    /\ stale' = (stale \/ Outdated(t))
    /\ read' = [read EXCEPT ![t] = NoRead]
    /\ UNCHANGED <<World, Polls, calls, surplus>>

\* Blocked: the status and the cycle are those of the copy.
StayBlocked(t) ==
    LET z == read[t].zone
        copy == read[t].copy
    IN
    /\ read[t].at = "copied" /\ IsBlocked(z, copy)
    /\ ~(limits[z].unblock_enabled /\ copy.cycles + 1 >= limits[z].unblock_after_cycles)
    /\ probe' = [probe EXCEPT ![z] = [
           status |-> IF copy.status = "BlockSensorMissing" \/ TimeoutsReached(z, copy)
                      THEN "BlockSensorMissing" ELSE "BlockCommunicationError",
           timeouts |-> @.timeouts, sensors |-> @.sensors, cycles |-> copy.cycles + 1]]
    /\ stale' = (stale \/ Outdated(t))
    /\ read' = [read EXCEPT ![t] = NoRead]
    /\ UNCHANGED <<World, Polls, calls, surplus>>

\* update_temperature_success_internal.
ReadSucceeds(t) ==
    LET Less(n) == IF n > 0 THEN n - 1 ELSE 0 IN
    /\ read[t].at = "asked" /\ connected /\ health[read[t].zone] = "fine"
    /\ probe' = [probe EXCEPT ![read[t].zone] = [status |-> "Ok", cycles |-> 0,
           timeouts |-> Less(@.timeouts), sensors |-> Less(@.sensors)]]
    /\ surplus' = IF Beyond(read[t].zone, probe'[read[t].zone]) THEN surplus
                  ELSE surplus \ {read[t].zone}
    /\ read' = [read EXCEPT ![t] = NoRead]
    /\ UNCHANGED <<World, Polls, calls, stale>>

\* update_temp_error after a timeout: no probe, or an answer that came too late.
TimedOut(t) ==
    LET z == read[t].zone
        n == probe[z].timeouts + 1
        blocked == n >= limits[z].max_timeout_errors
    IN
    /\ read[t].at = "asked" /\ connected
    /\ probe' = [probe EXCEPT ![z] = [
           status |-> IF blocked THEN "BlockSensorMissing" ELSE "SensorMissing",
           timeouts |-> n, sensors |-> @.sensors, cycles |-> IF blocked THEN 0 ELSE @.cycles]]
    /\ surplus' = IF n > limits[z].max_timeout_errors THEN surplus \cup {z} ELSE surplus
    /\ \/ health[z] = "missing" /\ UNCHANGED faults
       \/ health[z] # "missing" /\ faults < MaxFaults /\ faults' = faults + 1
    /\ read' = [read EXCEPT ![t] = NoRead]
    /\ UNCHANGED <<connected, health, Polls, calls, stale>>

\* Slip: the sensor's errors are counted as timeouts.
SensorFailsAsTimeout(t) ==
    LET z == read[t].zone
        blocked == probe[z].timeouts + 1 >= limits[z].max_timeout_errors
    IN
    /\ read[t].at = "asked" /\ connected /\ health[z] = "faulty"
    /\ probe' = [probe EXCEPT ![z].timeouts = @ + 1,
           ![z].status = IF blocked THEN "BlockCommunicationError" ELSE "CommunicationError"]
    /\ read' = [read EXCEPT ![t] = NoRead]
    /\ UNCHANGED <<World, Polls, calls, stale, surplus>>

\* update_temp_error after 0xFFFF, which the parser reports.
SensorFails(t) ==
    LET z == read[t].zone
        n == probe[z].sensors + 1
        blocked == n >= limits[z].max_sensor_errors
    IN
    /\ read[t].at = "asked" /\ connected /\ health[z] = "faulty"
    /\ probe' = [probe EXCEPT ![z] = [
           status |-> IF blocked THEN "BlockCommunicationError" ELSE "CommunicationError",
           timeouts |-> @.timeouts, sensors |-> n, cycles |-> IF blocked THEN 0 ELSE @.cycles]]
    /\ surplus' = IF n > limits[z].max_sensor_errors THEN surplus \cup {z} ELSE surplus
    /\ read' = [read EXCEPT ![t] = NoRead]
    /\ UNCHANGED <<World, Polls, calls, stale>>

\* Any other error (no connection, expired in the queue) leaves the probe as it is.
ReadFails(t) ==
    /\ read[t].at = "asked"
    /\ \/ ~connected /\ UNCHANGED faults
       \/ connected /\ faults < MaxFaults /\ faults' = faults + 1
    /\ read' = [read EXCEPT ![t] = NoRead]
    /\ UNCHANGED <<connected, health, Polls, probe, calls, stale, surplus>>

ReadSteps(t) ==
    \/ CopyFree(t) \/ Unblock(t) \/ StayBlocked(t)
    \/ ReadSucceeds(t) \/ TimedOut(t) \/ SensorFails(t) \/ ReadFails(t)

-----------------------------------------------------------------------------
(* The clients. *)

CallGetTemperature(c, z) ==
    /\ Idle(c) /\ calls < MaxCalls
    /\ calls' = calls + 1
    /\ GetZoneTemperature(c, z)
    /\ UNCHANGED <<World, Polls, probe, stale, surplus>>

\* get_all_zone_temperatures reads the zones one after the other, all raw.
CallScan(c, z) ==
    /\ Idle(c) /\ calls < MaxCalls
    /\ calls' = calls + 1
    /\ AskRaw(c, z)
    /\ UNCHANGED <<World, Polls, probe, stale, surplus>>

ResetTemperatureSensor(z) ==
    /\ calls < MaxCalls
    /\ calls' = calls + 1
    /\ probe' = [probe EXCEPT ![z] = NewProbe]
    /\ surplus' = surplus \ {z}
    /\ UNCHANGED <<World, Polls, read, stale>>

-----------------------------------------------------------------------------
(* The polling worker. *)

Due == {z \in Probes : age[z] >= limits[z].interval}

\* Slip: blocked probes are not even scheduled.
StartCycleUnblocked ==
    /\ Idle(Poller) /\ cycle = {} /\ connected
    /\ cycle' = {z \in Due : ~IsBlocked(z, probe[z])}
    /\ UNCHANGED <<World, age, probe, read, calls, stale, surplus>>

\* A turn of the loop, each second: run goes by the state, then execute takes the
\* zones that are due.
StartCycle ==
    /\ Idle(Poller) /\ cycle = {}
    /\ connected /\ Due # {}
    /\ cycle' = Due
    /\ UNCHANGED <<World, age, probe, read, calls, stale, surplus>>

\* The next zone in order: last_run is stored before the connection is looked at.
PollNext ==
    /\ Idle(Poller) /\ cycle # {}
    /\ \E z \in cycle :
        /\ \A y \in cycle : z <= y
        /\ age' = [age EXCEPT ![z] = 0]
        /\ IF connected
           THEN cycle' = cycle \ {z} /\ GetZoneTemperature(Poller, z)
           ELSE cycle' = {} /\ UNCHANGED read
    /\ UNCHANGED <<World, probe, calls, stale, surplus>>

-----------------------------------------------------------------------------
(* The world. *)

Minute ==
    /\ \E z \in Probes : age[z] < limits[z].interval
    /\ age' = [z \in Probes |-> IF age[z] < limits[z].interval THEN age[z] + 1 ELSE age[z]]
    /\ UNCHANGED <<World, cycle, probe, read, calls, stale, surplus>>

HealthChanges(z) ==
    /\ faults < MaxFaults /\ faults' = faults + 1
    /\ \E h \in {"fine", "missing", "faulty"} \ {health[z]} : health' = [health EXCEPT ![z] = h]
    /\ UNCHANGED <<connected, probe, read, Polls, calls, stale, surplus>>

ConnectionFlips ==
    /\ connected => faults < MaxFaults
    /\ faults' = IF connected THEN faults + 1 ELSE faults
    /\ connected' = ~connected
    /\ UNCHANGED <<health, probe, read, Polls, calls, stale, surplus>>

ProbesNext ==
    \/ \E t \in Tasks : ReadSteps(t)
    \/ \E c \in Callers, z \in Probes : CallGetTemperature(c, z) \/ CallScan(c, z)
    \/ \E z \in Probes : ResetTemperatureSensor(z) \/ HealthChanges(z)
    \/ StartCycle \/ PollNext
    \/ Minute \/ ConnectionFlips

ProbesSpec == ProbesInit /\ [][ProbesNext]_probesVars

\* The tasks run, time passes, and a lost connection is taken up again.
ProbesFairness ==
    /\ \A t \in Tasks : WF_probesVars(ReadSteps(t))
    /\ WF_probesVars(StartCycle) /\ WF_probesVars(PollNext)
    /\ WF_probesVars(Minute)
    /\ WF_probesVars(~connected /\ ConnectionFlips)

-----------------------------------------------------------------------------
(* Properties. *)

\* Every variable keeps its type.
ProbesTypeOK ==
    LET Probe == [status : Statuses, timeouts : Nat, sensors : Nat, cycles : Nat] IN
    /\ connected \in BOOLEAN
    /\ health \in [Probes -> {"fine", "missing", "faulty"}]
    /\ probe \in [Probes -> Probe]
    /\ read \in [Tasks -> [at : {"idle", "copied", "asked"}, zone : Probes \cup {0}, copy : Probe]]
    /\ \A t \in Tasks : ~Idle(t) => read[t].zone \in Probes
    /\ cycle \subseteq Probes
    /\ age \in [Probes -> Nat]
    /\ calls \in 0..MaxCalls /\ faults \in 0..MaxFaults
    /\ stale \in BOOLEAN /\ surplus \subseteq Probes

\* A probe is isolated for a reason it still has: the counter named by its status
\* is at its limit (client_internal.rs:74, 86; client.rs:1253-1259), unless a decision
\* made on an old copy was written over a newer state.
BlockedForCause ==
    ~stale => \A z \in Probes :
        /\ probe[z].status = "BlockSensorMissing" => TimeoutsReached(z, probe[z])
        /\ probe[z].status = "BlockCommunicationError" => SensorsReached(z, probe[z])

\* src/state.rs:313: RetryRead is after unblocking, waiting for an attempt.  The next
\* read does ask the panel, unless errors were counted beyond the limit (by scans, or by
\* reads that overlapped) or a decision was outdated.
RetryReadAsks ==
    ~stale => \A z \in Probes \ surplus :
        probe[z].status = "RetryRead" => \/ ~IsBlocked(z, probe[z])
                                         \/ limits[z].max_timeout_errors = 0
                                         \/ limits[z].max_sensor_errors = 0

\* Isolation ends: where unblocking is enabled, the cycles counted in isolation stay
\* below the limit (client.rs:1238), whichever tasks count them on which copies.
IsolationEnds ==
    \A z \in Probes : limits[z].unblock_enabled =>
        probe[z].cycles < limits[z].unblock_after_cycles

\* README: damaged probes are temporarily isolated.  With unblocking enabled, a probe
\* that works again is read again in the end, whatever raced before.
HealthyProbeRead ==
    \A z \in Probes :
        limits[z].unblock_enabled /\ limits[z].max_timeout_errors > 0 /\ limits[z].max_sensor_errors > 0
            => (<>[](health[z] = "fine") => <>[](probe[z].status = "Ok"))

=============================================================================
