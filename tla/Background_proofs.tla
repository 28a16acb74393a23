--------------------------- MODULE Background_proofs ---------------------------
(***************************************************************************)
(* Proofs about the polling worker's reads (ProbePolling), for any probes, *)
(* limits and callers, and about the statistics of the connection          *)
(* (Statistics), for any threshold, capacity of the queue and number of    *)
(* changes and minutes.  The two share nothing.                            *)
(*                                                                         *)
(* On the statistics there are two arguments that share the types: Session *)
(* (connected_since is set exactly while the connection is up) carries     *)
(* UptimeExact, and CatchingUp (what was told last of the link, wherever   *)
(* it waits to be told, is its state) carries EventsCatchUp.               *)
(***************************************************************************)
EXTENDS ProbePolling, Statistics, SequenceTheorems, TLAPS

-----------------------------------------------------------------------------
(* The reads. *)

Probe == [status : Statuses, timeouts : Nat, sensors : Nat, cycles : Nat]

\* What the reads need to know of the variables.
ReadsTyped ==
    /\ probe \in [Probes -> Probe]
    /\ read \in [Tasks -> [at : {"idle", "copied", "asked"}, zone : Probes \cup {0}, copy : Probe]]
    /\ \A t \in Tasks : ~Idle(t) => read[t].zone \in Probes
    /\ cycle \subseteq Probes
    /\ stale \in BOOLEAN
    /\ surplus \subseteq Probes

\* A probe that has not been counted beyond its limits is within them.
CountsWithin == \A z \in Probes \ surplus : ~Beyond(z, probe[z])

ProbesInv == ReadsTyped /\ IsolationEnds /\ BlockedForCause /\ RetryReadAsks /\ CountsWithin

\* A probe and a read at their start are of their types.
LEMMA ProbeTypes ==
    /\ NewProbe \in Probe
    /\ NoRead \in [at : {"idle", "copied", "asked"}, zone : Probes \cup {0}, copy : Probe]
    /\ NoRead.at = "idle"
  BY DEF NewProbe, NoRead, Probe, Statuses

\* The invariant holds of the empty cache.
LEMMA ProbesInitInv == ProbesInit => ProbesInv
<1> SUFFICES ASSUME ProbesInit PROVE ProbesInv
  OBVIOUS
<1>1. ReadsTyped
  BY ProbeTypes DEF ProbesInit, ReadsTyped, Idle
<1>2. \A z \in Probes : probe[z] = NewProbe
  BY DEF ProbesInit
<1>3. IsolationEnds /\ BlockedForCause /\ RetryReadAsks /\ CountsWithin
  BY <1>2, LimitsOfProbes DEF IsolationEnds, BlockedForCause, RetryReadAsks, CountsWithin, Beyond, NewProbe
<1>4. QED
  BY <1>1, <1>3 DEF ProbesInv

\* The invariant of one probe, to be shown of the probe that a step writes.
Sound(z) ==
    /\ limits[z].unblock_enabled => probe[z].cycles < limits[z].unblock_after_cycles
    /\ ~stale =>
        /\ probe[z].status = "BlockSensorMissing" => TimeoutsReached(z, probe[z])
        /\ probe[z].status = "BlockCommunicationError" => SensorsReached(z, probe[z])
        /\ z \notin surplus /\ probe[z].status = "RetryRead" =>
               \/ ~IsBlocked(z, probe[z])
               \/ limits[z].max_timeout_errors = 0
               \/ limits[z].max_sensor_errors = 0
    /\ z \notin surplus => ~Beyond(z, probe[z])

\* The invariant is that of each probe.
LEMMA SoundProbes == ReadsTyped => (ProbesInv <=> \A z \in Probes : Sound(z))
  BY DEF ProbesInv, Sound, IsolationEnds, BlockedForCause, RetryReadAsks, CountsWithin

\* A step that writes one probe and ends the read, or leaves the reads alone.
LEMMA OneProbeWritten ==
    ASSUME ProbesInv, ReadsTyped', NEW z \in Probes,
           \A y \in Probes \ {z} : /\ probe'[y] = probe[y]
                                   /\ y \in surplus' <=> y \in surplus,
           stale => stale',
           Sound(z)'
    PROVE  ProbesInv'
<1>1. ASSUME NEW y \in Probes \ {z} PROVE Sound(y)'
  <2>1. Sound(y)
    BY SoundProbes DEF ProbesInv
  <2>2. QED
    BY <2>1 DEF Sound, TimeoutsReached, SensorsReached, IsBlocked, Beyond
<1>2. \A y \in Probes : Sound(y)'
  BY <1>1
<1>3. QED
  BY <1>2 DEF ProbesInv, Sound, IsolationEnds, BlockedForCause, RetryReadAsks, CountsWithin

\* The reads go on or end: the probes are as they were.
LEMMA ProbesKept ==
    ASSUME ProbesInv, ReadsTyped', UNCHANGED <<probe, stale, surplus>>
    PROVE  ProbesInv'
  BY DEF ProbesInv, IsolationEnds, BlockedForCause, RetryReadAsks, CountsWithin,
         TimeoutsReached, SensorsReached, IsBlocked, Beyond

\* A read asks the panel: the types are kept.
LEMMA AskRawTyped ==
    ASSUME ReadsTyped, NEW t \in Tasks, NEW z \in Probes, AskRaw(t, z),
           UNCHANGED <<probe, stale, surplus>>, cycle' \subseteq Probes
    PROVE  ReadsTyped'
  BY ProbeTypes DEF ReadsTyped, AskRaw, Idle

\* A read takes its copy of the probe: the types are kept.
LEMMA CopyTyped ==
    ASSUME ReadsTyped, NEW t \in Tasks, NEW z \in Probes, Copy(t, z),
           UNCHANGED <<probe, stale, surplus>>, cycle' \subseteq Probes
    PROVE  ReadsTyped'
  BY DEF ReadsTyped, Copy, Idle

\* A read begins with the one or the other (client.rs:1220-1230).
LEMMA GetTyped ==
    ASSUME ReadsTyped, NEW t \in Tasks, NEW z \in Probes, GetZoneTemperature(t, z),
           UNCHANGED <<probe, stale, surplus>>, cycle' \subseteq Probes
    PROVE  ReadsTyped'
  BY AskRawTyped, CopyTyped DEF GetZoneTemperature

\* A read that ends, having written one probe.
LEMMA ReadEndsTyped ==
    ASSUME ReadsTyped, NEW t \in Tasks, NEW z \in Probes,
           probe' \in [Probes -> Probe], stale' \in BOOLEAN, surplus' \subseteq Probes,
           read' = [read EXCEPT ![t] = NoRead], cycle' = cycle
    PROVE  ReadsTyped'
  BY ProbeTypes DEF ReadsTyped, Idle

\* What every read starts from: the probe it is about, and its limits.
LEMMA ReadFacts ==
    ASSUME ProbesInv, NEW t \in Tasks, ~Idle(t), NEW z, z = read[t].zone
    PROVE  /\ z \in Probes /\ Sound(z)
           /\ probe \in [Probes -> Probe] /\ probe[z] \in Probe /\ read[t].copy \in Probe
           /\ stale \in BOOLEAN /\ surplus \subseteq Probes
           /\ limits[z].max_timeout_errors \in Nat /\ limits[z].max_sensor_errors \in Nat
           /\ limits[z].unblock_after_cycles \in Nat \ {0}
           /\ limits[z].unblock_enabled \in BOOLEAN
<1>1. z \in Probes /\ ReadsTyped
  BY DEF ProbesInv, ReadsTyped
<1>2. Sound(z)
  BY <1>1, SoundProbes
<1>3. QED
  BY <1>1, <1>2, LimitsOfProbes DEF ReadsTyped

\* Such a read ends with a probe that is sound.
LEMMA ReadEnds ==
    ASSUME ProbesInv, NEW t \in Tasks, ~Idle(t), NEW z \in Probes, NEW new \in Probe,
           probe' = [probe EXCEPT ![z] = new], stale' \in BOOLEAN, stale => stale',
           surplus' \subseteq Probes,
           \A y \in Probes \ {z} : y \in surplus' <=> y \in surplus,
           read' = [read EXCEPT ![t] = NoRead], cycle' = cycle,
           Sound(z)'
    PROVE  ProbesInv'
<1>1. probe' \in [Probes -> Probe] /\ \A y \in Probes \ {z} : probe'[y] = probe[y]
  BY DEF ProbesInv, ReadsTyped
<1>2. ReadsTyped'
  BY <1>1, ReadEndsTyped DEF ProbesInv
<1>3. QED
  BY <1>1, <1>2, OneProbeWritten

\* Unblocking sets the cycles back, and neither adds an error nor isolates anew.
LEMMA UnblockKeeps ==
    ASSUME ProbesInv, NEW t \in Tasks, Unblock(t)
    PROVE  ProbesInv'
<1>1. PICK z : z = read[t].zone
  OBVIOUS
<1>2. ~Idle(t)
  BY DEF Unblock, Idle
<1>3. z \in Probes /\ Sound(z) /\ probe \in [Probes -> Probe] /\ probe[z] \in Probe
  BY <1>1, <1>2, ReadFacts
<1>4. /\ stale \in BOOLEAN /\ surplus \subseteq Probes
      /\ limits[z].max_timeout_errors \in Nat /\ limits[z].max_sensor_errors \in Nat
      /\ limits[z].unblock_after_cycles \in Nat \ {0}
  BY <1>1, <1>2, ReadFacts
<1> DEFINE Less(n, max) == IF n >= max /\ n > 0 THEN n - 1 ELSE n
           new == [status |-> "RetryRead", cycles |-> 0,
                   timeouts |-> Less(probe[z].timeouts, limits[z].max_timeout_errors),
                   sensors |-> Less(probe[z].sensors, limits[z].max_sensor_errors)]
<1>5. new \in Probe
  BY <1>3, <1>4 DEF Probe, Statuses
<1>6. probe' = [probe EXCEPT ![z] = new] /\ surplus' = surplus /\ cycle' = cycle
      /\ stale' \in BOOLEAN /\ (stale => stale') /\ read' = [read EXCEPT ![t] = NoRead]
  BY <1>1, <1>4 DEF Unblock, Polls, Outdated
<1>7. probe'[z] = new
  BY <1>3, <1>6
<1>8. Sound(z)'
  BY <1>3, <1>4, <1>6, <1>7 DEF Sound, TimeoutsReached, SensorsReached, IsBlocked, Beyond, Probe
<1> HIDE DEF new
<1>9. QED
  BY <1>2, <1>3, <1>4, <1>5, <1>6, <1>8, ReadEnds

\* Remaining blocked: the copy is below the limit of cycles, and the status written is
\* that of a counter at its limit in the copy, which is the probe unless it was outdated.
LEMMA StayBlockedKeeps ==
    ASSUME ProbesInv, NEW t \in Tasks, StayBlocked(t)
    PROVE  ProbesInv'
<1>1. PICK z : z = read[t].zone
  OBVIOUS
<1>2. ~Idle(t)
  BY DEF StayBlocked, Idle
<1>3. /\ z \in Probes /\ Sound(z) /\ probe \in [Probes -> Probe] /\ probe[z] \in Probe
      /\ read[t].copy \in Probe
  BY <1>1, <1>2, ReadFacts
<1>4. /\ stale \in BOOLEAN /\ surplus \subseteq Probes
      /\ limits[z].max_timeout_errors \in Nat /\ limits[z].max_sensor_errors \in Nat
      /\ limits[z].unblock_after_cycles \in Nat \ {0}
      /\ limits[z].unblock_enabled \in BOOLEAN
  BY <1>1, <1>2, ReadFacts
<1> DEFINE copy == read[t].copy
           new == [status |-> IF copy.status = "BlockSensorMissing" \/ TimeoutsReached(z, copy)
                              THEN "BlockSensorMissing" ELSE "BlockCommunicationError",
                   timeouts |-> probe[z].timeouts, sensors |-> probe[z].sensors,
                   cycles |-> copy.cycles + 1]
<1>5. new \in Probe
  BY <1>3, <1>4 DEF Probe, Statuses
<1>6. /\ probe' = [probe EXCEPT ![z] = new]
      /\ cycle' = cycle /\ read' = [read EXCEPT ![t] = NoRead]
  BY <1>1, <1>3, <1>4 DEF StayBlocked, Polls, Probe
<1>7. probe'[z] = new
  BY <1>3, <1>6
<1>8. surplus' = surplus /\ stale' \in BOOLEAN /\ (stale => stale')
  BY <1>1, <1>4 DEF StayBlocked, Outdated
<1>9. /\ IsBlocked(z, copy)
      /\ limits[z].unblock_enabled => copy.cycles + 1 < limits[z].unblock_after_cycles
      /\ ~stale' => ~stale /\ copy = probe[z]
  <2>1. /\ IsBlocked(z, copy)
        /\ ~(limits[z].unblock_enabled /\ copy.cycles + 1 >= limits[z].unblock_after_cycles)
        /\ stale' = (stale \/ probe[z] # copy)
    BY <1>1, Zenon DEF StayBlocked, Outdated
  <2>2. copy.cycles \in Nat
    BY <1>3 DEF Probe
  <2> DEFINE n == copy.cycles + 1
             m == limits[z].unblock_after_cycles
  <2>3. n \in Nat /\ m \in Nat
    BY <2>2, <1>4
  <2>4. ~(limits[z].unblock_enabled /\ n >= m)
    BY <2>1
  <2> HIDE DEF n, m, copy
  <2>5. limits[z].unblock_enabled => n < m
    BY <2>3, <2>4
  <2>6. ~stale' => ~stale /\ copy = probe[z]
    BY <2>1, <1>4, Zenon
  <2>7. QED
    BY <2>1, <2>5, <2>6, Zenon DEF n, m
<1>10. Sound(z)'
  <2>1. limits[z].unblock_enabled => new.cycles < limits[z].unblock_after_cycles
    BY <1>9
  <2>2. ~stale' => /\ new.status = "BlockSensorMissing" => TimeoutsReached(z, new)
                   /\ new.status = "BlockCommunicationError" => SensorsReached(z, new)
    BY <1>3, <1>9 DEF Sound, TimeoutsReached, SensorsReached, IsBlocked
  <2>3. z \notin surplus' => ~Beyond(z, new)
    BY <1>3, <1>8 DEF Sound, Beyond
  <2>4. new.status # "RetryRead"
    OBVIOUS
  <2> HIDE DEF new
  <2>5. QED
    BY <1>7, <2>1, <2>2, <2>3, <2>4 DEF Sound, TimeoutsReached, SensorsReached, Beyond
<1> HIDE DEF new
<1>11. QED
  BY <1>2, <1>3, <1>4, <1>5, <1>6, <1>8, <1>10, ReadEnds

\* A reading takes an error off each count, and ends isolation.
LEMMA ReadSucceedsKeeps ==
    ASSUME ProbesInv, NEW t \in Tasks, ReadSucceeds(t)
    PROVE  ProbesInv'
<1>1. PICK z : z = read[t].zone
  OBVIOUS
<1>2. ~Idle(t)
  BY DEF ReadSucceeds, Idle
<1>3. /\ z \in Probes /\ Sound(z) /\ probe \in [Probes -> Probe] /\ probe[z] \in Probe
      /\ read[t].copy \in Probe
  BY <1>1, <1>2, ReadFacts
<1>4. /\ stale \in BOOLEAN /\ surplus \subseteq Probes
      /\ limits[z].max_timeout_errors \in Nat /\ limits[z].max_sensor_errors \in Nat
      /\ limits[z].unblock_after_cycles \in Nat \ {0}
      /\ limits[z].unblock_enabled \in BOOLEAN
  BY <1>1, <1>2, ReadFacts
<1> DEFINE Less(n) == IF n > 0 THEN n - 1 ELSE 0
           new == [status |-> "Ok", cycles |-> 0, timeouts |-> Less(probe[z].timeouts),
                   sensors |-> Less(probe[z].sensors)]
<1>5. new \in Probe
  BY <1>3, <1>4 DEF Probe, Statuses
<1>6. /\ probe' = [probe EXCEPT ![z] = new]
      /\ cycle' = cycle /\ read' = [read EXCEPT ![t] = NoRead]
  BY <1>1, <1>3, <1>4 DEF ReadSucceeds, Polls, Probe
<1>7. probe'[z] = new
  BY <1>3, <1>6
<1>8. /\ stale' = stale /\ surplus' \subseteq surplus
      /\ \A y \in Probes \ {z} : y \in surplus' <=> y \in surplus
  BY <1>1, <1>3, <1>4, <1>7 DEF ReadSucceeds
<1>9. Sound(z)'
  <2>1. new.cycles = 0 /\ new.status = "Ok"
    OBVIOUS
  <2>2. surplus' = IF Beyond(z, new) THEN surplus ELSE surplus \ {z}
    BY <1>1, <1>7 DEF ReadSucceeds
  <2>3. z \notin surplus => ~Beyond(z, probe[z])
    BY <1>3 DEF Sound
  <2>4. ~Beyond(z, probe[z]) => ~Beyond(z, new)
    BY <1>3, <1>4 DEF Beyond, Probe
  <2> HIDE DEF new
  <2>5. z \notin surplus' => ~Beyond(z, new)
    BY <2>2, <2>3, <2>4
  <2>6. QED
    BY <1>4, <1>7, <2>1, <2>5 DEF Sound, Beyond
<1> HIDE DEF new
<1>10. QED
  BY <1>2, <1>3, <1>4, <1>5, <1>6, <1>8, <1>9, ReadEnds

\* A timeout is counted: the status isolates exactly when the count is at its limit.
LEMMA TimedOutKeeps ==
    ASSUME ProbesInv, NEW t \in Tasks, TimedOut(t)
    PROVE  ProbesInv'
<1>1. PICK z : z = read[t].zone
  OBVIOUS
<1>2. ~Idle(t)
  BY DEF TimedOut, Idle
<1>3. /\ z \in Probes /\ Sound(z) /\ probe \in [Probes -> Probe] /\ probe[z] \in Probe
      /\ read[t].copy \in Probe
  BY <1>1, <1>2, ReadFacts
<1>4. /\ stale \in BOOLEAN /\ surplus \subseteq Probes
      /\ limits[z].max_timeout_errors \in Nat /\ limits[z].max_sensor_errors \in Nat
      /\ limits[z].unblock_after_cycles \in Nat \ {0}
      /\ limits[z].unblock_enabled \in BOOLEAN
  BY <1>1, <1>2, ReadFacts
<1> DEFINE n == probe[z].timeouts + 1
           blocked == n >= limits[z].max_timeout_errors
           new == [status |-> IF blocked THEN "BlockSensorMissing" ELSE "SensorMissing",
                   timeouts |-> n, sensors |-> probe[z].sensors,
                   cycles |-> IF blocked THEN 0 ELSE probe[z].cycles]
<1>5. new \in Probe
  BY <1>3, <1>4 DEF Probe, Statuses
<1>6. /\ probe' = [probe EXCEPT ![z] = new]
      /\ cycle' = cycle /\ read' = [read EXCEPT ![t] = NoRead]
  BY <1>1, <1>3, <1>4 DEF TimedOut, Polls, Probe
<1>7. probe'[z] = new
  BY <1>3, <1>6, SMTT(30)
<1>8. /\ stale' = stale /\ surplus' \subseteq surplus \cup {z}
      /\ surplus \subseteq surplus'
  BY <1>1, <1>3, <1>4, <1>7 DEF TimedOut
<1>9. Sound(z)'
  <2>1. limits[z].unblock_enabled => new.cycles < limits[z].unblock_after_cycles
    BY <1>3, <1>4 DEF Sound
  <2>2. /\ new.status \in {"BlockSensorMissing", "SensorMissing"}
        /\ new.status = "BlockSensorMissing" => TimeoutsReached(z, new)
    BY DEF TimeoutsReached
  <2>3. surplus' = IF n > limits[z].max_timeout_errors THEN surplus \cup {z} ELSE surplus
    BY <1>1, Zenon DEF TimedOut
  <2>4. z \notin surplus => ~Beyond(z, probe[z])
    BY <1>3 DEF Sound
  <2>5. ~Beyond(z, probe[z]) /\ ~(n > limits[z].max_timeout_errors) => ~Beyond(z, new)
    BY DEF Beyond
  <2> HIDE DEF new, n, blocked
  <2>6. z \notin surplus' => ~Beyond(z, new)
    BY <2>3, <2>4, <2>5
  <2>7. QED
    BY <1>7, <2>1, <2>2, <2>6 DEF Sound, Beyond, TimeoutsReached, SensorsReached
<1> HIDE DEF new
<1>10. QED
  BY <1>2, <1>3, <1>4, <1>5, <1>6, <1>8, <1>9, ReadEnds

\* An error of the sensor is counted the same way.
LEMMA SensorFailsKeeps ==
    ASSUME ProbesInv, NEW t \in Tasks, SensorFails(t)
    PROVE  ProbesInv'
<1>1. PICK z : z = read[t].zone
  OBVIOUS
<1>2. ~Idle(t)
  BY DEF SensorFails, Idle
<1>3. /\ z \in Probes /\ Sound(z) /\ probe \in [Probes -> Probe] /\ probe[z] \in Probe
      /\ read[t].copy \in Probe
  BY <1>1, <1>2, ReadFacts
<1>4. /\ stale \in BOOLEAN /\ surplus \subseteq Probes
      /\ limits[z].max_timeout_errors \in Nat /\ limits[z].max_sensor_errors \in Nat
      /\ limits[z].unblock_after_cycles \in Nat \ {0}
      /\ limits[z].unblock_enabled \in BOOLEAN
  BY <1>1, <1>2, ReadFacts
<1> DEFINE n == probe[z].sensors + 1
           blocked == n >= limits[z].max_sensor_errors
           new == [status |-> IF blocked THEN "BlockCommunicationError" ELSE "CommunicationError",
                   timeouts |-> probe[z].timeouts, sensors |-> n,
                   cycles |-> IF blocked THEN 0 ELSE probe[z].cycles]
<1>5. new \in Probe
  BY <1>3, <1>4 DEF Probe, Statuses
<1>6. /\ probe' = [probe EXCEPT ![z] = new]
      /\ cycle' = cycle /\ read' = [read EXCEPT ![t] = NoRead]
  BY <1>1, <1>3, <1>4 DEF SensorFails, Polls, Probe
<1>7. probe'[z] = new
  BY <1>3, <1>6, SMTT(30)
<1>8. /\ stale' = stale /\ surplus' \subseteq surplus \cup {z}
      /\ surplus \subseteq surplus'
  BY <1>1, <1>3, <1>4, <1>7 DEF SensorFails
<1>9. Sound(z)'
  <2>1. limits[z].unblock_enabled => new.cycles < limits[z].unblock_after_cycles
    BY <1>3, <1>4 DEF Sound
  <2>2. /\ new.status \in {"BlockCommunicationError", "CommunicationError"}
        /\ new.status = "BlockCommunicationError" => SensorsReached(z, new)
    BY DEF SensorsReached
  <2>3. surplus' = IF n > limits[z].max_sensor_errors THEN surplus \cup {z} ELSE surplus
    BY <1>1, Zenon DEF SensorFails
  <2>4. z \notin surplus => ~Beyond(z, probe[z])
    BY <1>3 DEF Sound
  <2>5. ~Beyond(z, probe[z]) /\ ~(n > limits[z].max_sensor_errors) => ~Beyond(z, new)
    BY DEF Beyond
  <2> HIDE DEF new, n, blocked
  <2>6. z \notin surplus' => ~Beyond(z, new)
    BY <2>3, <2>4, <2>5
  <2>7. QED
    BY <1>7, <2>1, <2>2, <2>6 DEF Sound, Beyond, TimeoutsReached, SensorsReached
<1> HIDE DEF new
<1>10. QED
  BY <1>2, <1>3, <1>4, <1>5, <1>6, <1>8, <1>9, ReadEnds

\* A reset puts the probe at its start.
LEMMA ResetKeeps ==
    ASSUME ProbesInv, NEW z \in Probes, ResetTemperatureSensor(z)
    PROVE  ProbesInv'
<1>1. /\ probe' = [probe EXCEPT ![z] = NewProbe] /\ probe \in [Probes -> Probe]
      /\ surplus' = surplus \ {z} /\ stale' = stale
  BY DEF ResetTemperatureSensor, ProbesInv, ReadsTyped
<1>2. probe'[z] = NewProbe /\ \A y \in Probes \ {z} : probe'[y] = probe[y]
  BY <1>1
<1>3. ReadsTyped'
  BY <1>1, ProbeTypes DEF ResetTemperatureSensor, ProbesInv, ReadsTyped, Idle, Polls
<1>4. Sound(z)'
  BY <1>2, LimitsOfProbes DEF Sound, NewProbe, Beyond, TimeoutsReached, SensorsReached
<1>5. QED
  BY <1>1, <1>2, <1>3, <1>4, OneProbeWritten

\* The steps that leave the probes as they are.
LEMMA ReadGoesOnKeeps ==
    ASSUME ProbesInv, NEW t \in Tasks, CopyFree(t) \/ ReadFails(t)
    PROVE  ProbesInv'
<1>1. ~Idle(t) /\ UNCHANGED <<probe, stale, surplus, cycle>>
  BY DEF CopyFree, ReadFails, Idle, Polls
<1>2. read[t].zone \in Probes /\ ReadsTyped
  BY <1>1 DEF ProbesInv, ReadsTyped
<1>3. CASE CopyFree(t)
  <2>1. ReadsTyped'
    BY <1>1, <1>2, <1>3, AskRawTyped DEF CopyFree, ReadsTyped
  <2>2. QED
    BY <1>1, <2>1, ProbesKept
<1>4. CASE ReadFails(t)
  <2>1. ReadsTyped'
    BY <1>1, <1>2, <1>4, ReadEndsTyped DEF ReadFails, ReadsTyped
  <2>2. QED
    BY <1>1, <2>1, ProbesKept
<1>5. QED
  BY <1>3, <1>4

\* The calls of the clients start reads.
LEMMA CallsKeep ==
    ASSUME ProbesInv, NEW c \in Callers, NEW z \in Probes,
           CallGetTemperature(c, z) \/ CallScan(c, z)
    PROVE  ProbesInv'
<1>1. UNCHANGED <<probe, stale, surplus, cycle>> /\ c \in Tasks /\ ReadsTyped
  BY DEF CallGetTemperature, CallScan, Polls, Tasks, ProbesInv
<1>2. ReadsTyped'
  <2>1. cycle' \subseteq Probes
    BY <1>1 DEF ReadsTyped
  <2>2. GetZoneTemperature(c, z) \/ AskRaw(c, z)
    BY DEF CallGetTemperature, CallScan
  <2>3. QED
    BY <1>1, <2>1, <2>2, GetTyped, AskRawTyped
<1>3. QED
  BY <1>1, <1>2, ProbesKept

\* The polling worker starts a cycle, and reads for it or gives it up.
LEMMA PollerKeeps ==
    ASSUME ProbesInv, StartCycle \/ PollNext
    PROVE  ProbesInv'
<1>1. UNCHANGED <<probe, stale, surplus>> /\ Poller \in Tasks /\ ReadsTyped
  BY DEF StartCycle, PollNext, Tasks, ProbesInv
<1>2. ReadsTyped'
  <2>1. CASE UNCHANGED read /\ cycle' \subseteq Probes
    BY <1>1, <2>1 DEF ReadsTyped, Idle
  <2>2. ASSUME NEW z \in cycle, cycle' = cycle \ {z}, GetZoneTemperature(Poller, z)
        PROVE  ReadsTyped'
    <3>1. z \in Probes /\ cycle' \subseteq Probes
      BY <1>1, <2>2 DEF ReadsTyped
    <3>2. QED
      BY <1>1, <2>2, <3>1, GetTyped
  <2>3. \/ UNCHANGED read /\ cycle' \subseteq Probes
        \/ \E z \in cycle : cycle' = cycle \ {z} /\ GetZoneTemperature(Poller, z)
    BY DEF StartCycle, PollNext, Due
  <2>4. QED
    BY <2>1, <2>2, <2>3
<1>3. QED
  BY <1>1, <1>2, ProbesKept

\* Steps that touch neither probes nor reads.
LEMMA OthersKeep ==
    ASSUME ProbesInv, UNCHANGED <<probe, read, cycle, stale, surplus>>
    PROVE  ProbesInv'
<1>1. ReadsTyped'
  BY DEF ProbesInv, ReadsTyped, Idle
<1>2. QED
  BY <1>1, ProbesKept

\* Every step keeps the invariant.
LEMMA ProbesInvKept == ProbesInv /\ [ProbesNext]_probesVars => ProbesInv'
<1> SUFFICES ASSUME ProbesInv, [ProbesNext]_probesVars PROVE ProbesInv'
  OBVIOUS
<1>1. CASE \E t \in Tasks : ReadSteps(t)
  BY <1>1, ReadGoesOnKeeps, UnblockKeeps, StayBlockedKeeps, ReadSucceedsKeeps, TimedOutKeeps,
     SensorFailsKeeps DEF ReadSteps
<1>2. CASE \E c \in Callers, z \in Probes : CallGetTemperature(c, z) \/ CallScan(c, z)
  BY <1>2, CallsKeep
<1>3. CASE \E z \in Probes : ResetTemperatureSensor(z)
  BY <1>3, ResetKeeps
<1>4. CASE (\E z \in Probes : HealthChanges(z)) \/ Minute \/ ConnectionFlips
  BY <1>4, OthersKeep DEF HealthChanges, Minute, ConnectionFlips, Polls
<1>5. CASE StartCycle \/ PollNext
  BY <1>5, PollerKeeps
<1>6. CASE UNCHANGED probesVars
  BY <1>6, OthersKeep DEF probesVars
<1>7. QED
  BY <1>1, <1>2, <1>3, <1>4, <1>5, <1>6 DEF ProbesNext

\* Isolation ends, however many tasks count its cycles on whatever copies: the count
\* stays below the limit wherever unblocking is enabled (client.rs:1236-1261).
THEOREM IsolationAlwaysEnds == ProbesSpec => []IsolationEnds
<1>1. ProbesInv => IsolationEnds
  BY DEF ProbesInv
<1>2. QED
  BY <1>1, ProbesInitInv, ProbesInvKept, PTL DEF ProbesSpec

\* Until a decision made on an old copy is written over a newer state, a blocked probe
\* has the counter of its status at the limit (client_internal.rs:60-106).
THEOREM BlockedAlwaysForCause == ProbesSpec => []BlockedForCause
<1>1. ProbesInv => BlockedForCause
  BY DEF ProbesInv
<1>2. QED
  BY <1>1, ProbesInitInv, ProbesInvKept, PTL DEF ProbesSpec

\* Until then a probe in RetryRead is asked by the next read, if no error was counted
\* beyond its limit (client.rs:1238-1250, state.rs:313).
THEOREM RetryReadAlwaysAsks == ProbesSpec => []RetryReadAsks
<1>1. ProbesInv => RetryReadAsks
  BY DEF ProbesInv
<1>2. QED
  BY <1>1, ProbesInitInv, ProbesInvKept, PTL DEF ProbesSpec

-----------------------------------------------------------------------------
(* The statistics: the invariant. *)

Fields == {"frames", "established", "lost", "errors"}

Tallies   == [Fields -> 0..MaxChanges]
Snapshots == [by : {"state", "poll"}, state : Links, counters : Tallies]

\* No count is above the number of changes.
Counting ==
    /\ changes \in 0..MaxChanges
    /\ counters \in [Fields -> 0..changes] /\ mark \in Tallies

\* Each sender holds one snapshot while it is to send it.
Holding ==
    /\ held \in Seq(Snapshots)
    /\ \A i, j \in 1..Len(held) : held[i].by = held[j].by => i = j
    /\ (\E i \in 1..Len(held) : held[i].by = "state") <=> handling = "send"
    /\ (\E i \in 1..Len(held) : held[i].by = "poll") <=> polling = "send"

Telling ==
    /\ link \in Links /\ heard \in Links /\ announcing \in Links \cup {"none"}
    /\ notices \in Seq(Links) /\ Len(notices) <= NotifyCap
    /\ handling \in {"recv", "changed", "send"}
    /\ polling \in {"asleep", "check", "send"}
    /\ shown \in [state : Links, counters : Tallies]
    /\ overtaken \in BOOLEAN

\* connected_since is set while the connection is up, and only then.
Session ==
    /\ link \in Links /\ minute \in 0..MaxClock
    /\ connected_since \in 0..minute \cup {Never}
    /\ connected_since # Never <=> link = "Connected"
    /\ total_connected_before \in Nat /\ uptime \in 0..minute
    /\ UptimeExact

\* What ConnectionChanged will have told last, and the state in the statistics that
\* will have been sent last.
LastHeard == IF notices = <<>> THEN heard ELSE notices[Len(notices)]
LastShown == IF held = <<>> THEN shown.state ELSE held[Len(held)].state

CatchingUp ==
    /\ IF Free THEN LastHeard = link ELSE announcing = link
    /\ ~overtaken /\ Free /\ notices = <<>> /\ handling # "changed" => LastShown = link

StatsInv == Counting /\ Holding /\ Telling /\ Session /\ CatchingUp

-----------------------------------------------------------------------------
(* The connected time. *)

\* Nothing has happened yet.
LEMMA InitSession == StatsInit => Session
  BY StatsAssumption DEF StatsInit, Session, UptimeExact, Session0, Links, Never

\* Every step keeps the sum of the sessions exact.
LEMMA SessionKept == Session /\ [StatsNext]_statsVars => Session'
<1> SUFFICES ASSUME Session, [StatsNext]_statsVars PROVE Session'
  OBVIOUS
<1> USE StatsAssumption
<1>1. CASE UNCHANGED <<link, connected_since, total_connected_before, minute, uptime>>
  BY <1>1 DEF Session, UptimeExact, Session0
<1>2. CASE SetConnecting
  BY <1>2 DEF SetConnecting, Session, UptimeExact, Session0, Clocks, Links
<1>3. CASE SetHandshake
  BY <1>3 DEF SetHandshake, Session, UptimeExact, Session0, Clocks, Links
<1>4. CASE SetConnected
  BY <1>4 DEF SetConnected, Session, UptimeExact, Session0, Clocks, Links, Never
<1>5. CASE LoseConnection
  BY <1>5 DEF LoseConnection, Session, UptimeExact, Session0, Clocks, Links, Never
<1>6. CASE EndConnection
  BY <1>6 DEF EndConnection, Session, UptimeExact, Session0, Clocks, Links, Never
<1>7. CASE ResetStatistics
  BY <1>7 DEF ResetStatistics, Session, UptimeExact, Session0, Links, Never
<1>8. CASE MinutePasses
  BY <1>8 DEF MinutePasses, Worker, Session, UptimeExact, Session0, Never
<1>9. QED
  BY <1>1, <1>2, <1>3, <1>4, <1>5, <1>6, <1>7, <1>8
     DEF StatsNext, WorkerSteps, StateWorkerSteps, PollingSteps, statsVars, CountTraffic,
         NotifyStatus, TellChange, MarkChange, SendChange, BeginTurn, CheckStatistics,
         SendPeriodic, Worker, Rest, Clocks

\* total_connected of a snapshot is the time connected since the last reset, across
\* losses, disconnects and resets in any order (state.rs:180-191, worker.rs:380-409).
THEOREM UptimeAlwaysExact == StatsSpec => []UptimeExact
<1>1. Session => UptimeExact
  BY DEF Session
<1>2. QED
  BY <1>1, InitSession, SessionKept, PTL DEF StatsSpec

-----------------------------------------------------------------------------
(* What is counted, held and queued. *)

\* Zero is a tally, and one more of a field, or none, is a tally again.
LEMMA ZeroTallies == \A n \in Nat : Zero \in [Fields -> 0..n]
<1>1. Zero = [f \in Fields |-> 0]
  BY DEF Zero, Fields
<1>2. QED
  BY <1>1

LEMMA CountedTallies ==
    ASSUME NEW n \in Nat, NEW c \in [Fields -> 0..n], NEW f \in Fields, NEW k \in {0, 1}
    PROVE  [c EXCEPT ![f] = @ + k] \in [Fields -> 0..(n + 1)]
<1>1. \A g \in Fields : c[g] \in 0..n /\ c[g] + k \in 0..(n + 1)
  OBVIOUS
<1>2. QED
  BY <1>1

\* What is left of a sequence from which one element was taken.
LEMMA TakenFrom ==
    ASSUME NEW S, NEW s \in Seq(S), NEW i \in 1..Len(s)
    PROVE  LET t == SubSeq(s, 1, i - 1) \o SubSeq(s, i + 1, Len(s))
           IN  /\ t \in Seq(S) /\ Len(t) = Len(s) - 1
               /\ \A k \in 1..Len(t) : t[k] = IF k < i THEN s[k] ELSE s[k + 1]
<1> DEFINE a == SubSeq(s, 1, i - 1)
           b == SubSeq(s, i + 1, Len(s))
<1>1. Len(s) \in Nat /\ i \in Nat
  OBVIOUS
<1>2. /\ a \in Seq(S) /\ Len(a) = i - 1 /\ \A k \in 1..(i - 1) : a[k] = s[k]
  <2>1. \A k \in 1..(i - 1) : s[k] \in S
    BY <1>1
  <2>2. QED
    BY <1>1, <2>1, SubSeqProperties
<1>3. /\ b \in Seq(S) /\ Len(b) = Len(s) - i
      /\ \A k \in 1..(Len(s) - i) : b[k] = s[i + k]
  <2>1. \A k \in (i + 1)..Len(s) : s[k] \in S
    BY <1>1
  <2>2. QED
    BY <1>1, <2>1, SubSeqProperties
<1> HIDE DEF a, b
<1>4. /\ a \o b \in Seq(S) /\ Len(a \o b) = Len(s) - 1
      /\ \A k \in 1..Len(a \o b) : (a \o b)[k] = IF k < i THEN s[k] ELSE s[k + 1]
  <2>1. /\ a \o b \in Seq(S) /\ Len(a \o b) = Len(a) + Len(b)
        /\ \A k \in 1..(Len(a) + Len(b)) :
               (a \o b)[k] = IF k <= Len(a) THEN a[k] ELSE b[k - Len(a)]
    BY <1>2, <1>3, ConcatProperties
  <2>2. ASSUME NEW k \in 1..Len(a \o b)
        PROVE (a \o b)[k] = IF k < i THEN s[k] ELSE s[k + 1]
    <3>1. CASE k < i
      BY <1>1, <1>2, <1>3, <2>1, <3>1
    <3>2. CASE ~(k < i)
      <4>1. /\ (a \o b)[k] = b[k - Len(a)] /\ k - Len(a) = k - i + 1
            /\ k - i + 1 \in 1..(Len(s) - i) /\ i + (k - i + 1) = k + 1
        BY <1>1, <1>2, <1>3, <2>1, <3>2
      <4>2. b[k - i + 1] = s[i + (k - i + 1)]
        BY <1>3, <4>1
      <4>3. QED
        BY <3>2, <4>1, <4>2
    <3>3. QED
      BY <3>1, <3>2
  <2>3. Len(a \o b) = Len(s) - 1
    BY <1>1, <1>2, <1>3, <2>1
  <2>4. QED
    BY <2>1, <2>2, <2>3
<1>5. QED
  BY <1>4 DEF a, b

\* The counts start at zero, and nothing is held or queued.
LEMMA InitTelling == StatsInit => Counting /\ Holding /\ Telling
<1> SUFFICES ASSUME StatsInit PROVE Counting /\ Holding /\ Telling
  OBVIOUS
<1>1. Zero \in [Fields -> 0..0] /\ Zero \in Tallies
  BY StatsAssumption, ZeroTallies DEF Tallies
<1>2. held = <<>> /\ Len(held) = 0 /\ <<>> \in Seq(Snapshots) /\ <<>> \in Seq(Links)
  BY DEF StatsInit
<1>3. Counting
  <2>1. changes = 0 /\ counters \in [Fields -> 0..0] /\ mark \in Tallies /\ 0 \in 0..MaxChanges
    BY <1>1, StatsAssumption DEF StatsInit
  <2>2. 0..changes = 0..0 /\ changes \in 0..MaxChanges
    BY <2>1
  <2>3. QED
    BY <2>1, <2>2 DEF Counting
<1>4. Holding
  BY <1>2 DEF StatsInit, Holding
<1>5. Telling
  <2>1. shown \in [state : Links, counters : Tallies]
    BY <1>1 DEF StatsInit, Links
  <2>2. notices \in Seq(Links) /\ Len(notices) <= NotifyCap
    BY <1>2, StatsAssumption DEF StatsInit
  <2>3. QED
    BY <2>1, <2>2 DEF StatsInit, Telling, Links
<1>6. QED
  BY <1>3, <1>4, <1>5

\* A count is taken up by the changes.
LEMMA CountingGrows ==
    ASSUME Counting, NEW f \in Fields, NEW k \in {0, 1},
           counters' = [counters EXCEPT ![f] = @ + k],
           changes' \in 0..MaxChanges, changes + k <= changes'
    PROVE  counters' \in [Fields -> 0..changes']
<1>1. changes \in Nat /\ changes' \in Nat /\ counters \in [Fields -> 0..changes]
  BY StatsAssumption DEF Counting
<1>2. \A g \in Fields : counters[g] \in 0..changes /\ counters[g] + k \in 0..changes' /\ counters[g] \in 0..changes'
  BY <1>1
<1>3. QED
  BY <1>1, <1>2

\* A snapshot is the mark as it was, the link and the counters.
LEMMA SnapshotTyped ==
    ASSUME Counting, Holding, link \in Links, NEW by \in {"state", "poll"}, Snapshot(by)
    PROVE  /\ Counting'
           /\ \E s \in Snapshots : s.by = by /\ s.state = link /\ held' = Append(held, s)
<1>1. PICK crc \in {0, 1} :
          /\ changes + crc <= MaxChanges /\ changes' = changes + crc
          /\ counters' = [counters EXCEPT !.errors = @ + crc]
          /\ held' = Append(held, [by |-> by, state |-> link, counters |-> counters'])
  BY DEF Snapshot
<1>2. changes' \in 0..MaxChanges /\ changes + crc <= changes' /\ "errors" \in Fields
  BY <1>1, StatsAssumption DEF Counting, Fields
<1>3. counters' \in [Fields -> 0..changes']
  BY <1>1, <1>2, CountingGrows
<1>4. counters' \in Tallies /\ counters \in Tallies
  <2>1. \A n \in 0..MaxChanges : 0..n \subseteq 0..MaxChanges
    BY StatsAssumption
  <2>2. 0..changes' \subseteq 0..MaxChanges /\ 0..changes \subseteq 0..MaxChanges
    BY <1>2, <2>1 DEF Counting
  <2>3. QED
    BY <1>3, <2>2 DEF Counting, Tallies
<1>5. mark' = counters
  BY DEF Snapshot
<1>6. [by |-> by, state |-> link, counters |-> counters'] \in Snapshots
  BY <1>4 DEF Snapshots
<1>7. QED
  BY <1>1, <1>2, <1>3, <1>4, <1>5, <1>6 DEF Counting

\* A sender takes its snapshot.
LEMMA HoldingMore ==
    ASSUME Holding, NEW s \in Snapshots, held' = Append(held, s),
           \A i \in 1..Len(held) : held[i].by # s.by,
           handling' = "send" <=> s.by = "state" \/ handling = "send",
           polling' = "send" <=> s.by = "poll" \/ polling = "send"
    PROVE  Holding'
<1>1. /\ held' \in Seq(Snapshots) /\ Len(held') = Len(held) + 1 /\ Len(held) \in Nat
      /\ \A i \in 1..Len(held) : held'[i] = held[i]
      /\ held'[Len(held) + 1] = s
  BY DEF Holding
<1>2. \A i, j \in 1..Len(held') : held'[i].by = held'[j].by => i = j
  BY <1>1 DEF Holding
<1>3. \A b : (\E i \in 1..Len(held') : held'[i].by = b) <=>
                 (\E i \in 1..Len(held) : held[i].by = b) \/ s.by = b
  <2>1. ASSUME NEW b, NEW i \in 1..Len(held'), held'[i].by = b
        PROVE  (\E k \in 1..Len(held) : held[k].by = b) \/ s.by = b
    BY <1>1, <2>1
  <2>2. ASSUME NEW b, NEW i \in 1..Len(held), held[i].by = b
        PROVE  \E k \in 1..Len(held') : held'[k].by = b
    BY <1>1, <2>2
  <2>3. Len(held) + 1 \in 1..Len(held')
    BY <1>1
  <2>4. QED
    BY <1>1, <2>1, <2>2, <2>3
<1>4. QED
  BY <1>1, <1>2, <1>3 DEF Holding

\* A snapshot goes out, of the state that it was taken in, and leaves the others.
LEMMA SendTyped ==
    ASSUME Holding, Telling, NEW by \in {"state", "poll"}, SendStatistics(by)
    PROVE  \E i \in 1..Len(held) :
               /\ held[i].by = by
               /\ shown' \in [state : Links, counters : Tallies] /\ shown'.state = held[i].state
               /\ overtaken' = (overtaken \/ i # 1) /\ overtaken' \in BOOLEAN
               /\ held' \in Seq(Snapshots) /\ Len(held') = Len(held) - 1
               /\ \A k \in 1..Len(held') : held'[k] = IF k < i THEN held[k] ELSE held[k + 1]
<1>1. DOMAIN held = 1..Len(held) /\ held \in Seq(Snapshots)
  BY DEF Holding
<1>2. PICK i \in 1..Len(held) :
          /\ held[i].by = by
          /\ shown' = [state |-> held[i].state, counters |-> held[i].counters]
          /\ overtaken' = (overtaken \/ i # 1)
          /\ held' = SubSeq(held, 1, i - 1) \o SubSeq(held, i + 1, Len(held))
  BY <1>1, Zenon DEF SendStatistics
<1>3. /\ held' \in Seq(Snapshots) /\ Len(held') = Len(held) - 1
      /\ \A k \in 1..Len(held') : held'[k] = IF k < i THEN held[k] ELSE held[k + 1]
  BY <1>1, <1>2, TakenFrom, Zenon
<1>4. held[i] \in Snapshots /\ overtaken' \in BOOLEAN
  BY <1>1, <1>2 DEF Telling
<1>5. shown' \in [state : Links, counters : Tallies] /\ shown'.state = held[i].state
  BY <1>2, <1>4 DEF Snapshots
<1>6. QED
  BY <1>2, <1>3, <1>4, <1>5

\* A sender sends its snapshot and has none.
LEMMA HoldingLess ==
    ASSUME Holding, NEW i \in 1..Len(held),
           held' \in Seq(Snapshots), Len(held') = Len(held) - 1,
           \A k \in 1..Len(held') : held'[k] = IF k < i THEN held[k] ELSE held[k + 1],
           handling' = "send" <=> held[i].by # "state" /\ handling = "send",
           polling' = "send" <=> held[i].by # "poll" /\ polling = "send"
    PROVE  Holding'
<1>1. Len(held) \in Nat /\ \A j, k \in 1..Len(held) : held[j].by = held[k].by => j = k
  BY DEF Holding
<1>2. \A j, k \in 1..Len(held') : held'[j].by = held'[k].by => j = k
  <2>1. ASSUME NEW j \in 1..Len(held'), NEW k \in 1..Len(held'), held'[j].by = held'[k].by PROVE j = k
    <3> DEFINE at(n) == IF n < i THEN n ELSE n + 1
    <3>1. at(j) \in 1..Len(held) /\ at(k) \in 1..Len(held) /\ held'[j] = held[at(j)] /\ held'[k] = held[at(k)]
      BY <1>1
    <3>2. at(j) = at(k)
      BY <1>1, <2>1, <3>1
    <3>3. QED
      BY <1>1, <3>2
  <2>2. QED
    BY <2>1
<1>3. ASSUME NEW k \in 1..Len(held') PROVE \E j \in 1..Len(held) : j # i /\ held'[k] = held[j]
  BY <1>1
<1>4. ASSUME NEW j \in 1..Len(held), j # i PROVE \E k \in 1..Len(held') : held'[k] = held[j]
  <2>1. CASE j < i
    <3>1. j \in 1..Len(held') /\ held'[j] = held[j]
      BY <1>1, <2>1
    <3>2. QED
      BY <3>1
  <2>2. CASE j > i
    <3>1. j - 1 \in 1..Len(held') /\ held'[j - 1] = held[j]
      BY <1>1, <2>2
    <3>2. QED
      BY <3>1
  <2>3. QED
    BY <1>4, <2>1, <2>2
<1>5. \A b : (\E k \in 1..Len(held') : held'[k].by = b) <=>
                 (\E j \in 1..Len(held) : held[j].by = b) /\ b # held[i].by
  <2>1. ASSUME NEW b, NEW k \in 1..Len(held'), held'[k].by = b
        PROVE  (\E j \in 1..Len(held) : held[j].by = b) /\ b # held[i].by
    BY <1>1, <1>3, <2>1
  <2>2. ASSUME NEW b, b # held[i].by, NEW j \in 1..Len(held), held[j].by = b
        PROVE  \E k \in 1..Len(held') : held'[k].by = b
    BY <1>4, <2>2
  <2>3. QED
    BY <2>1, <2>2
<1>6. QED
  BY <1>2, <1>5 DEF Holding

\* The worker sets a state or counts, and has it announced if it set one.
LEMMA WorkerTells ==
    ASSUME Counting, Holding, Telling, WorkerSteps
    PROVE  /\ Counting' /\ Holding' /\ Telling'
           /\ Free /\ UNCHANGED Readers
           /\ announcing' = link' \/ UNCHANGED <<link, announcing>>
<1>1. /\ changes' = changes + 1 /\ changes \in Nat /\ changes' \in 0..MaxChanges
      /\ UNCHANGED Readers /\ Free
  BY StatsAssumption
     DEF WorkerSteps, SetConnecting, SetHandshake, SetConnected, LoseConnection,
         EndConnection, CountTraffic, Change, Counting
<1>2. \/ counters' = counters
      \/ \E f \in Fields, k \in {0, 1} : counters' = [counters EXCEPT ![f] = @ + k]
  BY DEF WorkerSteps, SetConnecting, SetHandshake, SetConnected, LoseConnection,
         EndConnection, CountTraffic, Fields
<1>3. counters' \in [Fields -> 0..changes']
  <2>1. CASE counters' = counters
    <3>1. 0..changes \subseteq 0..changes'
      BY <1>1
    <3>2. QED
      BY <2>1, <3>1 DEF Counting
  <2>2. CASE \E f \in Fields, k \in {0, 1} : counters' = [counters EXCEPT ![f] = @ + k]
    <3>1. PICK f \in Fields, k \in {0, 1} : counters' = [counters EXCEPT ![f] = @ + k]
      BY <2>2
    <3>2. changes + k <= changes'
      BY <1>1
    <3>3. QED
      BY <1>1, <3>1, <3>2, CountingGrows
  <2>3. QED
    BY <1>2, <2>1, <2>2
<1>4. /\ link' \in Links
      /\ announcing' = link' \/ UNCHANGED <<link, announcing>>
  BY DEF WorkerSteps, SetConnecting, SetHandshake, SetConnected, LoseConnection,
         EndConnection, CountTraffic, Links, Telling
<1>5. QED
  BY <1>1, <1>3, <1>4 DEF Counting, Holding, Telling, Readers

\* Every step keeps the counts, the snapshots and what is to be told.
LEMMA TellingKept ==
    Counting /\ Holding /\ Telling /\ [StatsNext]_statsVars => Counting' /\ Holding' /\ Telling'
<1> SUFFICES ASSUME Counting, Holding, Telling, [StatsNext]_statsVars
             PROVE  Counting' /\ Holding' /\ Telling'
  OBVIOUS
<1>1. CASE WorkerSteps
  BY <1>1, WorkerTells
<1>2. CASE NotifyStatus
  <2>1. announcing \in Links /\ notices \in Seq(Links) /\ NotifyCap \in Nat
    BY <1>2, StatsAssumption DEF NotifyStatus, Free, Telling
  <2>2. notices' \in Seq(Links) /\ Len(notices') <= NotifyCap
    BY <1>2, <2>1 DEF NotifyStatus
  <2>3. QED
    BY <1>2, <2>2 DEF NotifyStatus, Rest, Counting, Holding, Telling
<1>3. CASE TellChange
  <2>1. notices # <<>> /\ notices \in Seq(Links) /\ notices' = Tail(notices) /\ NotifyCap \in Nat
    BY <1>3, StatsAssumption DEF TellChange, Telling
  <2>2. Head(notices) \in Links /\ notices' \in Seq(Links) /\ Len(notices') = Len(notices) - 1
    BY <2>1, HeadTailProperties
  <2>3. Len(notices') <= NotifyCap
    BY <2>1, <2>2 DEF Telling
  <2>4. QED
    BY <1>3, <2>2, <2>3 DEF TellChange, Worker, Rest, Counting, Holding, Telling
<1>4. CASE MarkChange
  <2>1. /\ handling = "changed" /\ handling' = "send" /\ Snapshot("state")
        /\ UNCHANGED <<link, announcing, notices, polling, heard, shown, overtaken>>
    BY <1>4 DEF MarkChange, Worker
  <2>2. PICK s \in Snapshots : s.by = "state" /\ held' = Append(held, s)
    BY <2>1, SnapshotTyped DEF Telling
  <2>3. Counting'
    BY <2>1, SnapshotTyped DEF Telling
  <2>4. Holding'
    <3>1. \A i \in 1..Len(held) : held[i].by # s.by
      BY <2>1, <2>2 DEF Holding
    <3>2. QED
      BY <2>1, <2>2, <3>1, HoldingMore
  <2>5. QED
    BY <2>1, <2>3, <2>4 DEF Telling
<1>5. CASE SendChange \/ SendPeriodic
  <2> DEFINE by == IF SendChange THEN "state" ELSE "poll"
  <2>1. /\ SendStatistics(by)
        /\ UNCHANGED <<link, announcing, notices, heard, counters, changes, mark>>
        /\ handling' = IF by = "state" THEN "recv" ELSE handling
        /\ polling' = IF by = "poll" THEN "asleep" ELSE polling
        /\ by \in {"state", "poll"}
    BY <1>5 DEF SendChange, SendPeriodic, Worker, Rest
  <2> HIDE DEF by
  <2>2. PICK i \in 1..Len(held) :
            /\ held[i].by = by
            /\ shown' \in [state : Links, counters : Tallies]
            /\ overtaken' \in BOOLEAN
            /\ held' \in Seq(Snapshots) /\ Len(held') = Len(held) - 1
            /\ \A k \in 1..Len(held') : held'[k] = IF k < i THEN held[k] ELSE held[k + 1]
    BY <2>1, SendTyped
  <2>3. /\ handling' = "send" <=> held[i].by # "state" /\ handling = "send"
        /\ polling' = "send" <=> held[i].by # "poll" /\ polling = "send"
    BY <2>1, <2>2
  <2>4. Holding'
    BY <2>2, <2>3, HoldingLess
  <2>5. QED
    BY <2>1, <2>2, <2>4 DEF Counting, Telling
<1>6. CASE BeginTurn
  BY <1>6 DEF BeginTurn, Worker, Rest, Counting, Holding, Telling
<1>7. CASE CheckStatistics
  <2>1. /\ UNCHANGED <<link, announcing, notices, handling, heard, shown, overtaken>>
        /\ polling = "check"
        /\ \/ polling' = "send" /\ Snapshot("poll")
           \/ polling' = "asleep" /\ UNCHANGED <<counters, changes, mark, held>>
    BY <1>7 DEF CheckStatistics, Worker
  <2>2. CASE polling' = "send" /\ Snapshot("poll")
    <3>1. PICK s \in Snapshots : s.by = "poll" /\ held' = Append(held, s)
      BY <2>2, SnapshotTyped DEF Telling
    <3>2. Counting'
      BY <2>2, SnapshotTyped DEF Telling
    <3>3. \A i \in 1..Len(held) : held[i].by # s.by
      BY <2>1, <3>1 DEF Holding
    <3>4. Holding'
      BY <2>1, <2>2, <3>1, <3>3, HoldingMore
    <3>5. QED
      BY <2>1, <2>2, <3>2, <3>4 DEF Telling
  <2>3. CASE polling' = "asleep" /\ UNCHANGED <<counters, changes, mark, held>>
    BY <2>1, <2>3 DEF Counting, Holding, Telling
  <2>4. QED
    BY <2>1, <2>2, <2>3
<1>8. CASE ResetStatistics
  <2>1. /\ changes' \in 0..MaxChanges /\ counters' = Zero /\ mark' = Zero
        /\ shown' = [shown EXCEPT !.counters = Zero]
        /\ overtaken' = (overtaken \/ held # <<>>)
        /\ UNCHANGED <<link, announcing, notices, handling, polling, held, heard>>
    BY <1>8, StatsAssumption DEF ResetStatistics, Change, Counting
  <2>2. counters' \in [Fields -> 0..changes'] /\ mark' \in Tallies /\ Zero \in Tallies
    BY <2>1, ZeroTallies, StatsAssumption DEF Tallies
  <2>3. shown' \in [state : Links, counters : Tallies]
    BY <2>1, <2>2 DEF Telling
  <2>4. QED
    BY <2>1, <2>2, <2>3 DEF Counting, Holding, Telling
<1>9. CASE MinutePasses
  BY <1>9 DEF MinutePasses, Worker, Readers, Counting, Holding, Telling
<1>10. CASE UNCHANGED statsVars
  BY <1>10 DEF statsVars, Counting, Holding, Telling
<1>11. QED
  BY <1>1, <1>2, <1>3, <1>4, <1>5, <1>6, <1>7, <1>8, <1>9, <1>10
     DEF StatsNext, StateWorkerSteps, PollingSteps

-----------------------------------------------------------------------------
(* The events. *)

\* The last of a sequence stays the last when the head goes, and an appended one is it.
LEMMA LastStays ==
    ASSUME NEW S, NEW s \in Seq(S)
    PROVE  /\ s # <<>> /\ Len(s) # 1 => Tail(s) # <<>> /\ Tail(s)[Len(Tail(s))] = s[Len(s)]
           /\ Len(s) = 1 => Tail(s) = <<>> /\ Head(s) = s[Len(s)]
           /\ \A x \in S : Append(s, x) # <<>> /\ Append(s, x)[Len(Append(s, x))] = x
<1>1. Len(s) \in Nat /\ (s = <<>> <=> Len(s) = 0)
  BY EmptySeq
<1>2. ASSUME s # <<>> PROVE /\ Len(Tail(s)) = Len(s) - 1 /\ Tail(s) \in Seq(S)
                            /\ \A i \in 1..Len(Tail(s)) : Tail(s)[i] = s[i + 1]
  BY <1>2, HeadTailProperties
<1>3. ASSUME s # <<>>, Len(s) # 1 PROVE Tail(s) # <<>> /\ Tail(s)[Len(Tail(s))] = s[Len(s)]
  <2>1. Len(Tail(s)) \in 1..Len(Tail(s)) /\ Len(Tail(s)) + 1 = Len(s)
    BY <1>1, <1>2, <1>3, SMTT(30)
  <2>2. QED
    BY <1>2, <1>3, <2>1, EmptySeq
<1>4. ASSUME Len(s) = 1 PROVE Tail(s) = <<>> /\ Head(s) = s[Len(s)]
  <2>1. Len(Tail(s)) = 0 /\ Tail(s) \in Seq(S)
    BY <1>1, <1>2, <1>4
  <2>2. Tail(s) = <<>>
    BY <2>1, EmptySeq
  <2>3. QED
    BY <1>4, <2>2
<1>5. ASSUME NEW x \in S PROVE Append(s, x) # <<>> /\ Append(s, x)[Len(Append(s, x))] = x
  <2>1. Len(Append(s, x)) = Len(s) + 1 /\ Append(s, x)[Len(s) + 1] = x
    OBVIOUS
  <2>2. QED
    BY <1>1, <2>1
<1>6. QED
  BY <1>3, <1>4, <1>5

\* The events show the initial state.
LEMMA InitCatchingUp == StatsInit => CatchingUp
  BY DEF StatsInit, CatchingUp, LastHeard, LastShown, Free

\* Every step keeps the state of the link where it will be told last.
LEMMA CatchingUpKept == Holding /\ Telling /\ Counting /\ CatchingUp /\ [StatsNext]_statsVars => CatchingUp'
<1> SUFFICES ASSUME Holding, Telling, Counting, CatchingUp, [StatsNext]_statsVars
             PROVE  CatchingUp'
  OBVIOUS
<1>1. CASE WorkerSteps
  <2>1. /\ (Free /\ announcing' = link') \/ UNCHANGED <<link, announcing>>
        /\ UNCHANGED <<notices, handling, held, heard, shown, overtaken>>
        /\ link' \in Links
    BY <1>1, WorkerTells DEF Readers, Telling
  <2>2. CASE announcing' = link'
    <3>1. ~Free'
      BY <2>1, <2>2 DEF Free, Links
    <3>2. QED
      BY <2>2, <3>1 DEF CatchingUp
  <2>3. CASE UNCHANGED <<link, announcing>>
    BY <2>1, <2>3 DEF CatchingUp, Free, LastHeard, LastShown
  <2>4. QED
    BY <2>1, <2>2, <2>3
<1>2. CASE NotifyStatus
  <2>1. announcing \in Links /\ notices \in Seq(Links) /\ announcing = link
    BY <1>2 DEF NotifyStatus, Free, Telling, CatchingUp
  <2>2. notices' # <<>> /\ notices'[Len(notices')] = link /\ link' = link /\ Free'
    BY <1>2, <2>1, LastStays DEF NotifyStatus, Free
  <2>3. QED
    BY <2>2 DEF CatchingUp, LastHeard
<1>3. CASE TellChange
  <2>1. /\ notices # <<>> /\ notices \in Seq(Links) /\ notices' = Tail(notices)
        /\ heard' = Head(notices) /\ handling' = "changed"
        /\ UNCHANGED <<link, announcing>>
    BY <1>3 DEF TellChange, Telling, Worker
  <2>2. LastHeard' = LastHeard
    <3>1. CASE Len(notices) = 1
      BY <2>1, <3>1, LastStays DEF LastHeard
    <3>2. CASE Len(notices) # 1
      BY <2>1, <3>2, LastStays DEF LastHeard
    <3>3. QED
      BY <3>1, <3>2
  <2>3. QED
    BY <2>1, <2>2 DEF CatchingUp, Free
<1>4. CASE MarkChange \/ CheckStatistics
  <2>1. /\ UNCHANGED <<link, announcing, notices, heard, shown, overtaken>>
        /\ \/ \E by \in {"state", "poll"} : Snapshot(by)
           \/ UNCHANGED <<held, handling>>
    BY <1>4 DEF MarkChange, CheckStatistics, Worker
  <2>2. LastHeard' = LastHeard
    BY <2>1 DEF LastHeard
  <2>3. CASE \E by \in {"state", "poll"} : Snapshot(by)
    <3>1. PICK s \in Snapshots : s.state = link /\ held' = Append(held, s)
      BY <2>3, SnapshotTyped DEF Telling
    <3>2. LastShown' = link
      BY <3>1, LastStays DEF Holding, LastShown
    <3>3. QED
      BY <2>1, <2>2, <3>2 DEF CatchingUp, Free
  <2>4. CASE UNCHANGED <<held, handling>>
    BY <2>1, <2>4 DEF CatchingUp, Free, LastHeard, LastShown
  <2>5. QED
    BY <2>1, <2>3, <2>4
<1>5. CASE SendChange \/ SendPeriodic
  <2>1. PICK by \in {"state", "poll"} : SendStatistics(by)
    BY <1>5 DEF SendChange, SendPeriodic
  <2>2. /\ UNCHANGED <<link, announcing, notices, heard>>
        /\ handling' # "changed" => handling # "changed"
    BY <1>5 DEF SendChange, SendPeriodic, Worker
  <2>3. PICK i \in 1..Len(held) :
            /\ shown'.state = held[i].state
            /\ overtaken' = (overtaken \/ i # 1)
            /\ held' \in Seq(Snapshots) /\ Len(held') = Len(held) - 1
            /\ \A k \in 1..Len(held') : held'[k] = IF k < i THEN held[k] ELSE held[k + 1]
    BY <2>1, SendTyped
  <2>4. ASSUME ~overtaken' PROVE ~overtaken /\ LastShown' = LastShown
    <3>1. ~overtaken /\ i = 1
      BY <2>3, <2>4, Zenon
    <3>2. held # <<>> /\ Len(held) \in Nat
      BY <2>3, EmptySeq DEF Holding
    <3>3. CASE Len(held) = 1
      <4>1. held' = <<>>
        BY <2>3, <3>3, EmptySeq
      <4>2. QED
        BY <2>3, <3>1, <3>2, <3>3, <4>1 DEF LastShown
    <3>4. CASE Len(held) # 1
      <4>1. Len(held') \in 1..Len(held') /\ Len(held') + 1 = Len(held) /\ held' # <<>>
        BY <2>3, <3>1, <3>2, <3>4
      <4>2. held'[Len(held')] = held[Len(held)]
        BY <2>3, <3>1, <3>2, <4>1
      <4>3. QED
        BY <3>1, <3>2, <4>1, <4>2 DEF LastShown
    <3>5. QED
      BY <3>1, <3>2, <3>3, <3>4
  <2>5. QED
    BY <2>2, <2>4 DEF CatchingUp, Free, LastHeard
<1>6. CASE ResetStatistics
  <2>1. /\ shown' = [shown EXCEPT !.counters = Zero]
        /\ overtaken' = (overtaken \/ held # <<>>)
        /\ UNCHANGED <<link, announcing, notices, handling, polling, held, heard>>
    BY <1>6 DEF ResetStatistics
  <2>2. shown'.state = shown.state
    BY <2>1 DEF Telling
  <2>3. ~overtaken' => ~overtaken
    BY <2>1 DEF Telling
  <2>4. QED
    BY <2>1, <2>2, <2>3 DEF CatchingUp, Free, LastHeard, LastShown
<1>7. CASE UNCHANGED <<link, announcing, notices, handling, held, heard, shown, overtaken>>
  BY <1>7 DEF CatchingUp, Free, LastHeard, LastShown
<1>8. QED
  BY <1>1, <1>2, <1>3, <1>4, <1>5, <1>6, <1>7
     DEF StatsNext, StateWorkerSteps, PollingSteps, BeginTurn, MinutePasses, statsVars,
         Worker, Readers

\* A snapshot is held by one of the two.
LEMMA HeldBy == Holding => \A i \in 1..Len(held) : held[i].by \in {"state", "poll"}
<1> SUFFICES ASSUME Holding, NEW i \in 1..Len(held) PROVE held[i].by \in {"state", "poll"}
  OBVIOUS
<1>1. held[i] \in Snapshots
  BY DEF Holding
<1>2. QED
  BY <1>1 DEF Snapshots

\* In every reachable state.
LEMMA StatsAlwaysInv == StatsSpec => []StatsInv
<1>1. StatsInit => StatsInv
  BY InitSession, InitTelling, InitCatchingUp DEF StatsInv
<1>2. StatsInv /\ [StatsNext]_statsVars => StatsInv'
  BY SessionKept, TellingKept, CatchingUpKept DEF StatsInv
<1>3. QED
  BY <1>1, <1>2, PTL DEF StatsSpec

\* Once the notices are handled the last ConnectionChanged and the last statistics show
\* the state of the connection, however far behind the state worker was, unless a
\* snapshot was sent after a later one (auto_requester.rs:35-49).
THEOREM EventsAlwaysCatchUp == StatsSpec => []EventsCatchUp
<1>1. StatsInv => EventsCatchUp
  <2> SUFFICES ASSUME StatsInv, Settled PROVE heard = link /\ (overtaken \/ shown.state = link)
    BY DEF EventsCatchUp
  <2>1. held = <<>>
    <3>1. \A i \in 1..Len(held) : held[i].by \in {"state", "poll"}
      BY HeldBy DEF StatsInv
    <3>2. \A i \in 1..Len(held) : FALSE
      BY <3>1 DEF StatsInv, Settled, Holding
    <3>3. QED
      BY <3>2, EmptySeq DEF StatsInv, Holding
  <2>2. QED
    BY <2>1 DEF StatsInv, Settled, CatchingUp, LastHeard, LastShown, Telling
<1>2. QED
  BY <1>1, StatsAlwaysInv, PTL

\* Every variable keeps its type, no count exceeds the number of changes, and a snapshot
\* is held exactly while its sender is to send it (polling_worker.rs:188-209).
THEOREM StatsTyped == StatsSpec => []StatsTypeOK
<1>1. StatsInv => StatsTypeOK
  <2> SUFFICES ASSUME StatsInv PROVE StatsTypeOK
    OBVIOUS
  <2>1. DOMAIN Zero = Fields
    BY DEF Zero, Fields
  <2>2. counters \in Tallies
    <3>1. 0..changes \subseteq 0..MaxChanges
      BY StatsAssumption DEF StatsInv, Counting
    <3>2. QED
      BY <3>1 DEF StatsInv, Counting, Tallies
  <2>3. DOMAIN held = 1..Len(held)
    BY DEF StatsInv, Holding
  <2>4. {held[i].by : i \in 1..Len(held)} =
            (IF handling = "send" THEN {"state"} ELSE {}) \cup (IF polling = "send" THEN {"poll"} ELSE {})
    <3>1. \A i \in 1..Len(held) : held[i].by \in {"state", "poll"}
      BY HeldBy DEF StatsInv
    <3>2. QED
      BY <3>1 DEF StatsInv, Holding
  <2>5. 0..minute \subseteq 0..MaxClock /\ minute \in 0..MaxClock
    BY StatsAssumption DEF StatsInv, Session
  <2>6. QED
    BY <2>1, <2>2, <2>3, <2>4, <2>5
       DEF StatsInv, Counting, Telling, Session, StatsTypeOK, Tallies
<1>2. QED
  BY <1>1, StatsAlwaysInv, PTL

================================================================================
