---------------------------- MODULE MCBackground ----------------------------
(***************************************************************************)
(* Four parts of the crate that share no state, checked side by side: a    *)
(* behaviour takes the steps of one part, chosen at the start.             *)
(***************************************************************************)
EXTENDS ProbePolling, Statistics, SatelCodec, EncryptedStream, TLC

CONSTANTS poller, c1

VARIABLE part

vars == <<part, probesVars, statsVars, codecVars, streamVars>>

-----------------------------------------------------------------------------
(* Values. *)

\* The first probe tolerates one timeout and no error of its sensor, and is tried
\* again after two cycles; the second only keeps the polling worker busy.
MCLimits ==
    1 :> [max_timeout_errors |-> 2, max_sensor_errors |-> 1, unblock_enabled |-> TRUE,
          unblock_after_cycles |-> 2, interval |-> 1]
    @@ 2 :> [max_timeout_errors |-> 1, max_sensor_errors |-> 1, unblock_enabled |-> FALSE,
             unblock_after_cycles |-> 2, interval |-> 1]

SecondProbeFine == \A z \in Probes \ {1} : health[z] = "fine"

SecondProbeForPoller ==
    \A z \in Probes \ {1} :
        /\ probe'[z] # probe[z] => read[Poller].zone = z
        /\ \A c \in Callers : read'[c].zone # z
        /\ probe'[z].timeouts = 0

\* A plain frame, one full of bytes to stuff, one that starts like the end marker.
MCPayloads == {<<126>>, <<254, 240, 254>>, <<9, 254>>, <<13>>}

\* Padding of an encrypted packet, and a stray STUFF.
MCJunk == {<<0, 0>>, <<240>>}

Frame(p)  == [is |-> "frame", data |-> p, cut |-> 0]
Cut(p, n) == [is |-> "cut", data |-> p, cut |-> n]
Noise(j)  == [is |-> "junk", data |-> j, cut |-> 0]

\* A plain frame before, between or after any two pieces.
MCSegments ==
    LET some == {Frame(p) : p \in MCPayloads} \cup {Noise(j) : j \in MCJunk}
                    \cup {Cut(<<9, 254>>, n) : n \in {1, 2, 4}}
        last == Frame(<<126>>)
    IN  {<<p, last, q>> : p, q \in some} \cup {<<p, q, last>> : p, q \in some}

\* Whole frames alone.
MCWholeFrames == {<<Frame(p), Frame(q)>> : p, q \in MCPayloads}

\* Packets with and without plaintext, and with none at all.
MCIncoming == {<<3, 0, 4>>, <<1, 4>>, <<3, 3>>}

-----------------------------------------------------------------------------
(* The parts. *)

Init ==
    /\ part \in {"probes", "statistics", "codec", "stream"}
    /\ ProbesInit /\ SecondProbeFine
    /\ part # "probes" => health[1] = "missing"
    /\ StatsInit
    /\ IF part = "codec" THEN CodecInit
       ELSE pieces = <<>> /\ line = <<>> /\ src = <<>> /\ decoding = FALSE /\ decoded = <<>> /\ crc_errors = 0
    /\ StreamInit
    /\ part # "stream" => incoming = CHOOSE p \in Incoming : TRUE

ProbesPart ==
    /\ part = "probes" /\ ProbesNext /\ SecondProbeFine' /\ SecondProbeForPoller
    /\ UNCHANGED <<part, statsVars, codecVars, streamVars>>

StatisticsPart ==
    /\ part = "statistics" /\ StatsNext
    /\ UNCHANGED <<part, probesVars, codecVars, streamVars>>

CodecPart ==
    /\ part = "codec" /\ CodecNext
    /\ UNCHANGED <<part, probesVars, statsVars, streamVars>>

StreamPart ==
    /\ part = "stream" /\ StreamNext
    /\ UNCHANGED <<part, probesVars, statsVars, codecVars>>

Next == ProbesPart \/ StatisticsPart \/ CodecPart \/ StreamPart

\* ProbesFairness and StatsFairness, each for its part.
Fairness ==
    /\ \A t \in Tasks : WF_probesVars(part = "probes" /\ ReadSteps(t))
    /\ WF_probesVars(part = "probes" /\ StartCycle)
    /\ WF_probesVars(part = "probes" /\ PollNext)
    /\ WF_probesVars(part = "probes" /\ Minute)
    /\ WF_probesVars(part = "probes" /\ ~connected /\ ConnectionFlips)
    /\ WF_statsVars(part = "statistics" /\ NotifyStatus)
    /\ WF_statsVars(part = "statistics" /\ StateWorkerSteps)
    /\ WF_statsVars(part = "statistics" /\ BeginTurn)
    /\ WF_statsVars(part = "statistics" /\ (CheckStatistics \/ SendPeriodic))

Spec == Init /\ [][Next]_vars /\ Fairness

-----------------------------------------------------------------------------
\* The type invariants of the parts with richer state: src/state.rs:26-42 and 300-320.
BackgroundTypeOK == ProbesTypeOK /\ StatsTypeOK

=============================================================================
