------------------------------ MODULE Statistics ------------------------------
(***************************************************************************)
(* The telemetry of the connection (src/state.rs) and the statistics       *)
(* events made of it.                                                      *)
(*                                                                         *)
(* The communication worker counts and changes the state under the state   *)
(* lock, then notifies the state worker, which sends ConnectionChanged and *)
(* a snapshot (src/auto_requester.rs:35).  While connected, the polling    *)
(* worker sends one when enough has changed since the last                 *)
(* (src/polling_worker.rs:188).  Both take the snapshot under the lock and *)
(* send it after releasing it: held is what lies in between.               *)
(***************************************************************************)
EXTENDS Integers, Sequences

CONSTANTS
    MinFrames,   \* STATS_MIN_NON_PING_FRAMES, 5
    NotifyCap,   \* capacity of the state worker's queue
    MaxChanges,  \* bound: state changes, counts and resets
    MaxClock     \* bound: minutes

ASSUME StatsAssumption == /\ MinFrames \in Nat \ {0} /\ NotifyCap \in Nat \ {0}
                          /\ MaxChanges \in Nat /\ MaxClock \in Nat

Links == {"Disconnected", "ConnectionLost", "Connecting", "Handshake", "Connected"}
Never == -1

VARIABLES
    link,                    \* telemetry.status.state
    connected_since,
    total_connected_before,
    counters,                \* frames (non-ping), established, lost, and errors: the
                             \* timeouts, CRC and I/O errors, refusals and reconnects
    mark,                    \* last_sent_stats_mark
    announcing,              \* the notification the worker awaits a place for
    notices,                 \* the state worker's queue
    handling,                \* what the state worker is doing
    polling,                 \* what the polling worker is doing
    held,                    \* snapshots taken and not yet sent, in the order taken
    heard,                   \* the last ConnectionChanged event
    shown,                   \* the last ConnectionStatistics event
    minute,
    changes,
    uptime,                  \* history: minutes connected since the last reset
    overtaken                \* history: a snapshot was sent after a later one

statsVars == <<link, connected_since, total_connected_before, counters, mark, announcing,
               notices, handling, polling, held, heard, shown, minute, changes, uptime, overtaken>>

Zero == [frames |-> 0, established |-> 0, lost |-> 0, errors |-> 0]

StatsInit ==
    /\ link = "Disconnected"
    /\ connected_since = Never /\ total_connected_before = 0
    /\ counters = Zero /\ mark = Zero
    /\ announcing = "none" /\ notices = <<>>
    /\ handling = "recv" /\ polling = "asleep"
    /\ held = <<>>
    /\ heard = "Disconnected"
    /\ shown = [state |-> "Disconnected", counters |-> Zero]
    /\ minute = 0 /\ changes = 0 /\ uptime = 0
    /\ overtaken = FALSE

Clocks  == <<minute, uptime>>
Rest    == <<minute, uptime, changes>>
Readers == <<notices, handling, polling, held, heard, shown, overtaken, mark>>

\* statistics_changed.
StatisticsChanged(prev, now) ==
    \/ now.frames - prev.frames >= MinFrames
    \/ now.established # prev.established
    \/ now.lost # prev.lost
    \/ now.errors # prev.errors

Session0(since) == IF since = Never THEN 0 ELSE minute - since

-----------------------------------------------------------------------------
(* The communication worker: a state set under the lock, then the notice.  *)

Free == announcing = "none"

Change == changes < MaxChanges /\ changes' = changes + 1

SetConnecting ==
    /\ Free /\ Change /\ link \in {"Disconnected", "ConnectionLost"}
    /\ link' = "Connecting" /\ announcing' = "Connecting"
    /\ \E attempt \in IF link = "ConnectionLost" THEN {0, 1} ELSE {0} :
         counters' = [counters EXCEPT !.errors = @ + attempt]
    /\ UNCHANGED <<connected_since, total_connected_before, Clocks, Readers>>

SetHandshake ==
    /\ Free /\ Change /\ link = "Connecting"
    /\ link' = "Handshake" /\ announcing' = "Handshake"
    /\ UNCHANGED <<connected_since, total_connected_before, counters, Clocks, Readers>>

SetConnected ==
    /\ Free /\ Change /\ link = "Handshake"
    /\ counters' = [counters EXCEPT !.established = @ + 1]
    /\ connected_since' = minute
    /\ link' = "Connected" /\ announcing' = "Connected"
    /\ UNCHANGED <<total_connected_before, Clocks, Readers>>

\* Slip: the time of the session is not added up.
ForgetSession ==
    /\ Free /\ Change /\ link \in {"Connecting", "Handshake", "Connected"}
    /\ connected_since' = Never
    /\ counters' = [counters EXCEPT !.lost = IF link = "Connected" THEN @ + 1 ELSE @]
    /\ link' = "ConnectionLost" /\ announcing' = "ConnectionLost"
    /\ UNCHANGED <<total_connected_before, Clocks, Readers>>

\* Slip: the loss is counted and not announced.
LoseQuietly ==
    /\ Free /\ Change /\ link \in {"Connecting", "Handshake", "Connected"}
    /\ IF link = "Connected"
       THEN /\ total_connected_before' = total_connected_before + Session0(connected_since)
            /\ connected_since' = Never
            /\ counters' = [counters EXCEPT !.lost = @ + 1]
       ELSE UNCHANGED <<total_connected_before, connected_since, counters>>
    /\ link' = "ConnectionLost"
    /\ UNCHANGED <<announcing, Clocks, Readers>>

LoseConnection ==
    /\ Free /\ Change /\ link \in {"Connecting", "Handshake", "Connected"}
    /\ IF link = "Connected"
       THEN /\ total_connected_before' = total_connected_before + Session0(connected_since)
            /\ connected_since' = Never
            /\ counters' = [counters EXCEPT !.lost = @ + 1]
       ELSE UNCHANGED <<total_connected_before, connected_since, counters>>
    /\ link' = "ConnectionLost" /\ announcing' = "ConnectionLost"
    /\ UNCHANGED <<Clocks, Readers>>

EndConnection ==
    /\ Free /\ Change /\ link # "Disconnected"
    /\ total_connected_before' = total_connected_before + Session0(connected_since)
    /\ connected_since' = Never
    /\ link' = "Disconnected" /\ announcing' = "Disconnected"
    /\ UNCHANGED <<counters, Clocks, Readers>>

\* A frame written or read that is no ping, or an error of one of the kinds.
CountTraffic ==
    /\ Free /\ Change /\ link \in {"Handshake", "Connected"}
    /\ \E field \in {"frames", "errors"} :
         counters' = [counters EXCEPT ![field] = @ + 1]
    /\ UNCHANGED <<link, announcing, connected_since, total_connected_before, Clocks, Readers>>

NotifyStatus ==
    /\ ~Free /\ Len(notices) < NotifyCap
    /\ notices' = Append(notices, announcing)
    /\ announcing' = "none"
    /\ UNCHANGED <<link, connected_since, total_connected_before, counters, Rest, mark,
                   handling, polling, held, heard, shown, overtaken>>

-----------------------------------------------------------------------------
(* Snapshots and events. *)

Worker == <<link, connected_since, total_connected_before, announcing>>

\* The mark and then the statistics, under the write lock; the codec counts a CRC
\* error without it, perhaps in between.
Snapshot(by) ==
    /\ mark' = counters
    /\ \E crc \in {0, 1} :
         /\ crc = 1 => link = "Connected"
         /\ changes + crc <= MaxChanges /\ changes' = changes + crc
         /\ counters' = [counters EXCEPT !.errors = @ + crc]
    /\ held' = Append(held, [by |-> by, state |-> link, counters |-> counters'])

\* What is held by the sender goes out, though a later snapshot may have gone before.
SendStatistics(by) ==
    \E i \in DOMAIN held :
        /\ held[i].by = by
        /\ shown' = [state |-> held[i].state, counters |-> held[i].counters]
        /\ overtaken' = (overtaken \/ i # 1)
        /\ held' = SubSeq(held, 1, i - 1) \o SubSeq(held, i + 1, Len(held))

\* StatusChanged, at the state worker: ConnectionChanged is sent, and then the
\* statistics of the moment.
TellChange ==
    /\ handling = "recv" /\ notices # <<>>
    /\ heard' = Head(notices)
    /\ notices' = Tail(notices)
    /\ handling' = "changed"
    /\ UNCHANGED <<Worker, Rest, counters, mark, polling, held, shown, overtaken>>

MarkChange ==
    /\ handling = "changed" /\ handling' = "send"
    /\ Snapshot("state")
    /\ UNCHANGED <<Worker, Clocks, notices, polling, heard, shown, overtaken>>

SendChange ==
    /\ handling = "send" /\ handling' = "recv"
    /\ SendStatistics("state")
    /\ UNCHANGED <<Worker, Rest, counters, mark, notices, polling, heard>>

\* A turn of the polling worker that finds the connection up, and 30 s gone by.
BeginTurn ==
    /\ polling = "asleep" /\ link = "Connected"
    /\ polling' = "check"
    /\ UNCHANGED <<Worker, Rest, counters, mark, notices, handling, held, heard, shown, overtaken>>

\* Slip: the mark follows the counters although nothing is sent.
MarkAlways ==
    /\ polling = "check"
    /\ IF StatisticsChanged(mark, counters)
       THEN polling' = "send" /\ Snapshot("poll")
       ELSE polling' = "asleep" /\ mark' = counters /\ UNCHANGED <<counters, changes, held>>
    /\ UNCHANGED <<Worker, Clocks, notices, handling, heard, shown, overtaken>>

CheckStatistics ==
    /\ polling = "check"
    /\ IF StatisticsChanged(mark, counters)
       THEN polling' = "send" /\ Snapshot("poll")
       ELSE polling' = "asleep" /\ UNCHANGED <<counters, changes, mark, held>>
    /\ UNCHANGED <<Worker, Clocks, notices, handling, heard, shown, overtaken>>

\* Slip: the turn is not over, though what it had to send is sent.
SendAndStay ==
    /\ polling = "send"
    /\ SendStatistics("poll")
    /\ UNCHANGED <<Worker, Rest, counters, mark, notices, handling, heard, polling>>

SendPeriodic ==
    /\ polling = "send" /\ polling' = "asleep"
    /\ SendStatistics("poll")
    /\ UNCHANGED <<Worker, Rest, counters, mark, notices, handling, heard>>

\* reset_statistics.  Whoever called it takes the counters for zero: shown.
ResetStatistics ==
    /\ Change
    /\ counters' = Zero /\ mark' = Zero
    /\ total_connected_before' = 0
    /\ connected_since' = IF link = "Connected" THEN minute ELSE Never
    /\ uptime' = 0
    /\ shown' = [shown EXCEPT !.counters = Zero]
    /\ overtaken' = (overtaken \/ held # <<>>)
    /\ UNCHANGED <<link, announcing, minute, notices, handling, polling, held, heard>>

MinutePasses ==
    /\ minute < MaxClock /\ minute' = minute + 1
    /\ uptime' = IF link = "Connected" THEN uptime + 1 ELSE uptime
    /\ UNCHANGED <<Worker, changes, counters, Readers>>

WorkerSteps ==
    \/ SetConnecting \/ SetHandshake \/ SetConnected
    \/ LoseConnection \/ EndConnection \/ CountTraffic

StateWorkerSteps == TellChange \/ MarkChange \/ SendChange

PollingSteps == BeginTurn \/ CheckStatistics \/ SendPeriodic

StatsNext ==
    \/ WorkerSteps \/ NotifyStatus
    \/ StateWorkerSteps \/ PollingSteps
    \/ ResetStatistics \/ MinutePasses

StatsSpec == StatsInit /\ [][StatsNext]_statsVars

\* The state worker and the polling worker run; nothing is asked of the connection.
StatsFairness ==
    /\ WF_statsVars(NotifyStatus) /\ WF_statsVars(StateWorkerSteps)
    /\ WF_statsVars(BeginTurn) /\ WF_statsVars(CheckStatistics \/ SendPeriodic)

-----------------------------------------------------------------------------
(* Properties. *)

\* Every variable keeps its type; a snapshot is held exactly while one is to be sent.
StatsTypeOK ==
    LET Counters == [DOMAIN Zero -> 0..MaxChanges] IN
    /\ link \in Links /\ heard \in Links
    /\ connected_since \in 0..MaxClock \cup {Never}
    /\ total_connected_before \in Nat
    /\ counters \in Counters /\ mark \in Counters
    /\ announcing \in Links \cup {"none"}
    /\ notices \in Seq(Links) /\ Len(notices) <= NotifyCap
    /\ handling \in {"recv", "changed", "send"}
    /\ polling \in {"asleep", "check", "send"}
    /\ {held[i].by : i \in DOMAIN held} =
           (IF handling = "send" THEN {"state"} ELSE {}) \cup (IF polling = "send" THEN {"poll"} ELSE {})
    /\ shown \in [state : Links, counters : Counters]
    /\ minute \in 0..MaxClock /\ changes \in 0..MaxChanges /\ uptime \in 0..MaxClock
    /\ overtaken \in BOOLEAN

\* total_connected of a snapshot (state.rs:180-191) is the time connected since the
\* last reset, across losses, disconnects and resets in any order.
UptimeExact ==
    total_connected_before + (IF link = "Connected" THEN Session0(connected_since) ELSE 0) = uptime

Settled == Free /\ notices = <<>> /\ handling = "recv" /\ polling # "send"

\* Once the notices are handled the last ConnectionChanged and the last statistics
\* (auto_requester.rs:35-49) show the state of the connection, however far behind the
\* state worker was: unless a snapshot was sent after a later one.
EventsCatchUp ==
    Settled => heard = link /\ (overtaken \/ shown.state = link)

\* While the connection lasts, what has changed enough since the last statistics
\* event is told in the end (polling_worker.rs:188-209).
ChangesTold ==
    (link = "Connected" /\ StatisticsChanged(shown.counters, counters))
        ~> (link # "Connected" \/ overtaken \/ ~StatisticsChanged(shown.counters, counters))

=============================================================================
