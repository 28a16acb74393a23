----------------------------- MODULE SatelWorker -----------------------------
(***************************************************************************)
(* The communication worker of the satel_integra crate (src/worker.rs) and *)
(* the client calls that reach it (src/client.rs): one actor owns the      *)
(* stream to the panel, takes requests from a bounded channel, connects    *)
(* and reconnects, keeps the session alive with pings and re-sends the     *)
(* push mask after a hot reload.                                           *)
(*                                                                         *)
(* One action is one stretch of the worker between two awaits on the       *)
(* stream; every await is a value of phase, so client calls interleave     *)
(* exactly where the code lets them.  Time is counted in ticks of the      *)
(* worker's one-second interval; its default Burst behaviour makes up for  *)
(* the ticks an await held back, which lag counts.  Frames are abstracted  *)
(* to what their arrival does to this state, without their bytes.          *)
(***************************************************************************)
EXTENDS Naturals, Sequences

CONSTANTS
    Clients,         \* tasks holding a SatelIntegra handle
    NoClient,        \* nobody awaits the worker's current operation
    Requests,        \* the calls the clients make, a subset of AllRequests
    Masks,           \* the auto_read_* selections a configuration may hold
    NoMask,          \* the selection with no category enabled
    Refused,         \* the panel answered the last mask with an error code
    Reconnects,      \* the auto_reconnect values a configuration may hold
    QueueCapacity,   \* slots of the request channel (100)
    MaxMissedPings,  \* max_missed_pings (3); 0 disables the detection
    PingIdleSecs,    \* silence of the sender before a ping is due (2)
    ReadTimeoutSecs, \* read_timeout_ms in seconds (2); write_timeout_ms is less
    WatchdogSecs,    \* limit on Connecting and Handshake (15)
    BackoffBaseMs,   \* first backoff (500)
    BackoffMaxExp,   \* doublings of the backoff (7)
    BackoffCapMs,    \* largest backoff (60000)
    EventAgeCap,     \* bound of since_event: no guard looks further
    LinkMayFreeze    \* whether the link may go silent without closing

AllRequests ==
    {"connect", "disconnect", "standard", "priority", "hot_reload", "reload"}

ASSUME ClientsAssumption == NoClient \notin Clients

ASSUME RequestsAssumption == Requests \subseteq AllRequests

ASSUME MasksAssumption == NoMask \in Masks /\ Refused \notin Masks

ASSUME ReconnectsAssumption == Reconnects # {} /\ Reconnects \subseteq BOOLEAN

ASSUME BoundsAssumption ==
    /\ QueueCapacity \in Nat \ {0}
    /\ MaxMissedPings \in Nat
    /\ PingIdleSecs \in Nat \ {0}
    /\ ReadTimeoutSecs \in Nat
    /\ WatchdogSecs \in Nat
    /\ BackoffBaseMs \in Nat /\ BackoffMaxExp \in Nat /\ BackoffCapMs \in Nat
    /\ EventAgeCap \in Nat
    /\ WatchdogSecs < EventAgeCap /\ BackoffCapMs <= EventAgeCap * 1000
    /\ LinkMayFreeze \in BOOLEAN

VARIABLES
    \* the shared SatelState the worker writes
    state,            \* telemetry.status.state
    failed_attempts,  \* telemetry.status.failed_attempts, up to FailedCap
    since_event,      \* seconds since telemetry.status.last_event_at
    since_send,       \* seconds since telemetry.last_send_at
    lag,              \* ticks owed: seconds spent in timeouts, up to LagCap
    \* the worker's own fields and control
    stream,           \* TRUE while self.stream is Some
    missed_pings,     \* consecutive_missed_pings, up to MissedCap
    phase,            \* the await the worker is at
    server,           \* whose call it is serving
    should_reconnect, \* auto_reconnect as read at the top of run_loop
    sent_mask,        \* the mask of the 0x7F exchange in progress
    \* what clients share with it
    config,           \* auto_reconnect and the auto_read_* selection
    auto_read_dirty,  \* the flag hot_reload_config raises
    queue,            \* the request channel, callers in order
    call,             \* what each client awaits
    reply,            \* the last result of each client
    \* the other end of the link
    applied,          \* history: the mask acknowledged in this session
    frozen            \* nothing arrives any more, and nothing reports it

session  == <<state, stream, missed_pings, failed_attempts, since_event>>
clock    == <<since_send, lag>>
control  == <<phase, server, should_reconnect>>
settings == <<config, auto_read_dirty>>
clients  == <<queue, call, reply>>

vars == <<session, clock, control, sent_mask, settings, clients, applied, frozen>>

-----------------------------------------------------------------------------
\* What a client may be in the middle of.  The first six are messages the
\* worker answers; the others are steps of a call between two messages.
Awaited == {"connect", "disconnect", "standard", "priority",
            "reload_disconnect", "reload_connect"}
Calls == Awaited \cup {"none", "hot_reload", "reload_check", "reload_next"}

Results == {"none", "ok", "not_connected", "already_connected", "expired",
            "timeout", "io", "invalid"}

\* The awaits of satel_connection_worker_connect, in order: the transport,
\* the answers to 0x7C, 0x7E and 0x7F.
ConnectPhases == {"opening", "ethm", "integra", "mask"}

Phases == ConnectPhases \cup
    {"parked",       \* not spawned: held in the client's Mutex
     "idle",         \* at the select! of run_loop
     "serve",        \* exchanging frames for a client
     "tick_resend",  \* step 1b of the tick, about to look at the flag
     "resend",       \* awaiting the answer to the re-sent mask
     "tick_ping",    \* step 2 of the tick, about to decide on a ping
     "ping"}         \* awaiting the answer to the ping

Configs == [auto_reconnect : Reconnects, auto_read : Masks]

\* failed_attempts and missed_pings are u32 counters that only take part in
\* comparisons: above these values every larger one acts the same.
FailedCap == BackoffMaxExp + 1
MissedCap == MaxMissedPings + 1

Least(a, b) == IF a < b THEN a ELSE b

\* Ticks owed beyond one timeout are forgotten, which lets more time pass
\* between two ticks, never less.
LagCap == ReadTimeoutSecs

\* calculate_backoff, in milliseconds.
calculate_backoff(attempts) ==
    IF attempts = 0
    THEN BackoffBaseMs
    ELSE Least(BackoffBaseMs * 2^Least(attempts - 1, BackoffMaxExp), BackoffCapMs)

IsConnect(c) == call[c] \in {"connect", "reload_connect"}
IsDisconnect(c) == call[c] \in {"disconnect", "reload_disconnect"}

-----------------------------------------------------------------------------
(* The clients: src/client.rs. *)

\* The caller's result arrives on its oneshot channel.  reload_config ignores
\* what its disconnect returned and goes on to connect.
Complete(who, result) ==
    /\ call' = [c \in Clients |->
                    IF c # who THEN call[c]
                    ELSE IF call[c] = "reload_disconnect" THEN "reload_next"
                    ELSE "none"]
    /\ reply' = [c \in Clients |-> IF c # who THEN reply[c] ELSE result]


\* Slip: a channel without a bound.
EnqueueUnbounded(c, request) ==
    /\ queue' = Append(queue, c)
    /\ call' = [call EXCEPT ![c] = request]
    /\ reply' = [reply EXCEPT ![c] = "none"]

\* Awaiting a slot of the channel delays the call and changes nothing else.
Enqueue(c, request) ==
    /\ Len(queue) < QueueCapacity
    /\ queue' = Append(queue, c)
    /\ call' = [call EXCEPT ![c] = request]
    /\ reply' = [reply EXCEPT ![c] = "none"]

\* exchange, exchange_priority, disconnect, and connect once the worker runs.
\* Only connect takes the worker out of the Mutex, so the others may queue up
\* behind a worker that does not run yet.
Send(c, request) ==
    /\ call[c] = "none"
    /\ request = "connect" => phase # "parked"
    /\ Enqueue(c, request)
    /\ UNCHANGED <<session, clock, control, sent_mask, settings, applied, frozen>>

\* satel_connection_worker_connect up to its first await.
BeginConnect(who) ==
    /\ state' = "Connecting"
    /\ since_event' = 0
    /\ auto_read_dirty' = FALSE
    /\ phase' = "opening"
    /\ server' = who
    /\ UNCHANGED <<stream, missed_pings, failed_attempts>>

\* The first connect takes the worker and spawns it.
StartWorker(c) ==
    /\ "connect" \in Requests
    /\ call[c] = "none"
    /\ phase = "parked"
    /\ BeginConnect(c)
    /\ call' = [call EXCEPT ![c] = "connect"]
    /\ reply' = [reply EXCEPT ![c] = "none"]
    /\ UNCHANGED <<clock, should_reconnect, sent_mask, config, queue,
                   applied, frozen>>

\* hot_reload_config replaces the configuration under its lock and raises the
\* flag after releasing it.
HotReload(c) ==
    /\ "hot_reload" \in Requests
    /\ call[c] = "none"
    /\ \E new \in Configs :
        /\ config' = new
        /\ call' = [call EXCEPT ![c] =
                        IF new.auto_read # config.auto_read THEN "hot_reload" ELSE "none"]
    /\ reply' = [reply EXCEPT ![c] = "none"]
    /\ UNCHANGED <<session, clock, control, sent_mask, auto_read_dirty, queue,
                   applied, frozen>>

HotReloadFlag(c) ==
    /\ call[c] = "hot_reload"
    /\ auto_read_dirty' = TRUE
    /\ Complete(c, "ok")
    /\ UNCHANGED <<session, clock, control, sent_mask, config, queue, applied, frozen>>

\* reload_config: store, then look at the state, then disconnect and connect.
Reload(c) ==
    /\ "reload" \in Requests
    /\ call[c] = "none"
    /\ config' \in Configs
    /\ call' = [call EXCEPT ![c] = "reload_check"]
    /\ reply' = [reply EXCEPT ![c] = "none"]
    /\ UNCHANGED <<session, clock, control, sent_mask, auto_read_dirty, queue,
                   applied, frozen>>

ReloadCheck(c) ==
    /\ call[c] = "reload_check"
    /\ \/ /\ state = "Disconnected"
          /\ Complete(c, "ok")
          /\ UNCHANGED queue
       \/ /\ state # "Disconnected"
          /\ Enqueue(c, "reload_disconnect")
    /\ UNCHANGED <<session, clock, control, sent_mask, settings, applied, frozen>>

ReloadConnect(c) ==
    /\ call[c] = "reload_next"
    /\ Enqueue(c, "reload_connect")
    /\ UNCHANGED <<session, clock, control, sent_mask, settings, applied, frozen>>

ClientStep(c) ==
    \/ \E request \in Requests \ {"hot_reload", "reload"} : Send(c, request)
    \/ StartWorker(c)
    \/ HotReload(c) \/ HotReloadFlag(c)
    \/ Reload(c) \/ ReloadCheck(c) \/ ReloadConnect(c)

-----------------------------------------------------------------------------
(* State helpers of the worker. *)


\* Slip: the stream outlives the connection.
connection_lost_keeps_stream(times) ==
    /\ missed_pings' = 0
    /\ state' = "ConnectionLost"
    /\ since_event' = 0
    /\ failed_attempts' = Least(failed_attempts + times, FailedCap)
    /\ UNCHANGED stream

\* satel_connection_worker_connection_lost, run the given number of times:
\* connect runs it again after exchange has already done so.
connection_lost(times) ==
    /\ stream' = FALSE
    /\ missed_pings' = 0
    /\ state' = "ConnectionLost"
    /\ since_event' = 0
    /\ failed_attempts' = Least(failed_attempts + times, FailedCap)

set_state_connected ==
    /\ state' = "Connected"
    /\ missed_pings' = 0
    /\ failed_attempts' = 0
    /\ since_event' = 0
    /\ UNCHANGED stream

\* satel_connection_worker_disconnect.
release_connection ==
    /\ stream' = FALSE
    /\ missed_pings' = 0
    /\ state' = "Disconnected"
    /\ since_event' = 0
    /\ failed_attempts' = 0


\* Slip: auto_reconnect is read once, before the loop.
LoopTopReadOnce ==
    /\ phase' = "idle"
    /\ server' = NoClient
    /\ UNCHANGED should_reconnect

\* The top of run_loop reads auto_reconnect before it waits in select!.
LoopTop ==
    /\ phase' = "idle"
    /\ server' = NoClient
    /\ should_reconnect' = config.auto_reconnect

\* The operation ends, its caller gets the result, the loop starts over.
Finish(result) ==
    /\ Complete(server, result)
    /\ LoopTop
    /\ UNCHANGED queue

(* How satel_connection_worker_exchange can end. *)

\* The frame it waited for, or a 0xEF result in its place.
Answered ==
    /\ ~frozen
    /\ missed_pings' = 0
    /\ since_send' = 0
    /\ UNCHANGED lag

\* The age of the last event after so many more seconds.  It is kept at 0 in
\* Disconnected and Connected, where no guard looks at it.
EventAge(secs) ==
    IF state \in {"Disconnected", "Connected"}
    THEN 0 ELSE Least(since_event + secs, EventAgeCap)

\* Seconds lost to a timeout; last_send_at moved before it if the write went
\* through.
SpendTimeout(secs, written) ==
    /\ since_send' = Least((IF written THEN 0 ELSE since_send) + secs, PingIdleSecs)
    /\ lag' = Least(lag + secs, LagCap)

\* The write stalls for a shorter timeout than the read's, or nothing the
\* read waits for comes; other frames may.
TimedOut(secs) ==
    \E spent \in 0..secs, written \in BOOLEAN :
        /\ written => spent = secs
        /\ SpendTimeout(spent, written)
        /\ since_event' = EventAge(spent)
        /\ missed_pings' \in {missed_pings} \cup (IF written /\ ~frozen THEN {0} ELSE {})

\* The write or the read fails, or the stream ends.
Broken(times) ==
    /\ ~frozen
    /\ since_send' \in {since_send, 0}
    /\ connection_lost(times)
    /\ UNCHANGED lag

-----------------------------------------------------------------------------
(* satel_connection_worker_connect. *)

OpenTransport ==
    /\ phase = "opening"
    /\ ~frozen
    /\ stream' = TRUE
    /\ state' = "Handshake"
    /\ since_event' = 0
    /\ applied' = NoMask
    /\ phase' = "ethm"
    /\ UNCHANGED <<missed_pings, failed_attempts, clock, server, should_reconnect,
                   sent_mask, settings, clients, frozen>>

OpenFails ==
    /\ phase = "opening"
    /\ connection_lost(1)
    /\ \/ ~frozen /\ Finish("io") /\ UNCHANGED lag
       \/ Finish("timeout") /\ lag' = Least(lag + ReadTimeoutSecs, LagCap)
    /\ UNCHANGED <<since_send, sent_mask, settings, applied, frozen>>

\* The three exchanges fail alike: exchange itself loses the connection on a
\* broken stream but not on a timeout, and the caller loses it in both cases.
HandshakeFails ==
    /\ phase \in {"ethm", "integra", "mask"}
    /\ \/ /\ Broken(2)
          /\ Finish("io")
       \/ /\ \E written \in BOOLEAN : SpendTimeout(ReadTimeoutSecs, written)
          /\ connection_lost(1)
          /\ Finish("timeout")
    /\ sent_mask' = NoMask
    /\ UNCHANGED <<settings, applied, frozen>>


\* Slip: the early return forgets who asked.
HandshakeInvalidUnanswered ==
    /\ phase \in {"ethm", "integra"}
    /\ Answered
    /\ LoopTop
    /\ UNCHANGED <<state, stream, failed_attempts, since_event, sent_mask,
                   clients, settings, applied, frozen>>

\* A version that does not parse leaves connect by its ? operator: the stream
\* stays open and the state stays Handshake.
HandshakeInvalid ==
    /\ phase \in {"ethm", "integra"}
    /\ Answered
    /\ Finish("invalid")
    /\ UNCHANGED <<state, stream, failed_attempts, since_event, sent_mask,
                   settings, applied, frozen>>

EthmVersion ==
    /\ phase = "ethm"
    /\ Answered
    /\ phase' = "integra"
    /\ UNCHANGED <<state, stream, failed_attempts, since_event, server,
                   should_reconnect, sent_mask, settings, clients, applied, frozen>>

\* With the panel's version known, connect either sends a mask or is done.
IntegraVersion ==
    /\ phase = "integra"
    /\ ~frozen
    /\ since_send' = 0 /\ UNCHANGED lag
    /\ \/ /\ config.auto_read = NoMask
          /\ set_state_connected
          /\ Finish("ok")
          /\ UNCHANGED sent_mask
       \/ /\ config.auto_read # NoMask
          /\ missed_pings' = 0
          /\ phase' = "mask"
          /\ sent_mask' = config.auto_read
          /\ UNCHANGED <<state, stream, failed_attempts, since_event, server,
                         should_reconnect, clients>>
    /\ UNCHANGED <<settings, applied, frozen>>

\* connect_auto_read: any answer counts as success, a 0xEF error included.
MaskAnswered ==
    /\ phase = "mask"
    /\ ~frozen
    /\ since_send' = 0 /\ UNCHANGED lag
    /\ applied' \in {sent_mask, Refused}
    /\ sent_mask' = NoMask
    /\ set_state_connected
    /\ Finish("ok")
    /\ UNCHANGED <<settings, frozen>>

ConnectStep ==
    \/ OpenTransport \/ OpenFails
    \/ HandshakeFails \/ HandshakeInvalid
    \/ EthmVersion \/ IntegraVersion \/ MaskAnswered

-----------------------------------------------------------------------------
(* handle_message_internal: the branch of select! that takes a request. *)

\* The worker at select! with c's request at the head of the channel.
Receives(c) ==
    /\ phase = "idle"
    /\ queue # <<>> /\ Head(queue) = c
    /\ queue' = Tail(queue)
    /\ UNCHANGED <<clock, sent_mask, config, applied, frozen>>

\* The request ends in the same step with this result.
RespondNow(c, result) ==
    /\ Complete(c, result)
    /\ LoopTop
    /\ UNCHANGED auto_read_dirty

\* The request's frame goes out; its answer is awaited in phase serve.
StartExchange(c) ==
    /\ phase' = "serve"
    /\ server' = c
    /\ UNCHANGED <<session, should_reconnect, auto_read_dirty, call, reply>>

\* Whether created_at.elapsed() > max_queue_time is left open: a request may
\* expire whenever it waited behind another operation.
ReceiveStandard(c) ==
    /\ Receives(c)
    /\ call[c] = "standard"
    /\ \/ state # "Connected" /\ RespondNow(c, "not_connected") /\ UNCHANGED session
       \/ state = "Connected" /\ RespondNow(c, "expired") /\ UNCHANGED session
       \/ state = "Connected" /\ StartExchange(c)

ReceivePriority(c) ==
    /\ Receives(c)
    /\ call[c] = "priority"
    /\ \/ /\ state \in {"Disconnected", "ConnectionLost"}
          /\ RespondNow(c, "not_connected")
          /\ UNCHANGED session
       \/ /\ state \notin {"Disconnected", "ConnectionLost"}
          /\ StartExchange(c)


\* Slip: a second connect is told ok because one is under way.
ReceiveConnectJoins(c) ==
    /\ Receives(c)
    /\ IsConnect(c)
    /\ \/ /\ state \in {"Connected", "Connecting", "Handshake"}
          /\ RespondNow(c, "ok")
          /\ UNCHANGED session
       \/ /\ state \notin {"Connected", "Connecting", "Handshake"}
          /\ BeginConnect(c)
          /\ UNCHANGED <<should_reconnect, call, reply>>

ReceiveConnect(c) ==
    /\ Receives(c)
    /\ IsConnect(c)
    /\ \/ /\ state \in {"Connected", "Connecting", "Handshake"}
          /\ RespondNow(c, "already_connected")
          /\ UNCHANGED session
       \/ /\ state \notin {"Connected", "Connecting", "Handshake"}
          /\ BeginConnect(c)
          /\ UNCHANGED <<should_reconnect, call, reply>>

ReceiveDisconnect(c) ==
    /\ Receives(c)
    /\ IsDisconnect(c)
    /\ \/ state = "Disconnected" /\ RespondNow(c, "not_connected") /\ UNCHANGED session
       \/ state # "Disconnected" /\ RespondNow(c, "ok") /\ release_connection

Receive ==
    \E c \in Clients :
        ReceiveStandard(c) \/ ReceivePriority(c) \/ ReceiveConnect(c) \/ ReceiveDisconnect(c)

\* The exchange on behalf of a client ends.
ServeDone ==
    /\ phase = "serve"
    /\ \/ Answered /\ Finish("ok") /\ UNCHANGED <<state, stream, failed_attempts, since_event>>
       \/ /\ TimedOut(ReadTimeoutSecs)
          /\ Finish("timeout")
          /\ UNCHANGED <<state, stream, failed_attempts>>
       \/ Broken(1) /\ Finish("io")
    /\ UNCHANGED <<sent_mask, settings, applied, frozen>>

-----------------------------------------------------------------------------
(* receive_push_internal: the branch of select! that listens to the panel. *)

ReceivePush ==
    /\ phase = "idle"
    /\ stream /\ state = "Connected"
    /\ \/ \* a frame arrives
          /\ ~frozen
          /\ missed_pings' = 0
          /\ UNCHANGED <<state, stream, failed_attempts, since_event>>
       \/ \* 100 ms pass without one
          UNCHANGED session
       \/ \* the stream fails or ends
          ~frozen /\ connection_lost(1)
    /\ LoopTop
    /\ UNCHANGED <<clock, sent_mask, settings, clients, applied, frozen>>

-----------------------------------------------------------------------------
(* The one-second tick.  It acts on the state read when it fired; the later *)
(* steps of a tick that saw Connected go on even if the session is gone.   *)

\* The tick fires, age seconds after the last event.
Ticks(age) ==
    /\ phase = "idle"
    /\ LET passed == IF lag > 0 THEN 0 ELSE 1
       IN  /\ age = EventAge(passed)
           /\ since_send' = Least(since_send + passed, PingIdleSecs)
           /\ lag' = IF lag > 0 THEN lag - 1 ELSE 0
    /\ UNCHANGED <<sent_mask, config, clients, applied, frozen>>


\* Slip: the watchdog only looks at Connecting.
TickWatchdogConnecting(age) ==
    /\ Ticks(age)
    /\ state \in {"Connecting", "Handshake"}
    /\ \/ state = "Connecting" /\ age > WatchdogSecs /\ connection_lost(1)
       \/ /\ state = "Handshake" \/ age <= WatchdogSecs
          /\ since_event' = age
          /\ UNCHANGED <<state, stream, missed_pings, failed_attempts>>
    /\ LoopTop
    /\ UNCHANGED auto_read_dirty

\* 1. A connect that left without a session is given up after 15 s.
TickWatchdog(age) ==
    /\ Ticks(age)
    /\ state \in {"Connecting", "Handshake"}
    /\ \/ age > WatchdogSecs /\ connection_lost(1)
       \/ /\ age <= WatchdogSecs
          /\ since_event' = age
          /\ UNCHANGED <<state, stream, missed_pings, failed_attempts>>
    /\ LoopTop
    /\ UNCHANGED auto_read_dirty

\* 1b. and 2. are only taken with a session.
TickConnected(age) ==
    /\ Ticks(age)
    /\ state = "Connected"
    /\ phase' = "tick_resend"
    /\ UNCHANGED <<session, server, should_reconnect, auto_read_dirty>>

\* 3. Automatic reconnect once the backoff has passed, on the copy of
\* auto_reconnect read before the wait.
TickReconnect(age) ==
    /\ Ticks(age)
    /\ state = "ConnectionLost"
    /\ \/ /\ should_reconnect
          /\ age * 1000 >= calculate_backoff(failed_attempts)
          /\ BeginConnect(NoClient)
          /\ UNCHANGED should_reconnect
       \/ /\ ~should_reconnect \/ age * 1000 < calculate_backoff(failed_attempts)
          /\ since_event' = age
          /\ LoopTop
          /\ UNCHANGED <<state, stream, missed_pings, failed_attempts, auto_read_dirty>>


\* Slip: reconnect whenever there is no session.
TickDisconnectedReconnects(age) ==
    /\ Ticks(age)
    /\ state = "Disconnected"
    /\ IF should_reconnect
       THEN BeginConnect(NoClient) /\ UNCHANGED should_reconnect
       ELSE LoopTop /\ UNCHANGED <<session, auto_read_dirty>>

TickDisconnected(age) ==
    /\ Ticks(age)
    /\ state = "Disconnected"
    /\ LoopTop
    /\ UNCHANGED <<session, auto_read_dirty>>

Tick ==
    \E age \in 0..EventAgeCap :
        TickWatchdog(age) \/ TickConnected(age) \/ TickReconnect(age) \/ TickDisconnected(age)


\* Slip: the mask only goes out when a ping would.
TickResendWhenQuiet ==
    /\ phase = "tick_resend"
    /\ \/ /\ ~auto_read_dirty \/ since_send < PingIdleSecs
          /\ phase' = "tick_ping"
          /\ UNCHANGED <<sent_mask, auto_read_dirty>>
       \/ /\ auto_read_dirty /\ since_send >= PingIdleSecs
          /\ phase' = "resend" /\ sent_mask' = config.auto_read
          /\ auto_read_dirty' = FALSE
    /\ UNCHANGED <<session, clock, server, should_reconnect, config, clients,
                   applied, frozen>>

\* 1b. swap(false) on the flag, then build and send the mask.
TickResend ==
    /\ phase = "tick_resend"
    /\ auto_read_dirty' = FALSE
    /\ \/ ~auto_read_dirty /\ phase' = "tick_ping" /\ UNCHANGED sent_mask
       \/ auto_read_dirty /\ phase' = "resend" /\ sent_mask' = config.auto_read
    /\ UNCHANGED <<session, clock, server, should_reconnect, config, clients,
                   applied, frozen>>

\* The answer to the re-sent mask; without one the flag is raised again.
ResendAnswered ==
    /\ phase = "resend"
    /\ Answered
    /\ applied' \in {sent_mask, Refused}
    /\ sent_mask' = NoMask
    /\ phase' = "tick_ping"
    /\ UNCHANGED <<state, stream, failed_attempts, since_event, server,
                   should_reconnect, settings, clients, frozen>>


\* Slip: the flag is not raised again.
ResendFailsForgets ==
    /\ phase = "resend"
    /\ \/ Broken(1)
       \/ TimedOut(ReadTimeoutSecs) /\ UNCHANGED <<state, stream, failed_attempts>>
    /\ sent_mask' = NoMask
    /\ phase' = "tick_ping"
    /\ UNCHANGED <<auto_read_dirty, server, should_reconnect, config, clients, applied, frozen>>

ResendFails ==
    /\ phase = "resend"
    /\ \/ Broken(1)
       \/ TimedOut(ReadTimeoutSecs) /\ UNCHANGED <<state, stream, failed_attempts>>
    /\ auto_read_dirty' = TRUE
    /\ sent_mask' = NoMask
    /\ phase' = "tick_ping"
    /\ UNCHANGED <<server, should_reconnect, config, clients, applied, frozen>>


\* Slip: a ping that could not be sent counts as a lost connection.
TickPingBlames ==
    /\ phase = "tick_ping"
    /\ \/ since_send >= PingIdleSecs /\ stream /\ phase' = "ping"
             /\ UNCHANGED <<session, server, should_reconnect>>
       \/ since_send < PingIdleSecs /\ LoopTop /\ UNCHANGED session
       \/ since_send >= PingIdleSecs /\ ~stream /\ LoopTop /\ connection_lost(1)
    /\ UNCHANGED <<clock, sent_mask, settings, clients, applied, frozen>>


\* Slip: sending a ping clears the count of those without an answer.
TickPingClears ==
    /\ phase = "tick_ping"
    /\ \/ since_send >= PingIdleSecs /\ stream /\ phase' = "ping" /\ missed_pings' = 0
             /\ UNCHANGED <<state, stream, failed_attempts, since_event, server, should_reconnect>>
       \/ (since_send < PingIdleSecs \/ ~stream) /\ LoopTop /\ UNCHANGED session
    /\ UNCHANGED <<clock, sent_mask, settings, clients, applied, frozen>>

\* 2. Ping if nothing was sent for a while.  Without a stream the exchange
\* returns NotConnected, which is no missed ping.
TickPing ==
    /\ phase = "tick_ping"
    /\ \/ since_send >= PingIdleSecs /\ stream /\ phase' = "ping"
             /\ UNCHANGED <<server, should_reconnect>>
       \/ (since_send < PingIdleSecs \/ ~stream) /\ LoopTop
    /\ UNCHANGED <<session, clock, sent_mask, settings, clients, applied, frozen>>


\* Slip: one ping too many.
handle_ping_timeout_late(heard) ==
    LET missed == Least((IF heard THEN 0 ELSE missed_pings) + 1, MissedCap)
    IN  \/ /\ MaxMissedPings > 0 /\ missed > MaxMissedPings
           /\ connection_lost(1)
        \/ /\ MaxMissedPings = 0 \/ missed <= MaxMissedPings
           /\ missed_pings' = missed
           /\ UNCHANGED <<state, stream, failed_attempts, since_event>>

\* handle_ping_timeout after a ping that had no answer, where heard tells
\* whether another frame reset the count while it was awaited.
handle_ping_timeout(heard) ==
    LET missed == Least((IF heard THEN 0 ELSE missed_pings) + 1, MissedCap)
    IN  \/ /\ MaxMissedPings > 0 /\ missed >= MaxMissedPings
           /\ connection_lost(1)
        \/ /\ MaxMissedPings = 0 \/ missed < MaxMissedPings
           /\ missed_pings' = missed
           /\ UNCHANGED <<state, stream, failed_attempts, since_event>>

PingDone ==
    /\ phase = "ping"
    /\ \/ Answered /\ UNCHANGED <<state, stream, failed_attempts, since_event>>
       \/ /\ \E heard \in BOOLEAN : (heard => ~frozen) /\ handle_ping_timeout(heard)
          /\ since_send' \in {since_send, 0} /\ UNCHANGED lag
       \/ Broken(1)
    /\ LoopTop
    /\ UNCHANGED <<sent_mask, settings, clients, applied, frozen>>

TickStep == TickResend \/ ResendAnswered \/ ResendFails \/ TickPing \/ PingDone

-----------------------------------------------------------------------------
(* The link: a cable pulled or a peer gone without a reset. *)

Freeze ==
    /\ LinkMayFreeze
    /\ frozen' = ~frozen
    /\ UNCHANGED <<session, clock, control, sent_mask, settings, clients, applied>>

-----------------------------------------------------------------------------
Init ==
    /\ state = "Disconnected" /\ stream = FALSE
    /\ missed_pings = 0 /\ failed_attempts = 0
    /\ since_event = 0 /\ since_send = 0 /\ lag = 0
    /\ phase = "parked" /\ server = NoClient
    /\ config \in Configs
    /\ should_reconnect = config.auto_reconnect
    /\ sent_mask = NoMask /\ auto_read_dirty = FALSE
    /\ queue = <<>>
    /\ call = [c \in Clients |-> "none"]
    /\ reply = [c \in Clients |-> "none"]
    /\ applied = NoMask /\ frozen = FALSE

\* The awaits of the worker, each of them bounded by a timeout of the code.
WorkerBusy == ConnectStep \/ ServeDone \/ TickStep

Next ==
    \/ \E c \in Clients : ClientStep(c)
    \/ Receive \/ ReceivePush \/ Tick \/ WorkerBusy
    \/ Freeze

Spec == Init /\ [][Next]_vars

\* Every await ends.  select! polls its ready branches in random order, so a
\* request or a tick that is ready each time around is taken in the end.  A
\* client step that needs no answer from the worker runs to its next await.
Fairness ==
    /\ WF_vars(WorkerBusy)
    /\ SF_vars(Receive)
    /\ SF_vars(Tick)
    /\ \A c \in Clients :
        WF_vars(HotReloadFlag(c)) /\ SF_vars(ReloadCheck(c)) /\ SF_vars(ReloadConnect(c))

FairSpec == Spec /\ Fairness
-----------------------------------------------------------------------------
(* What must hold. *)

\* Every variable keeps the range its declaration gives it; above all, the
\* request channel never holds more than its capacity.
TypeOK ==
    /\ state \in {"Disconnected", "Connecting", "Handshake", "Connected", "ConnectionLost"}
    /\ stream \in BOOLEAN
    /\ failed_attempts \in 0..FailedCap
    /\ missed_pings \in 0..MissedCap
    /\ since_event \in 0..EventAgeCap
    /\ since_send \in 0..PingIdleSecs
    /\ lag \in 0..LagCap
    /\ phase \in Phases
    /\ server \in Clients \cup {NoClient}
    /\ should_reconnect \in Reconnects
    /\ sent_mask \in Masks
    /\ config \in Configs
    /\ auto_read_dirty \in BOOLEAN
    /\ queue \in Seq(Clients) /\ Len(queue) <= QueueCapacity
    /\ call \in [Clients -> Calls]
    /\ reply \in [Clients -> Results]
    /\ applied \in Masks \cup {Refused}
    /\ frozen \in BOOLEAN

\* A stream is held exactly in Handshake and Connected, Connecting never
\* outlives the opening of the transport, and each step of connect and each
\* exchange finds the state and the stream it was started with.
SessionConsistent ==
    /\ stream <=> state \in {"Handshake", "Connected"}
    /\ state = "Connecting" <=> phase = "opening"
    /\ phase \in {"ethm", "integra", "mask"} => state = "Handshake"
    /\ phase \in {"serve", "resend", "ping"} => stream
    /\ phase \in {"tick_resend", "resend", "ping"} => state = "Connected"
    /\ phase = "parked" => state = "Disconnected"

\* Every caller that awaits the worker is in the channel exactly once or is
\* the one being served, and nobody else is: no path through the worker drops
\* a caller's oneshot or answers it twice.
NoOrphanedCaller ==
    /\ \A c \in Clients :
        call[c] \in Awaited <=> (server = c \/ \E i \in 1..Len(queue) : queue[i] = c)
    /\ \A i \in 1..Len(queue) : queue[i] # server
    /\ \A i, j \in 1..Len(queue) : queue[i] = queue[j] => i = j

\* A reload that has stored its configuration and not yet acted on it.
ReloadPending ==
    \E c \in Clients : call[c] \in {"hot_reload", "reload_check", "reload_disconnect"}

\* Within a session, whenever the flag is down and no reload is under way, the
\* last mask the panel acknowledged is the configured one, unless the panel
\* refused it: no interleaving of hot_reload_config, reload_config, connect and
\* the tick loses a change of the auto_read_* categories.
MaskInSync ==
    (state = "Connected" /\ phase # "resend" /\ ~auto_read_dirty /\ ~ReloadPending)
        => applied \in {config.auto_read, Refused}

\* A session never survives max_missed_pings pings in a row without an answer.
MissedPingsBelowLimit ==
    (state = "Connected" /\ MaxMissedPings > 0) => missed_pings < MaxMissedPings

\* After a disconnect only a client's connect leaves Disconnected: "halts
\* automatic reconnect attempts" holds against every tick already under way.
UserDisconnectSticks ==
    [][state = "Disconnected" /\ state' # "Disconnected"
        => \E c \in Clients : server' = c /\ IsConnect(c)']_vars

\* A loss found outside of connect is one lost stream and one failed attempt.
LostOnce ==
    (/\ state' = "ConnectionLost" /\ phase \notin ConnectPhases
     /\ (state # "ConnectionLost" \/ failed_attempts' # failed_attempts))
    => /\ stream
       /\ failed_attempts' = Least(failed_attempts + 1, FailedCap)
       /\ state = "Connected" => failed_attempts = 0

\* Outside of connect one lost stream counts as one failed attempt, and the
\* loss of a session always starts the backoff at its first step, although a
\* tick goes on after the stream it was started for is gone.
LossCountedOnce == [][LostOnce]_vars

\* A result that tells the truth about the connection at the moment it is
\* given: ok from connect means Connected, an error of its transport or
\* timeouts means ConnectionLost, ok from disconnect means Disconnected, and
\* not_connected means that nothing was exchanged.
Truthful(c, result) ==
    /\ IsConnect(c) /\ result = "ok" => state' = "Connected"
    /\ IsConnect(c) /\ result \in {"io", "timeout"} => state' = "ConnectionLost"
    /\ IsConnect(c) /\ result = "already_connected" => stream'
    /\ IsDisconnect(c) => state' = "Disconnected"
    /\ call[c] \in {"standard", "priority"} /\ result = "io"
        => state' = "ConnectionLost"
    /\ result = "not_connected" => ~stream' \/ call[c] = "standard"

\* Every caller is told the truth.
TruthfulResults ==
    [][\A c \in Clients :
        call[c] \in Awaited /\ call'[c] # call[c] => Truthful(c, reply'[c])]_vars

-----------------------------------------------------------------------------
(* What must eventually happen, under FairSpec. *)

\* Once the worker runs, every request in its channel gets a result.
CallsAnswered ==
    \A c \in Clients :
        (call[c] \in Awaited /\ phase # "parked") ~> (call[c] \notin Awaited)

\* max_queue_time ("maximum message lifetime in the buffer queue before
\* expiration") bounds how long a standard command waits.
QueuedCommandsEnd ==
    \A c \in Clients : (call[c] = "standard") ~> (call[c] # "standard")

\* With auto_reconnect left on, a lost connection is tried again after its
\* backoff, whatever clients and hot reloads do meanwhile.
LostConnectionRetried ==
    <>[]config.auto_reconnect => (state = "ConnectionLost" ~> state # "ConnectionLost")

\* With auto_reconnect left off and no client asking, attempts cease: the
\* stale copy of the setting starts one more at most.
AutoReconnectOffStops ==
    <>[](~config.auto_reconnect /\ \A c \in Clients : call[c] = "none")
        => <>[](phase \notin ConnectPhases)

\* A handshake that connect left behind half done is cleared by the watchdog,
\* even though every connect in between is told already_connected.
HalfOpenHandshakeCleared ==
    (phase = "idle" /\ state = "Handshake") ~> (state # "Handshake")

\* A changed mask is sent again on a later tick of the same session.
ChangedMaskResent ==
    (auto_read_dirty /\ state = "Connected") ~> (~auto_read_dirty \/ state # "Connected")

\* A link that went silent is noticed, whatever the clients ask meanwhile.
FrozenLinkDetected ==
    (frozen /\ state = "Connected") ~> (~frozen \/ state # "Connected")

\* Every step of the worker is a move of the lifecycle or leaves it alone.
Lifecycle == INSTANCE ConnectionLifecycle WITH link <- stream
LifecycleSteps == Lifecycle!Init /\ [][Lifecycle!Next]_<<state, stream>>

\* The worker implements the lifecycle it promises, fairness included.
LifecycleSpec == Lifecycle!Spec
=============================================================================
