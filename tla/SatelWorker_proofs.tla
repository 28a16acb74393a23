------------------------ MODULE SatelWorker_proofs ------------------------
(***************************************************************************)
(* Proofs about SatelWorker, for every number of clients, every set of     *)
(* masks and every value of the bounds.                                    *)
(***************************************************************************)
EXTENDS SatelWorker, TLAPS

\* The worker starts with every variable in its range.
LEMMA InitTypeOK == Init => TypeOK
<1> SUFFICES ASSUME Init PROVE TypeOK
  OBVIOUS
<1>1. queue \in Seq(Clients) /\ Len(queue) <= QueueCapacity
  BY BoundsAssumption DEF Init
<1>2. should_reconnect \in Reconnects
  BY DEF Init, Configs
<1>3. /\ failed_attempts \in 0..FailedCap /\ missed_pings \in 0..MissedCap
      /\ since_event \in 0..EventAgeCap /\ since_send \in 0..PingIdleSecs
      /\ lag \in 0..LagCap
  BY BoundsAssumption DEF Init, FailedCap, MissedCap, LagCap
<1>4. call \in [Clients -> Calls] /\ reply \in [Clients -> Results]
  BY DEF Init, Calls, Results
<1>5. QED
  BY <1>1, <1>2, <1>3, <1>4, MasksAssumption
  DEF Init, TypeOK, Phases

\* A caller put into the channel keeps it typed and within its capacity.
LEMMA EnqueueTyped ==
    ASSUME TypeOK, NEW c \in Clients, NEW request \in Calls, Enqueue(c, request)
    PROVE  /\ queue' \in Seq(Clients) /\ Len(queue') <= QueueCapacity
           /\ call' \in [Clients -> Calls]
           /\ reply' \in [Clients -> Results]
<1>1. queue \in Seq(Clients) /\ Len(queue) < QueueCapacity /\ queue' = Append(queue, c)
  BY DEF TypeOK, Enqueue
<1>2. queue' \in Seq(Clients) /\ Len(queue') = Len(queue) + 1
  BY <1>1
<1>3. Len(queue') <= QueueCapacity
  BY <1>1, <1>2, BoundsAssumption
<1>4. call' \in [Clients -> Calls] /\ reply' \in [Clients -> Results]
  BY DEF TypeOK, Enqueue, Results
<1>5. QED
  BY <1>2, <1>3, <1>4

\* Every step of a client call keeps the ranges; Enqueue keeps the channel's bound.
LEMMA ClientTypeOK ==
    ASSUME TypeOK, NEW c \in Clients, ClientStep(c)
    PROVE  TypeOK'
<1> USE BoundsAssumption, MasksAssumption DEF TypeOK, session, clock, control,
        settings, clients, Phases, ConnectPhases, Calls, Results, Awaited
<1>1. ASSUME NEW r \in Requests \ {"hot_reload", "reload"}, Send(c, r)
      PROVE  TypeOK'
  <2>1. r \in Calls /\ Enqueue(c, r)
    BY <1>1, RequestsAssumption DEF Send, AllRequests
  <2>2. QED
    BY <1>1, <2>1, EnqueueTyped DEF Send
<1>2. CASE StartWorker(c)
  <2>1. call' \in [Clients -> Calls] /\ reply' \in [Clients -> Results]
    BY <1>2 DEF StartWorker
  <2>2. /\ UNCHANGED <<stream, missed_pings, failed_attempts, since_send, lag,
                       should_reconnect, sent_mask, config, queue, applied, frozen>>
        /\ state' = "Connecting" /\ since_event' = 0 /\ auto_read_dirty' = FALSE
        /\ phase' = "opening" /\ server' = c
    BY <1>2 DEF StartWorker, BeginConnect
  <2>3. since_event' \in 0..EventAgeCap /\ phase' \in Phases
    BY <2>2
  <2>4. QED
    BY <2>1, <2>2, <2>3, ZenonT(40)
<1>3. CASE HotReload(c)
  BY <1>3 DEF HotReload
<1>4. CASE HotReloadFlag(c)
  BY <1>4 DEF HotReloadFlag, Complete
<1>5. CASE Reload(c)
  BY <1>5 DEF Reload
<1>6. CASE ReloadCheck(c)
  <2>1. CASE Complete(c, "ok") /\ UNCHANGED queue
    <3>1. call' \in [Clients -> Calls] /\ reply' \in [Clients -> Results]
      BY <2>1 DEF Complete
    <3>2. QED
      BY <1>6, <2>1, <3>1 DEF ReloadCheck
  <2>2. CASE Enqueue(c, "reload_disconnect")
    <3>1. /\ queue' \in Seq(Clients) /\ Len(queue') <= QueueCapacity
          /\ call' \in [Clients -> Calls] /\ reply' \in [Clients -> Results]
      BY <2>2, EnqueueTyped
    <3>2. QED
      BY <1>6, <3>1 DEF ReloadCheck
  <2>3. QED
    BY <1>6, <2>1, <2>2 DEF ReloadCheck
<1>7. CASE ReloadConnect(c)
  <2>1. Enqueue(c, "reload_connect")
    BY <1>7 DEF ReloadConnect
  <2>2. QED
    BY <1>7, <2>1, EnqueueTyped DEF ReloadConnect
<1>8. QED
  BY <1>1, <1>2, <1>3, <1>4, <1>5, <1>6, <1>7, SMTT(30) DEF ClientStep

\* The typing of the part of the state that connection_lost and its like write.
SessionTyped ==
    /\ state \in {"Disconnected", "Connecting", "Handshake", "Connected", "ConnectionLost"}
    /\ stream \in BOOLEAN
    /\ failed_attempts \in 0..FailedCap
    /\ missed_pings \in 0..MissedCap
    /\ since_event \in 0..EventAgeCap

\* The typing of the rest, cut along the tuples of vars.
ClockTyped == since_send \in 0..PingIdleSecs /\ lag \in 0..LagCap

ControlTyped ==
    /\ phase \in Phases
    /\ server \in Clients \cup {NoClient}
    /\ should_reconnect \in Reconnects

SettingsTyped == config \in Configs /\ auto_read_dirty \in BOOLEAN

ClientsTyped ==
    /\ queue \in Seq(Clients) /\ Len(queue) <= QueueCapacity
    /\ call \in [Clients -> Calls]
    /\ reply \in [Clients -> Results]

PanelTyped ==
    /\ sent_mask \in Masks
    /\ applied \in Masks \cup {Refused}
    /\ frozen \in BOOLEAN

\* The type invariant part by part, so that an action need only show the parts it writes.
LEMMA TypeOKParts ==
    /\ TypeOK <=> /\ SessionTyped /\ ClockTyped /\ ControlTyped
                  /\ SettingsTyped /\ ClientsTyped /\ PanelTyped
    /\ TypeOK' <=> /\ SessionTyped' /\ ClockTyped' /\ ControlTyped'
                   /\ SettingsTyped' /\ ClientsTyped' /\ PanelTyped'
  BY DEF TypeOK, SessionTyped, ClockTyped, ControlTyped, SettingsTyped,
         ClientsTyped, PanelTyped

\* A step that leaves a part alone keeps it typed.
LEMMA PartsUnchanged ==
    /\ SessionTyped /\ UNCHANGED session => SessionTyped'
    /\ ClockTyped /\ UNCHANGED clock => ClockTyped'
    /\ ControlTyped /\ UNCHANGED control => ControlTyped'
    /\ SettingsTyped /\ UNCHANGED settings => SettingsTyped'
    /\ ClientsTyped /\ UNCHANGED clients => ClientsTyped'
    /\ PanelTyped /\ UNCHANGED <<sent_mask, applied, frozen>> => PanelTyped'
  BY DEF SessionTyped, ClockTyped, ControlTyped, SettingsTyped, ClientsTyped,
         PanelTyped, session, clock, control, settings, clients

\* What the shared helpers keep typed.
LEMMA LeastBounded ==
    ASSUME NEW a \in Nat, NEW b \in Nat
    PROVE  Least(a, b) \in 0..b
  BY DEF Least

\* Handing a result to a caller leaves call and reply well-typed.
LEMMA CompleteTyped ==
    ASSUME TypeOK, NEW who, NEW result \in Results, Complete(who, result)
    PROVE  call' \in [Clients -> Calls] /\ reply' \in [Clients -> Results]
  BY DEF TypeOK, Complete, Calls

\* Returning to the top of run_loop leaves the worker's control well-typed.
LEMMA LoopTopTyped ==
    ASSUME TypeOK, LoopTop
    PROVE  ControlTyped'
  BY DEF TypeOK, LoopTop, Phases, Configs, ControlTyped

\* Ending an operation with a result leaves control and clients well-typed.
LEMMA FinishTyped ==
    ASSUME TypeOK, NEW result \in Results, Finish(result)
    PROVE  ControlTyped' /\ ClientsTyped'
  BY CompleteTyped, LoopTopTyped DEF Finish, TypeOK, ClientsTyped

\* connection_lost keeps failed_attempts below its bound, however often it runs.
LEMMA ConnectionLostTyped ==
    ASSUME TypeOK, NEW times \in Nat, connection_lost(times)
    PROVE  SessionTyped'
<1>1. FailedCap \in Nat /\ failed_attempts + times \in Nat
  BY BoundsAssumption DEF TypeOK, FailedCap
<1>2. Least(failed_attempts + times, FailedCap) \in 0..FailedCap
  BY <1>1, LeastBounded
<1>3. failed_attempts' \in 0..FailedCap
  BY <1>2 DEF connection_lost
<1>4. 0 \in 0..MissedCap /\ 0 \in 0..EventAgeCap
  BY BoundsAssumption DEF MissedCap
<1>5. /\ stream' = FALSE /\ missed_pings' = 0
      /\ state' = "ConnectionLost" /\ since_event' = 0
  BY DEF connection_lost
<1>6. QED
  BY <1>3, <1>4, <1>5 DEF SessionTyped

\* set_state_connected leaves the session well-typed.
LEMMA SetStateConnectedTyped ==
    ASSUME TypeOK, set_state_connected
    PROVE  SessionTyped'
  BY BoundsAssumption
  DEF set_state_connected, SessionTyped, TypeOK, MissedCap, FailedCap

\* satel_connection_worker_disconnect leaves the session well-typed.
LEMMA ReleaseConnectionTyped ==
    ASSUME release_connection
    PROVE  SessionTyped'
<1>1. 0 \in 0..MissedCap /\ 0 \in 0..EventAgeCap /\ 0 \in 0..FailedCap
  BY BoundsAssumption DEF MissedCap, FailedCap
<1>2. /\ stream' = FALSE /\ missed_pings' = 0 /\ failed_attempts' = 0
      /\ state' = "Disconnected" /\ since_event' = 0
  BY DEF release_connection
<1>3. QED
  BY <1>1, <1>2 DEF SessionTyped

\* The age of the last event never exceeds its cap.
LEMMA EventAgeTyped ==
    ASSUME TypeOK, NEW secs \in Nat
    PROVE  EventAge(secs) \in 0..EventAgeCap
<1>1. since_event + secs \in Nat /\ EventAgeCap \in Nat
  BY BoundsAssumption DEF TypeOK
<1>2. Least(since_event + secs, EventAgeCap) \in 0..EventAgeCap
  BY <1>1, LeastBounded
<1>3. QED
  BY <1>1, <1>2 DEF EventAge

\* A timeout moves the clocks within their bounds.
LEMMA SpendTimeoutTyped ==
    ASSUME TypeOK, NEW secs \in Nat, NEW written \in BOOLEAN,
           SpendTimeout(secs, written)
    PROVE  ClockTyped'
<1>1. /\ PingIdleSecs \in Nat /\ LagCap \in Nat /\ lag + secs \in Nat
      /\ (IF written THEN 0 ELSE since_send) + secs \in Nat
  BY BoundsAssumption DEF TypeOK, LagCap
<1>2. /\ Least((IF written THEN 0 ELSE since_send) + secs, PingIdleSecs) \in 0..PingIdleSecs
      /\ Least(lag + secs, LagCap) \in 0..LagCap
  BY <1>1, LeastBounded
<1>3. QED
  BY <1>2 DEF SpendTimeout, ClockTyped

\* So does an exchange that times out, whatever other frames came in meanwhile.
LEMMA TimedOutTyped ==
    ASSUME TypeOK, NEW secs \in Nat, TimedOut(secs)
    PROVE  ClockTyped' /\ missed_pings' \in 0..MissedCap /\ since_event' \in 0..EventAgeCap
<1>1. PICK spent \in 0..secs, written \in BOOLEAN :
        /\ SpendTimeout(spent, written)
        /\ since_event' = EventAge(spent)
        /\ missed_pings' \in {missed_pings} \cup (IF written /\ ~frozen THEN {0} ELSE {})
  BY DEF TimedOut
<1>2. spent \in Nat
  OBVIOUS
<1>3. ClockTyped'
  BY <1>1, <1>2, SpendTimeoutTyped
<1>4. since_event' \in 0..EventAgeCap
  BY <1>1, <1>2, EventAgeTyped
<1>5. missed_pings \in 0..MissedCap /\ 0 \in 0..MissedCap
  BY BoundsAssumption DEF TypeOK, MissedCap
<1>6. missed_pings' = missed_pings \/ missed_pings' = 0
  BY <1>1
<1>7. QED
  BY <1>3, <1>4, <1>5, <1>6

\* An answered exchange moves the clocks and the missed pings within their bounds.
LEMMA AnsweredTyped ==
    ASSUME TypeOK, Answered
    PROVE  ClockTyped' /\ missed_pings' \in 0..MissedCap
  BY BoundsAssumption DEF Answered, TypeOK, MissedCap, ClockTyped

\* So does an exchange that ends with the stream.
LEMMA BrokenTyped ==
    ASSUME TypeOK, NEW times \in Nat, Broken(times)
    PROVE  ClockTyped' /\ SessionTyped'
  BY ConnectionLostTyped, BoundsAssumption DEF Broken, TypeOK, ClockTyped

-----------------------------------------------------------------------------
\* Type correctness, one lemma per group of actions.

\* The first stretch of connect leaves what it writes well-typed.
LEMMA BeginConnectTyped ==
    ASSUME TypeOK, NEW who \in Clients \cup {NoClient}, BeginConnect(who),
           should_reconnect' = should_reconnect, config' = config
    PROVE  SessionTyped' /\ ControlTyped' /\ SettingsTyped'
<1>1. 0 \in 0..EventAgeCap
  BY BoundsAssumption
<1>2. SessionTyped'
  BY <1>1 DEF TypeOK, BeginConnect, SessionTyped
<1>3. ControlTyped'
  BY DEF TypeOK, BeginConnect, ControlTyped, Phases, ConnectPhases
<1>4. SettingsTyped'
  BY DEF TypeOK, BeginConnect, SettingsTyped
<1>5. QED
  BY <1>2, <1>3, <1>4

\* Every step of satel_connection_worker_connect keeps the ranges.
LEMMA ConnectTypeOK ==
    ASSUME TypeOK, ConnectStep
    PROVE  TypeOK'
<1> USE TypeOKParts, PartsUnchanged, MasksAssumption
<1>r. /\ "ok" \in Results /\ "io" \in Results /\ "timeout" \in Results
      /\ "invalid" \in Results
  BY DEF Results
<1>1. CASE OpenTransport
  <2>1. SessionTyped'
    BY <1>1, BoundsAssumption DEF OpenTransport, SessionTyped
  <2>2. ControlTyped' /\ PanelTyped'
    BY <1>1 DEF OpenTransport, ControlTyped, PanelTyped, Phases, ConnectPhases
  <2>3. QED
    BY <1>1, <2>1, <2>2 DEF OpenTransport
<1>2. CASE OpenFails
  <2>1. SessionTyped'
    BY <1>2, ConnectionLostTyped DEF OpenFails
  <2>2. ControlTyped' /\ ClientsTyped'
    BY <1>2, <1>r, FinishTyped DEF OpenFails
  <2>3. ReadTimeoutSecs \in Nat
    BY BoundsAssumption
  <2>4. Least(lag + ReadTimeoutSecs, LagCap) \in 0..LagCap
    <3>1. lag + ReadTimeoutSecs \in Nat /\ LagCap \in Nat
      BY <2>3 DEF TypeOK, LagCap
    <3>2. QED
      BY <3>1, LeastBounded
  <2>5. ClockTyped'
    BY <1>2, <2>4 DEF OpenFails, ClockTyped
  <2>6. QED
    BY <1>2, <2>1, <2>2, <2>5 DEF OpenFails
<1>3. CASE HandshakeFails
  <2>1. ReadTimeoutSecs \in Nat
    BY BoundsAssumption
  <2>2. SessionTyped' /\ ClockTyped'
    BY <1>3, <2>1, ConnectionLostTyped, BrokenTyped, SpendTimeoutTyped
    DEF HandshakeFails
  <2>3. ControlTyped' /\ ClientsTyped'
    BY <1>3, <1>r, FinishTyped DEF HandshakeFails
  <2>4. PanelTyped'
    BY <1>3 DEF HandshakeFails, PanelTyped
  <2>5. QED
    BY <1>3, <2>2, <2>3, <2>4 DEF HandshakeFails
<1>4. CASE HandshakeInvalid
  <2>1. ClockTyped' /\ SessionTyped'
    BY <1>4, AnsweredTyped DEF HandshakeInvalid, SessionTyped
  <2>2. ControlTyped' /\ ClientsTyped'
    BY <1>4, <1>r, FinishTyped DEF HandshakeInvalid
  <2>3. QED
    BY <1>4, <2>1, <2>2 DEF HandshakeInvalid
<1>5. CASE EthmVersion
  <2>1. ClockTyped' /\ SessionTyped'
    BY <1>5, AnsweredTyped DEF EthmVersion, SessionTyped
  <2>2. ControlTyped'
    BY <1>5 DEF EthmVersion, ControlTyped, Phases, ConnectPhases
  <2>3. QED
    BY <1>5, <2>1, <2>2 DEF EthmVersion
<1>6. CASE IntegraVersion
  <2>1. ClockTyped'
    BY <1>6, BoundsAssumption DEF IntegraVersion, ClockTyped
  <2>2. SessionTyped'
    BY <1>6, SetStateConnectedTyped, BoundsAssumption
    DEF IntegraVersion, SessionTyped, MissedCap
  <2>3. ControlTyped' /\ ClientsTyped'
    <3>1. CASE Finish("ok")
      BY <3>1, <1>r, FinishTyped
    <3>2. CASE phase' = "mask" /\ UNCHANGED <<server, should_reconnect, clients>>
      BY <3>2 DEF ControlTyped, Phases, ConnectPhases
    <3>3. QED
      BY <1>6, <3>1, <3>2 DEF IntegraVersion
  <2>4. PanelTyped'
    BY <1>6 DEF IntegraVersion, PanelTyped, SettingsTyped, Configs
  <2>5. QED
    BY <1>6, <2>1, <2>2, <2>3, <2>4 DEF IntegraVersion
<1>7. CASE MaskAnswered
  <2>1. ClockTyped' /\ PanelTyped'
    BY <1>7, BoundsAssumption DEF MaskAnswered, ClockTyped, PanelTyped
  <2>2. SessionTyped' /\ ControlTyped' /\ ClientsTyped'
    BY <1>7, <1>r, SetStateConnectedTyped, FinishTyped DEF MaskAnswered
  <2>3. QED
    BY <1>7, <2>1, <2>2 DEF MaskAnswered
<1>8. QED
  BY <1>1, <1>2, <1>3, <1>4, <1>5, <1>6, <1>7 DEF ConnectStep

\* Taking a request out of the channel keeps the ranges.
LEMMA ReceiveTypeOK ==
    ASSUME TypeOK, Receive
    PROVE  TypeOK'
<1> USE TypeOKParts, PartsUnchanged
<1>r. /\ "ok" \in Results /\ "not_connected" \in Results
      /\ "expired" \in Results /\ "already_connected" \in Results
  BY DEF Results
<1>1. PICK c \in Clients : \/ ReceiveStandard(c) \/ ReceivePriority(c)
                          \/ ReceiveConnect(c) \/ ReceiveDisconnect(c)
  BY DEF Receive
<1>2. Receives(c)
  BY <1>1 DEF ReceiveStandard, ReceivePriority, ReceiveConnect, ReceiveDisconnect
<1>3. /\ queue' \in Seq(Clients) /\ Len(queue') <= QueueCapacity
      /\ UNCHANGED <<clock, sent_mask, config, applied, frozen>>
  BY <1>2, BoundsAssumption DEF Receives, TypeOK, clock
<1>4. ClockTyped' /\ PanelTyped'
  BY <1>3
<1>5. ASSUME NEW result \in Results, RespondNow(c, result)
      PROVE  ControlTyped' /\ ClientsTyped' /\ SettingsTyped'
  <2>1. ControlTyped' /\ call' \in [Clients -> Calls] /\ reply' \in [Clients -> Results]
    BY <1>5, CompleteTyped, LoopTopTyped DEF RespondNow
  <2>2. SettingsTyped'
    BY <1>5, <1>3 DEF RespondNow, SettingsTyped
  <2>3. QED
    BY <2>1, <2>2, <1>3 DEF ClientsTyped
<1>6. ASSUME StartExchange(c)
      PROVE  SessionTyped' /\ ControlTyped' /\ ClientsTyped' /\ SettingsTyped'
  <2>1. ControlTyped'
    BY <1>6 DEF StartExchange, ControlTyped, Phases
  <2>2. SettingsTyped' /\ ClientsTyped'
    BY <1>6, <1>3 DEF StartExchange, SettingsTyped, ClientsTyped
  <2>3. QED
    BY <1>6, <2>1, <2>2 DEF StartExchange
<1>7. ASSUME BeginConnect(c), UNCHANGED <<should_reconnect, call, reply>>
      PROVE  SessionTyped' /\ ControlTyped' /\ ClientsTyped' /\ SettingsTyped'
  <2>1. SessionTyped' /\ ControlTyped' /\ SettingsTyped'
    BY <1>7, <1>3, BeginConnectTyped
  <2>2. ClientsTyped'
    BY <1>7, <1>3 DEF ClientsTyped
  <2>3. QED
    BY <2>1, <2>2
<1>8. CASE ReceiveStandard(c)
  BY <1>8, <1>4, <1>5, <1>6, <1>r DEF ReceiveStandard
<1>9. CASE ReceivePriority(c)
  BY <1>9, <1>4, <1>5, <1>6, <1>r DEF ReceivePriority
<1>10. CASE ReceiveConnect(c)
  BY <1>10, <1>4, <1>5, <1>7, <1>r DEF ReceiveConnect
<1>11. CASE ReceiveDisconnect(c)
  BY <1>11, <1>4, <1>5, <1>r, ReleaseConnectionTyped DEF ReceiveDisconnect
<1>12. QED
  BY <1>1, <1>8, <1>9, <1>10, <1>11

\* The end of a client's exchange keeps the ranges.
LEMMA ServeTypeOK ==
    ASSUME TypeOK, ServeDone
    PROVE  TypeOK'
<1> USE TypeOKParts, PartsUnchanged
<1>1. PICK result \in {"ok", "timeout", "io"} : Finish(result)
  BY DEF ServeDone
<1>2. ControlTyped' /\ ClientsTyped'
  BY <1>1, FinishTyped DEF Results
<1>3. ReadTimeoutSecs \in Nat
  BY BoundsAssumption
<1>4. ClockTyped' /\ SessionTyped'
  <2>1. CASE Answered /\ UNCHANGED <<state, stream, failed_attempts, since_event>>
    BY <2>1, AnsweredTyped DEF SessionTyped
  <2>2. CASE TimedOut(ReadTimeoutSecs) /\ UNCHANGED <<state, stream, failed_attempts>>
    BY <2>2, <1>3, TimedOutTyped DEF SessionTyped
  <2>3. CASE Broken(1)
    BY <2>3, BrokenTyped
  <2>4. QED
    BY <2>1, <2>2, <2>3 DEF ServeDone
<1>5. QED
  BY <1>2, <1>4 DEF ServeDone

\* The push branch keeps the ranges.
LEMMA PushTypeOK ==
    ASSUME TypeOK, ReceivePush
    PROVE  TypeOK'
<1> USE TypeOKParts, PartsUnchanged
<1>1. ControlTyped'
  BY LoopTopTyped DEF ReceivePush
<1>2. 0 \in 0..MissedCap
  BY BoundsAssumption DEF MissedCap
<1>3. SessionTyped'
  <2>1. CASE missed_pings' = 0 /\ UNCHANGED <<state, stream, failed_attempts, since_event>>
    BY <2>1, <1>2 DEF SessionTyped
  <2>2. CASE UNCHANGED session
    BY <2>2
  <2>3. CASE connection_lost(1)
    BY <2>3, ConnectionLostTyped
  <2>4. QED
    BY <2>1, <2>2, <2>3 DEF ReceivePush
<1>4. QED
  BY <1>1, <1>3 DEF ReceivePush

\* The tick keeps the ranges, in each state it may find.
LEMMA TickTypeOK ==
    ASSUME TypeOK, Tick
    PROVE  TypeOK'
<1> USE TypeOKParts, PartsUnchanged
<1>1. PICK age \in 0..EventAgeCap :
        TickWatchdog(age) \/ TickConnected(age) \/ TickReconnect(age) \/ TickDisconnected(age)
  BY DEF Tick
<1>2. Ticks(age)
  BY <1>1 DEF TickWatchdog, TickConnected, TickReconnect, TickDisconnected
<1>3. ClockTyped'
  <2> DEFINE passed == IF lag > 0 THEN 0 ELSE 1
  <2>1. since_send + passed \in Nat /\ PingIdleSecs \in Nat
    BY BoundsAssumption DEF TypeOK
  <2>2. Least(since_send + passed, PingIdleSecs) \in 0..PingIdleSecs
    BY <2>1, LeastBounded
  <2>3. since_send' \in 0..PingIdleSecs
    BY <1>2, <2>2 DEF Ticks
  <2>4. lag' \in 0..LagCap
    BY <1>2, BoundsAssumption DEF Ticks, TypeOK, LagCap
  <2>5. QED
    BY <2>3, <2>4 DEF ClockTyped
<1>4. ClientsTyped' /\ PanelTyped' /\ config' = config
  BY <1>2 DEF Ticks
<1>5. LoopTop => ControlTyped'
  BY LoopTopTyped
<1>6. auto_read_dirty' \in BOOLEAN => SettingsTyped'
  BY <1>4 DEF SettingsTyped
<1>7. auto_read_dirty \in BOOLEAN
  BY DEF TypeOK
<1>8. since_event' = age /\ UNCHANGED <<state, stream, missed_pings, failed_attempts>>
        => SessionTyped'
  BY DEF SessionTyped
<1>9. CASE TickWatchdog(age)
  BY <1>9, <1>3, <1>4, <1>5, <1>6, <1>7, <1>8, ConnectionLostTyped DEF TickWatchdog
<1>10. CASE TickConnected(age)
  <2>1. ControlTyped'
    BY <1>10 DEF TickConnected, ControlTyped, Phases
  <2>2. QED
    BY <1>10, <1>3, <1>4, <1>6, <1>7, <2>1 DEF TickConnected
<1>11. CASE TickReconnect(age)
  <2>1. CASE BeginConnect(NoClient) /\ UNCHANGED should_reconnect
    BY <2>1, <1>3, <1>4, BeginConnectTyped
  <2>2. CASE /\ since_event' = age /\ LoopTop
             /\ UNCHANGED <<state, stream, missed_pings, failed_attempts, auto_read_dirty>>
    BY <2>2, <1>3, <1>4, <1>5, <1>6, <1>7, <1>8
  <2>3. QED
    BY <1>11, <2>1, <2>2 DEF TickReconnect
<1>12. CASE TickDisconnected(age)
  BY <1>12, <1>3, <1>4, <1>5, <1>6, <1>7 DEF TickDisconnected
<1>13. QED
  BY <1>1, <1>9, <1>10, <1>11, <1>12

\* handle_ping_timeout counts within its bound.
LEMMA PingTimeoutTyped ==
    ASSUME TypeOK, NEW heard \in BOOLEAN, handle_ping_timeout(heard)
    PROVE  SessionTyped'
<1> DEFINE missed == Least((IF heard THEN 0 ELSE missed_pings) + 1, MissedCap)
<1>1. (IF heard THEN 0 ELSE missed_pings) + 1 \in Nat /\ MissedCap \in Nat
  BY BoundsAssumption DEF TypeOK, MissedCap
<1>2. missed \in 0..MissedCap
  BY <1>1, LeastBounded
<1>3. CASE connection_lost(1)
  BY <1>3, ConnectionLostTyped
<1>4. CASE missed_pings' = missed /\ UNCHANGED <<state, stream, failed_attempts, since_event>>
  BY <1>4, <1>2 DEF SessionTyped, TypeOK
<1>5. QED
  BY <1>3, <1>4 DEF handle_ping_timeout

\* The mask re-send and the ping of a tick keep the ranges.
LEMMA TickStepTypeOK ==
    ASSUME TypeOK, TickStep
    PROVE  TypeOK'
<1> USE TypeOKParts, PartsUnchanged
<1>1. CASE TickResend
  <2>1. ControlTyped' /\ SettingsTyped'
    BY <1>1 DEF TickResend, ControlTyped, SettingsTyped, Phases
  <2>2. PanelTyped'
    BY <1>1 DEF TickResend, PanelTyped, SettingsTyped, Configs
  <2>3. QED
    BY <1>1, <2>1, <2>2 DEF TickResend
<1>2. CASE ResendAnswered
  <2>1. ClockTyped' /\ SessionTyped'
    BY <1>2, AnsweredTyped DEF ResendAnswered, SessionTyped
  <2>2. ControlTyped' /\ PanelTyped'
    BY <1>2, MasksAssumption DEF ResendAnswered, ControlTyped, PanelTyped, Phases
  <2>3. QED
    BY <1>2, <2>1, <2>2 DEF ResendAnswered
<1>3. CASE ResendFails
  <2>1. ReadTimeoutSecs \in Nat
    BY BoundsAssumption
  <2>2. ClockTyped' /\ SessionTyped'
    <3>1. CASE Broken(1)
      BY <3>1, BrokenTyped
    <3>2. CASE TimedOut(ReadTimeoutSecs) /\ UNCHANGED <<state, stream, failed_attempts>>
      BY <3>2, <2>1, TimedOutTyped DEF SessionTyped
    <3>3. QED
      BY <1>3, <3>1, <3>2 DEF ResendFails
  <2>3. ControlTyped' /\ PanelTyped' /\ SettingsTyped'
    BY <1>3, MasksAssumption
    DEF ResendFails, ControlTyped, PanelTyped, SettingsTyped, Phases
  <2>4. QED
    BY <1>3, <2>2, <2>3 DEF ResendFails
<1>4. CASE TickPing
  <2>1. CASE LoopTop
    BY <1>4, <2>1, LoopTopTyped DEF TickPing
  <2>2. CASE phase' = "ping" /\ UNCHANGED <<server, should_reconnect>>
    <3>1. ControlTyped'
      BY <2>2 DEF ControlTyped, Phases
    <3>2. QED
      BY <1>4, <3>1 DEF TickPing
  <2>3. QED
    BY <1>4, <2>1, <2>2 DEF TickPing
<1>5. CASE PingDone
  <2>1. ControlTyped'
    BY <1>5, LoopTopTyped DEF PingDone
  <2>2. CASE Answered /\ UNCHANGED <<state, stream, failed_attempts, since_event>>
    <3>1. ClockTyped' /\ SessionTyped'
      BY <2>2, AnsweredTyped DEF SessionTyped
    <3>2. QED
      BY <1>5, <2>1, <3>1 DEF PingDone
  <2>3. CASE Broken(1)
    BY <1>5, <2>1, <2>3, BrokenTyped DEF PingDone
  <2>4. CASE /\ \E heard \in BOOLEAN : (heard => ~frozen) /\ handle_ping_timeout(heard)
             /\ since_send' \in {since_send, 0} /\ UNCHANGED lag
    <3>1. SessionTyped'
      BY <2>4, PingTimeoutTyped
    <3>2. ClockTyped'
      BY <2>4, BoundsAssumption DEF ClockTyped
    <3>3. QED
      BY <1>5, <2>1, <3>1, <3>2 DEF PingDone
  <2>5. QED
    BY <1>5, <2>2, <2>3, <2>4 DEF PingDone
<1>6. QED
  BY <1>1, <1>2, <1>3, <1>4, <1>5 DEF TickStep

\* A link that goes silent changes nothing else.
LEMMA FreezeTypeOK ==
    ASSUME TypeOK, Freeze
    PROVE  TypeOK'
  BY DEF Freeze, TypeOK, session, clock, control, settings, clients

\* The type invariant is inductive.
LEMMA NextTypeOK == TypeOK /\ [Next]_vars => TypeOK'
<1> SUFFICES ASSUME TypeOK, [Next]_vars PROVE TypeOK'
  OBVIOUS
<1>1. ASSUME NEW c \in Clients, ClientStep(c) PROVE TypeOK'
  BY <1>1, ClientTypeOK
<1>2. CASE UNCHANGED vars
  BY <1>2 DEF TypeOK, vars, session, clock, control, settings, clients
<1>3. QED
  BY <1>1, <1>2, ConnectTypeOK, ReceiveTypeOK, ServeTypeOK, PushTypeOK,
     TickTypeOK, TickStepTypeOK, FreezeTypeOK DEF Next, WorkerBusy

\* Every variable keeps its range, for any number of clients, any capacity of
\* the channel and any limits: in particular the channel of client.rs never
\* holds more than its capacity, whatever the worker is doing.
THEOREM TypeCorrect == Spec => []TypeOK
<1>1. QED
  BY InitTypeOK, NextTypeOK, PTL DEF Spec

-----------------------------------------------------------------------------
\* The session.

\* SessionConsistent says which await goes with which state and stream; it
\* becomes inductive once it is known what a tick may find when it gets to the
\* ping.  A session has no failed attempts.
SessionInv ==
    /\ SessionConsistent
    /\ phase = "tick_ping" => state \in {"Connected", "ConnectionLost"}
    /\ state = "Connected" => failed_attempts = 0

\* Who is served: nobody at the select! and during a tick, a command in an
\* exchange, and in a connect the client that asked, if any.
ServerInv ==
    /\ phase \notin ConnectPhases \cup {"serve"} => server = NoClient
    /\ phase = "serve" => server \in Clients /\ call[server] \in {"standard", "priority"}
    /\ phase \in ConnectPhases => server = NoClient \/ IsConnect(server)

\* A change of the mask that is still to be sent: the worker was told of it, or
\* will be.
Owed == auto_read_dirty \/ ReloadPending

\* What keeps the panel's mask the configured one, also while it is being sent.
SyncInv ==
    /\ state = "Connected" /\ phase # "resend"
        => Owed \/ applied \in {config.auto_read, Refused}
    /\ phase \in {"mask", "resend"} => Owed \/ sent_mask = config.auto_read
    /\ phase \in {"ethm", "integra"} => applied = NoMask

\* Where the client actions leave the worker.
LEMMA ClientFrame ==
    ASSUME NEW c \in Clients, ClientStep(c), ~StartWorker(c)
    PROVE  /\ UNCHANGED <<session, clock, control, sent_mask, applied, frozen>>
           /\ auto_read_dirty' = auto_read_dirty \/ auto_read_dirty' = TRUE
  BY DEF ClientStep, Send, HotReload, HotReloadFlag, Reload, ReloadCheck,
         ReloadConnect, settings

\* SessionInv is inductive: one case per action.
LEMMA SessionInvStep == TypeOK /\ SessionInv /\ [Next]_vars => SessionInv'
<1> SUFFICES ASSUME TypeOK, SessionInv, [Next]_vars PROVE SessionInv'
  OBVIOUS
<1> USE DEF SessionInv, SessionConsistent, ConnectPhases, session, control
<1>1. ASSUME NEW c \in Clients, ClientStep(c) PROVE SessionInv'
  <2>1. CASE StartWorker(c)
    BY <2>1 DEF StartWorker, BeginConnect
  <2>2. CASE ~StartWorker(c)
    BY <1>1, <2>2, ClientFrame
  <2>3. QED
    BY <2>1, <2>2
<1>2. CASE Receive
  <2>1. PICK c \in Clients : \/ ReceiveStandard(c) \/ ReceivePriority(c)
                            \/ ReceiveConnect(c) \/ ReceiveDisconnect(c)
    BY <1>2 DEF Receive
  <2>2. CASE ReceiveStandard(c)
    BY <2>2 DEF ReceiveStandard, Receives, RespondNow, StartExchange, LoopTop
  <2>3. CASE ReceivePriority(c)
    BY <2>3 DEF ReceivePriority, Receives, RespondNow, StartExchange, LoopTop, TypeOK
  <2>4. CASE ReceiveConnect(c)
    BY <2>4 DEF ReceiveConnect, Receives, RespondNow, BeginConnect, LoopTop, TypeOK
  <2>5. CASE ReceiveDisconnect(c)
    BY <2>5 DEF ReceiveDisconnect, Receives, RespondNow, LoopTop, release_connection
  <2>6. QED
    BY <2>1, <2>2, <2>3, <2>4, <2>5
<1>3. CASE ReceivePush
  BY <1>3 DEF ReceivePush, LoopTop, connection_lost
<1>4. CASE Tick
  <2>1. PICK age \in 0..EventAgeCap : \/ TickWatchdog(age) \/ TickConnected(age)
                                     \/ TickReconnect(age) \/ TickDisconnected(age)
    BY <1>4 DEF Tick
  <2>2. CASE TickWatchdog(age)
    BY <2>2 DEF TickWatchdog, Ticks, LoopTop, connection_lost
  <2>3. CASE TickConnected(age)
    BY <2>3 DEF TickConnected, Ticks
  <2>4. CASE TickReconnect(age)
    BY <2>4 DEF TickReconnect, Ticks, LoopTop, BeginConnect
  <2>5. CASE TickDisconnected(age)
    BY <2>5 DEF TickDisconnected, Ticks, LoopTop
  <2>6. QED
    BY <2>1, <2>2, <2>3, <2>4, <2>5
<1>5. CASE ConnectStep
  <2>1. CASE OpenTransport
    BY <2>1 DEF OpenTransport
  <2>2. CASE OpenFails
    BY <2>2 DEF OpenFails, Finish, LoopTop, connection_lost
  <2>3. CASE HandshakeFails
    BY <2>3 DEF HandshakeFails, Finish, LoopTop, Broken, connection_lost
  <2>4. CASE HandshakeInvalid
    BY <2>4 DEF HandshakeInvalid, Finish, LoopTop
  <2>5. CASE EthmVersion
    BY <2>5 DEF EthmVersion
  <2>6. CASE IntegraVersion
    <3>0. state = "Handshake" /\ stream /\ phase # "parked"
      BY <2>6 DEF IntegraVersion
    <3>1. CASE set_state_connected /\ Finish("ok")
      BY <3>0, <3>1 DEF Finish, LoopTop, set_state_connected
    <3>2. CASE phase' = "mask" /\ UNCHANGED <<state, stream, failed_attempts>>
      BY <3>0, <3>2
    <3>3. QED
      BY <2>6, <3>1, <3>2 DEF IntegraVersion
  <2>7. CASE MaskAnswered
    BY <2>7 DEF MaskAnswered, Finish, LoopTop, set_state_connected
  <2>8. QED
    BY <1>5, <2>1, <2>2, <2>3, <2>4, <2>5, <2>6, <2>7 DEF ConnectStep
<1>6. CASE ServeDone
  BY <1>6 DEF ServeDone, Finish, LoopTop, Broken, connection_lost
<1>7. CASE TickStep
  <2>1. CASE TickResend
    BY <2>1 DEF TickResend
  <2>2. CASE ResendAnswered
    BY <2>2 DEF ResendAnswered
  <2>3. CASE ResendFails
    BY <2>3 DEF ResendFails, Broken, connection_lost
  <2>4. CASE TickPing
    <3>1. UNCHANGED <<state, stream, failed_attempts>> /\ phase = "tick_ping"
      BY <2>4 DEF TickPing
    <3>2. CASE stream /\ phase' = "ping"
      BY <3>1, <3>2
    <3>3. CASE LoopTop
      BY <3>1, <3>3 DEF LoopTop
    <3>4. QED
      BY <2>4, <3>2, <3>3 DEF TickPing
  <2>5. CASE PingDone
    BY <2>5 DEF PingDone, LoopTop, Broken, connection_lost, handle_ping_timeout
  <2>6. QED
    BY <1>7, <2>1, <2>2, <2>3, <2>4, <2>5 DEF TickStep
<1>8. CASE Freeze
  BY <1>8 DEF Freeze
<1>9. CASE UNCHANGED vars
  BY <1>9 DEF vars
<1>10. QED
  BY <1>1, <1>2, <1>3, <1>4, <1>5, <1>6, <1>7, <1>8, <1>9 DEF Next, WorkerBusy

\* The worker starts parked, disconnected and without a stream.
LEMMA InitSessionInv == Init => SessionInv
  BY DEF Init, SessionInv, SessionConsistent, ConnectPhases

\* A stream is held exactly in Handshake and Connected, and every await of the
\* worker finds the state and the stream it was started with, although exchange
\* may drop them under the operations that call it.
THEOREM SessionCorrect == Spec => []SessionConsistent
<1>1. SessionInv => SessionConsistent
  BY DEF SessionInv
<1>2. QED
  BY <1>1, TypeCorrect, InitSessionInv, SessionInvStep, PTL DEF Spec

\* The session invariant holds in every reachable state.
LEMMA SessionInvariant == Spec => [](TypeOK /\ SessionInv)
  BY TypeCorrect, InitSessionInv, SessionInvStep, PTL DEF Spec

\* No step leaves Disconnected but the connect of a client: a tick that was
\* under way when the disconnect was served, or one that reads a stale
\* auto_reconnect, cannot restart the connection.
LEMMA DisconnectSticksStep ==
    ASSUME TypeOK, SessionInv, Next, state = "Disconnected", state' # "Disconnected"
    PROVE  \E c \in Clients : server' = c /\ IsConnect(c)'
<1> USE DEF SessionInv, SessionConsistent, ConnectPhases, session
<1>1. ASSUME NEW c \in Clients, ClientStep(c) PROVE server' = c /\ IsConnect(c)'
  <2>1. StartWorker(c)
    BY <1>1, ClientFrame
  <2>2. server' = c /\ call'[c] = "connect"
    BY <2>1 DEF StartWorker, BeginConnect, TypeOK
  <2>3. QED
    BY <2>2 DEF IsConnect
<1>2. CASE Receive
  <2>1. PICK c \in Clients : \/ ReceiveStandard(c) \/ ReceivePriority(c)
                            \/ ReceiveConnect(c) \/ ReceiveDisconnect(c)
    BY <1>2 DEF Receive
  <2>2. ReceiveConnect(c)
    BY <2>1 DEF ReceiveStandard, ReceivePriority, ReceiveDisconnect, RespondNow,
                StartExchange, release_connection
  <2>3. server' = c /\ IsConnect(c) /\ call' = call
    BY <2>2 DEF ReceiveConnect, BeginConnect
  <2>4. QED
    BY <2>3 DEF IsConnect
<1>3. ~ReceivePush /\ ~ServeDone /\ ~Freeze
  BY DEF ReceivePush, ServeDone, Freeze
<1>4. ~Tick
  BY DEF Tick, TickWatchdog, TickConnected, TickReconnect, TickDisconnected
<1>5. ~ConnectStep
  BY DEF ConnectStep, OpenTransport, OpenFails, HandshakeFails, HandshakeInvalid,
         EthmVersion, IntegraVersion, MaskAnswered
<1>6. ~TickStep
  BY DEF TickStep, TickResend, ResendAnswered, ResendFails, TickPing, PingDone
<1>7. QED
  BY <1>1, <1>2, <1>3, <1>4, <1>5, <1>6 DEF Next, WorkerBusy

\* Only a client's connect leaves Disconnected: the promise of disconnect to halt
\* automatic reconnects (client.rs), against every tick already under way.
THEOREM DisconnectSticks == Spec => UserDisconnectSticks
<1>1. TypeOK /\ SessionInv /\ [Next]_vars =>
        [state = "Disconnected" /\ state' # "Disconnected"
            => \E c \in Clients : server' = c /\ IsConnect(c)']_vars
  BY DisconnectSticksStep DEF vars, session
<1>2. QED
  BY <1>1, SessionInvariant, PTL DEF Spec, UserDisconnectSticks

\* Every step counts a loss once: connection_lost runs outside of connect only with
\* a stream, and a session in Connected has no failed attempts.
LEMMA LostOnceStep ==
    ASSUME TypeOK, SessionInv, Next
    PROVE  LostOnce
<1> USE DEF LostOnce, SessionInv, SessionConsistent, ConnectPhases, session
<1>1. ASSUME NEW c \in Clients, ClientStep(c) PROVE LostOnce
  <2>1. CASE StartWorker(c)
    BY <2>1 DEF StartWorker, BeginConnect
  <2>2. CASE ~StartWorker(c)
    BY <1>1, <2>2, ClientFrame
  <2>3. QED
    BY <2>1, <2>2
<1>2. CASE Receive
  BY <1>2 DEF Receive, ReceiveStandard, ReceivePriority, ReceiveConnect,
              ReceiveDisconnect, RespondNow, StartExchange, BeginConnect, release_connection
<1>3. CASE ReceivePush
  BY <1>3 DEF ReceivePush, connection_lost
<1>4. CASE ServeDone
  BY <1>4 DEF ServeDone, Broken, connection_lost
<1>5. CASE Tick
  BY <1>5 DEF Tick, TickWatchdog, TickConnected, TickReconnect, TickDisconnected,
              Ticks, BeginConnect, connection_lost
<1>6. CASE ConnectStep
  BY <1>6 DEF ConnectStep, OpenTransport, OpenFails, HandshakeFails, HandshakeInvalid,
              EthmVersion, IntegraVersion, MaskAnswered
<1>7. CASE TickStep
  BY <1>7 DEF TickStep, TickResend, ResendAnswered, ResendFails, TickPing, PingDone,
              handle_ping_timeout, Broken, connection_lost
<1>8. CASE Freeze
  BY <1>8 DEF Freeze
<1>9. QED
  BY <1>1, <1>2, <1>3, <1>4, <1>5, <1>6, <1>7, <1>8 DEF Next, WorkerBusy

\* Outside of connect a loss is counted once and found with a stream, so the
\* first backoff after a session is the shortest one.
THEOREM LossCounted == Spec => LossCountedOnce
<1>1. TypeOK /\ SessionInv /\ [Next]_vars => [LostOnce]_vars
  BY LostOnceStep
<1>2. QED
  BY <1>1, SessionInvariant, PTL DEF Spec, LossCountedOnce

-----------------------------------------------------------------------------
\* Missed pings.

\* handle_ping_timeout and every reset keep the count below the limit in a session.
LEMMA MissedPingsStep ==
    ASSUME TypeOK, SessionInv, MissedPingsBelowLimit, [Next]_vars
    PROVE  MissedPingsBelowLimit'
<1> USE BoundsAssumption DEF MissedPingsBelowLimit, session
<1>1. ASSUME NEW c \in Clients, ClientStep(c) PROVE MissedPingsBelowLimit'
  <2>1. CASE StartWorker(c)
    BY <2>1 DEF StartWorker, BeginConnect
  <2>2. CASE ~StartWorker(c)
    BY <1>1, <2>2, ClientFrame, ZenonT(40)
  <2>3. QED
    BY <2>1, <2>2
<1>2. CASE Receive
  BY <1>2 DEF Receive, ReceiveStandard, ReceivePriority, ReceiveConnect,
              ReceiveDisconnect, RespondNow, StartExchange, BeginConnect, release_connection
<1>3. CASE ReceivePush
  BY <1>3, Zenon DEF ReceivePush, connection_lost
<1>4. CASE ServeDone
  <2>1. CASE Answered /\ UNCHANGED <<state, stream, failed_attempts, since_event>>
    BY <2>1 DEF Answered
  <2>2. CASE TimedOut(ReadTimeoutSecs) /\ UNCHANGED <<state, stream, failed_attempts>>
    BY <2>2 DEF TimedOut
  <2>3. CASE Broken(1)
    BY <2>3 DEF Broken, connection_lost
  <2>4. QED
    BY <1>4, <2>1, <2>2, <2>3 DEF ServeDone
<1>5. CASE Tick
  BY <1>5 DEF Tick, TickWatchdog, TickConnected, TickReconnect, TickDisconnected,
              Ticks, BeginConnect, connection_lost
<1>6. CASE ConnectStep
  BY <1>6 DEF ConnectStep, OpenTransport, OpenFails, HandshakeFails, HandshakeInvalid,
              EthmVersion, IntegraVersion, MaskAnswered, connection_lost, Broken,
              Answered, set_state_connected, SessionInv, SessionConsistent
<1>7. CASE TickStep
  <2>1. CASE TickResend \/ ResendAnswered \/ TickPing
    BY <2>1 DEF TickResend, ResendAnswered, TickPing, Answered
  <2>2. CASE ResendFails
    BY <2>2 DEF ResendFails, TimedOut, Broken, connection_lost
  <2>3. CASE PingDone
    <3>1. CASE Answered \/ Broken(1)
      BY <3>1 DEF Answered, Broken, connection_lost
    <3>2. ASSUME NEW heard \in BOOLEAN, handle_ping_timeout(heard)
          PROVE  MissedPingsBelowLimit'
      BY <3>2 DEF handle_ping_timeout, connection_lost
    <3>3. QED
      BY <2>3, <3>1, <3>2 DEF PingDone
  <2>4. QED
    BY <1>7, <2>1, <2>2, <2>3 DEF TickStep
<1>8. CASE Freeze
  BY <1>8 DEF Freeze
<1>9. CASE UNCHANGED vars
  BY <1>9 DEF vars
<1>10. QED
  BY <1>1, <1>2, <1>3, <1>4, <1>5, <1>6, <1>7, <1>8, <1>9 DEF Next, WorkerBusy

\* No session outlives max_missed_pings unanswered pings in a row: the step
\* that counts the last of them is the step that drops the session.
THEOREM MissedPingsBounded == Spec => []MissedPingsBelowLimit
<1>1. Init => MissedPingsBelowLimit
  BY DEF Init, MissedPingsBelowLimit
<1>2. QED
  BY <1>1, SessionInvariant, MissedPingsStep, PTL DEF Spec

-----------------------------------------------------------------------------
\* The caller being served.

\* A client step moves neither the worker nor the call it is serving.
LEMMA ClientServerFrame ==
    ASSUME TypeOK, ServerInv, NEW c \in Clients, ClientStep(c), ~StartWorker(c)
    PROVE  /\ UNCHANGED <<phase, server>>
           /\ server # NoClient => call'[server] = call[server]
<1>1. UNCHANGED <<phase, server>>
  BY ClientFrame DEF control
<1>2. call[c] \in {"none", "hot_reload", "reload_check", "reload_next"}
  BY DEF ClientStep, Send, HotReload, HotReloadFlag, Reload, ReloadCheck, ReloadConnect
<1>3. c # server
  BY <1>2, ClientsAssumption DEF ServerInv, IsConnect, TypeOK
<1>4. \A d \in Clients \ {c} : call'[d] = call[d]
  BY DEF TypeOK, ClientStep, Send, HotReload, HotReloadFlag, Reload, ReloadCheck,
         ReloadConnect, Enqueue, Complete
<1>5. QED
  BY <1>1, <1>3, <1>4 DEF TypeOK

\* ServerInv is inductive.
LEMMA ServerInvStep ==
    ASSUME TypeOK, SessionInv, ServerInv, [Next]_vars
    PROVE  ServerInv'
<1> USE DEF ServerInv, IsConnect, ConnectPhases, control, clients
<1>1. ASSUME NEW c \in Clients, ClientStep(c) PROVE ServerInv'
  <2>1. CASE StartWorker(c)
    BY <2>1 DEF StartWorker, BeginConnect, TypeOK
  <2>2. CASE ~StartWorker(c)
    <3>1. /\ phase' = phase /\ server' = server
          /\ server # NoClient => call'[server'] = call[server]
      BY <1>1, <2>2, ClientServerFrame
    <3>2. phase = "serve" => server # NoClient
      BY ClientsAssumption
    <3>3. QED
      BY <3>1, <3>2
  <2>3. QED
    BY <2>1, <2>2
<1>2. CASE Receive
  BY <1>2, ClientsAssumption
  DEF Receive, ReceiveStandard, ReceivePriority, ReceiveConnect,
      ReceiveDisconnect, RespondNow, StartExchange, BeginConnect, LoopTop
<1>3. CASE ReceivePush
  BY <1>3 DEF ReceivePush, LoopTop
<1>4. CASE ServeDone
  BY <1>4 DEF ServeDone, Finish, LoopTop
<1>5. CASE Tick
  <2>1. Tick => phase = "idle" /\ UNCHANGED clients
    BY DEF Tick, TickWatchdog, TickConnected, TickReconnect, TickDisconnected, Ticks
  <2>2. \/ LoopTop
        \/ phase' = "tick_resend" /\ UNCHANGED server
        \/ phase' = "opening" /\ server' = NoClient
    BY <1>5 DEF Tick, TickWatchdog, TickConnected, TickReconnect, TickDisconnected,
                BeginConnect
  <2>3. QED
    BY <1>5, <2>1, <2>2 DEF LoopTop
<1>6. CASE ConnectStep
  <2>1. CASE OpenTransport \/ EthmVersion
    BY <2>1 DEF OpenTransport, EthmVersion
  <2>2. CASE LoopTop
    BY <2>2 DEF LoopTop
  <2>3. CASE IntegraVersion /\ ~LoopTop
    BY <2>3 DEF IntegraVersion, Finish
  <2>4. QED
    BY <1>6, <2>1, <2>2, <2>3 DEF ConnectStep, OpenFails, HandshakeFails,
       HandshakeInvalid, MaskAnswered, Finish
<1>7. CASE TickStep
  BY <1>7 DEF TickStep, TickResend, ResendAnswered, ResendFails, TickPing, PingDone, LoopTop
<1>8. CASE Freeze
  BY <1>8 DEF Freeze
<1>9. CASE UNCHANGED vars
  BY <1>9 DEF vars
<1>10. QED
  BY <1>1, <1>2, <1>3, <1>4, <1>5, <1>6, <1>7, <1>8, <1>9 DEF Next, WorkerBusy

\* Whoever is being served waits for what the worker's phase works on.
LEMMA ServerInvariant == Spec => [](TypeOK /\ SessionInv /\ ServerInv)
<1>1. Init => ServerInv
  BY DEF Init, ServerInv, ConnectPhases
<1>2. QED
  BY <1>1, SessionInvariant, ServerInvStep, PTL DEF Spec

-----------------------------------------------------------------------------
\* The push mask.

PendingCalls == {"hot_reload", "reload_check", "reload_disconnect"}

\* Giving a caller its result ends no reload that is still to be announced.
LEMMA CompleteKeepsPending ==
    ASSUME TypeOK, NEW who, NEW result, Complete(who, result),
           who \in Clients => call[who] \notin PendingCalls
    PROVE  ReloadPending => ReloadPending'
  BY DEF Complete, ReloadPending, PendingCalls

\* A reload that changes the selection owes a mask until the flag is up.
LEMMA ClientSyncStep ==
    ASSUME TypeOK, SessionInv, SyncInv, NEW c \in Clients, ClientStep(c)
    PROVE  SyncInv'
<1> USE DEF SyncInv, Owed, session, control, settings, SessionInv, SessionConsistent
<1>1. CASE StartWorker(c)
  BY <1>1 DEF StartWorker, BeginConnect
<1>2. CASE \E r \in Requests \ {"hot_reload", "reload"} : Send(c, r)
  <2>1. ReloadPending => ReloadPending'
    BY <1>2 DEF Send, Enqueue, ReloadPending, TypeOK
  <2>2. UNCHANGED <<session, control, sent_mask, settings, applied>>
    BY <1>2 DEF Send
  <2>3. QED
    BY <2>1, <2>2
<1>3. CASE HotReload(c)
  <2>1. CASE config'.auto_read = config.auto_read
    <3>1. ReloadPending => ReloadPending'
      BY <1>3 DEF HotReload, ReloadPending, TypeOK
    <3>2. QED
      BY <1>3, <2>1, <3>1 DEF HotReload
  <2>2. CASE config'.auto_read # config.auto_read
    <3>1. ReloadPending'
      BY <1>3, <2>2 DEF HotReload, ReloadPending, TypeOK
    <3>2. QED
      BY <1>3, <3>1 DEF HotReload
  <2>3. QED
    BY <2>1, <2>2
<1>4. CASE HotReloadFlag(c)
  BY <1>4 DEF HotReloadFlag
<1>5. CASE Reload(c)
  <2>1. ReloadPending'
    BY <1>5 DEF Reload, ReloadPending, TypeOK
  <2>2. QED
    BY <1>5, <2>1 DEF Reload
<1>6. CASE ReloadCheck(c)
  <2>1. UNCHANGED <<session, control, sent_mask, settings, applied>>
    BY <1>6 DEF ReloadCheck
  <2>2. CASE state = "Disconnected"
    BY <2>1, <2>2
  <2>3. CASE state # "Disconnected"
    <3>1. ReloadPending'
      BY <1>6, <2>3 DEF ReloadCheck, Enqueue, ReloadPending, TypeOK
    <3>2. QED
      BY <2>1, <3>1
  <2>4. QED
    BY <2>2, <2>3
<1>7. CASE ReloadConnect(c)
  <2>1. ReloadPending => ReloadPending'
    BY <1>7 DEF ReloadConnect, Enqueue, ReloadPending, TypeOK
  <2>2. UNCHANGED <<session, control, sent_mask, settings, applied>>
    BY <1>7 DEF ReloadConnect
  <2>3. QED
    BY <2>1, <2>2
<1>8. QED
  BY <1>1, <1>2, <1>3, <1>4, <1>5, <1>6, <1>7 DEF ClientStep

\* connect sends the configured mask or leaves the debt where it was.
LEMMA ConnectSyncStep ==
    ASSUME TypeOK, SessionInv, ServerInv, SyncInv, ConnectStep
    PROVE  SyncInv'
<1> USE DEF SyncInv, Owed, SessionInv, SessionConsistent, settings
<1>1. phase \in ConnectPhases /\ config' = config /\ auto_read_dirty' = auto_read_dirty
  BY DEF ConnectStep, OpenTransport, OpenFails, HandshakeFails, HandshakeInvalid,
         EthmVersion, IntegraVersion, MaskAnswered, ConnectPhases
<1>2. server \in Clients => call[server] \notin PendingCalls
  BY <1>1, ClientsAssumption DEF ServerInv, IsConnect, PendingCalls
<1>3. ReloadPending => ReloadPending'
  <2>1. ASSUME NEW result, Finish(result) PROVE ReloadPending => ReloadPending'
    BY <1>2, <2>1, CompleteKeepsPending DEF Finish, PendingCalls
  <2>2. UNCHANGED clients => (ReloadPending => ReloadPending')
    BY DEF clients, ReloadPending
  <2>3. QED
    BY <2>1, <2>2 DEF ConnectStep, OpenTransport, OpenFails, HandshakeFails,
       HandshakeInvalid, EthmVersion, IntegraVersion, MaskAnswered
<1>4. CASE OpenTransport
  BY <1>1, <1>4 DEF OpenTransport
<1>5. CASE OpenFails
  BY <1>5 DEF OpenFails, Finish, LoopTop, connection_lost
<1>6. CASE HandshakeFails
  BY <1>6 DEF HandshakeFails, Finish, LoopTop, Broken, connection_lost
<1>7. CASE HandshakeInvalid
  BY <1>7 DEF HandshakeInvalid, Finish, LoopTop
<1>8. CASE EthmVersion
  BY <1>1, <1>8 DEF EthmVersion
<1>9. CASE IntegraVersion
  <2>1. CASE config.auto_read = NoMask /\ Finish("ok")
    BY <1>1, <1>9, <2>1 DEF IntegraVersion, Finish, LoopTop
  <2>2. CASE phase' = "mask" /\ sent_mask' = config.auto_read /\ UNCHANGED state
    BY <1>1, <1>9, <2>2 DEF IntegraVersion
  <2>3. QED
    BY <1>9, <2>1, <2>2 DEF IntegraVersion
<1>10. CASE MaskAnswered
  BY <1>1, <1>3, <1>10 DEF MaskAnswered, Finish, LoopTop
<1>11. QED
  BY <1>4, <1>5, <1>6, <1>7, <1>8, <1>9, <1>10 DEF ConnectStep

\* SyncInv is inductive: the tick and connect are the only ones to settle a debt.
LEMMA SyncInvStep ==
    ASSUME TypeOK, SessionInv, ServerInv, SyncInv, [Next]_vars
    PROVE  SyncInv'
<1> USE DEF SyncInv, Owed, SessionInv, SessionConsistent, session, control, settings
<1>1. ASSUME UNCHANGED clients PROVE ReloadPending' <=> ReloadPending
  BY <1>1 DEF clients, ReloadPending
<1>2. ASSUME NEW c \in Clients, ClientStep(c) PROVE SyncInv'
  BY <1>2, ClientSyncStep
<1>3. CASE Receive
  <2>1. PICK c \in Clients : \/ ReceiveStandard(c) \/ ReceivePriority(c)
                            \/ ReceiveConnect(c) \/ ReceiveDisconnect(c)
    BY <1>3 DEF Receive
  <2>2. /\ phase = "idle"
        /\ UNCHANGED <<sent_mask, config, applied>>
    BY <2>1 DEF ReceiveStandard, ReceivePriority, ReceiveConnect, ReceiveDisconnect, Receives
  <2>3. CASE ReceiveDisconnect(c)
    BY <2>2, <2>3 DEF ReceiveDisconnect, RespondNow, LoopTop, release_connection
  <2>4. CASE BeginConnect(c)
    BY <2>4 DEF BeginConnect
  <2>5. CASE StartExchange(c)
    <3>1. UNCHANGED call
      BY <2>5 DEF StartExchange
    <3>2. ReloadPending' <=> ReloadPending
      BY <3>1 DEF ReloadPending
    <3>3. QED
      BY <2>2, <2>5, <3>2 DEF StartExchange
  <2>6. ASSUME NEW result, RespondNow(c, result), UNCHANGED session,
               call[c] \notin PendingCalls
        PROVE  SyncInv'
    <3>1. ReloadPending => ReloadPending'
      BY <2>6, CompleteKeepsPending DEF RespondNow
    <3>2. QED
      BY <2>2, <2>6, <3>1 DEF RespondNow, LoopTop
  <2>7. CASE ReceiveStandard(c)
    BY <2>7, <2>5, <2>6 DEF ReceiveStandard, PendingCalls
  <2>8. CASE ReceivePriority(c)
    BY <2>8, <2>5, <2>6 DEF ReceivePriority, PendingCalls
  <2>9. CASE ReceiveConnect(c)
    BY <2>9, <2>4, <2>6 DEF ReceiveConnect, IsConnect, PendingCalls
  <2>10. QED
    BY <2>1, <2>3, <2>7, <2>8, <2>9
<1>4. CASE ReceivePush
  BY <1>1, <1>4 DEF ReceivePush, LoopTop, connection_lost
<1>5. CASE ServeDone
  <2>1. server \in Clients => call[server] \notin PendingCalls
    BY <1>5 DEF ServeDone, ServerInv, PendingCalls
  <2>2. ReloadPending => ReloadPending'
    BY <1>5, <2>1, CompleteKeepsPending DEF ServeDone, Finish
  <2>3. UNCHANGED <<settings, sent_mask, applied>> /\ LoopTop /\ phase = "serve"
    BY <1>5 DEF ServeDone, Finish
  <2>4. state' = state \/ state' = "ConnectionLost"
    BY <1>5 DEF ServeDone, Broken, connection_lost
  <2>5. QED
    BY <2>2, <2>3, <2>4 DEF LoopTop
<1>6. CASE Tick
  <2>1. /\ phase = "idle"
        /\ UNCHANGED <<sent_mask, config, clients, applied>>
    BY <1>6 DEF Tick, TickWatchdog, TickConnected, TickReconnect, TickDisconnected, Ticks
  <2>2. CASE BeginConnect(NoClient)
    BY <2>2 DEF BeginConnect
  <2>3. CASE ~BeginConnect(NoClient)
    <3>1. /\ phase' \in {"idle", "tick_resend"} /\ UNCHANGED auto_read_dirty
          /\ state' = state \/ state' = "ConnectionLost"
      BY <1>6, <2>3 DEF Tick, TickWatchdog, TickConnected, TickReconnect,
                        TickDisconnected, LoopTop, connection_lost
    <3>2. QED
      BY <1>1, <2>1, <3>1
  <2>4. QED
    BY <2>2, <2>3
<1>7. CASE ConnectStep
  BY <1>7, ConnectSyncStep
<1>8. CASE TickResend
  BY <1>1, <1>8 DEF TickResend
<1>9. CASE ResendAnswered
  BY <1>1, <1>9 DEF ResendAnswered
<1>10. CASE ResendFails
  BY <1>10 DEF ResendFails
<1>11. CASE TickPing
  BY <1>1, <1>11 DEF TickPing, LoopTop
<1>12. CASE PingDone
  BY <1>1, <1>12 DEF PingDone, LoopTop, Broken, handle_ping_timeout, connection_lost
<1>13. CASE Freeze
  BY <1>1, <1>13 DEF Freeze
<1>14. CASE UNCHANGED vars
  BY <1>1, <1>14 DEF vars
<1>15. QED
  BY <1>2, <1>3, <1>4, <1>5, <1>6, <1>7, <1>8, <1>9, <1>10, <1>11, <1>12, <1>13, <1>14
  DEF Next, WorkerBusy, TickStep

\* A change of the auto_read_* categories is never lost: not when hot reloads
\* overtake each other or the tick, not when the resend fails, not when a
\* connect clears the flag while a reload is half done.
THEOREM MaskSynchronised == Spec => []MaskInSync
<1>1. Init => SyncInv
  BY DEF Init, SyncInv
<1>2. SyncInv => MaskInSync
  BY DEF SyncInv, MaskInSync, Owed
<1>3. QED
  BY <1>1, <1>2, ServerInvariant, SyncInvStep, PTL DEF Spec

-----------------------------------------------------------------------------
\* The lifecycle.

LifecycleStep == [Lifecycle!Next]_<<state, stream>>

\* Each way of the worker to change the state is one move of the lifecycle,
\* when it is taken where the worker takes it.
LEMMA LifecycleMoves ==
    ASSUME TypeOK, SessionInv
    PROVE  /\ \A who : BeginConnect(who) /\ state \in {"Disconnected", "ConnectionLost"}
                => LifecycleStep
           /\ \A times : connection_lost(times)
                       /\ state \in {"Connecting", "Handshake", "Connected"}
                => LifecycleStep
           /\ set_state_connected /\ state = "Handshake" => LifecycleStep
           /\ release_connection /\ state \notin {"Disconnected", "Connecting"}
                => LifecycleStep
           /\ UNCHANGED <<state, stream>> => LifecycleStep
  BY DEF LifecycleStep, Lifecycle!Next, Lifecycle!Attempt, Lifecycle!OpenLink,
         Lifecycle!Establish, Lifecycle!Drop, Lifecycle!Release, Lifecycle!Settle,
         BeginConnect, connection_lost, set_state_connected, release_connection, TypeOK

\* Every step of the worker is a step of the lifecycle or leaves it alone.
LEMMA LifecycleStepTaken ==
    ASSUME TypeOK, SessionInv, [Next]_vars
    PROVE  LifecycleStep
<1> USE LifecycleMoves DEF SessionInv, SessionConsistent, ConnectPhases, session
<1>1. ASSUME NEW c \in Clients, ClientStep(c) PROVE LifecycleStep
  <2>1. CASE StartWorker(c)
    BY <2>1 DEF StartWorker
  <2>2. CASE ~StartWorker(c)
    BY <1>1, <2>2, ClientFrame
  <2>3. QED
    BY <2>1, <2>2
<1>2. CASE Receive
  <2>1. PICK c \in Clients : \/ ReceiveStandard(c) \/ ReceivePriority(c)
                            \/ ReceiveConnect(c) \/ ReceiveDisconnect(c)
    BY <1>2 DEF Receive
  <2>2. CASE ReceiveStandard(c) \/ ReceivePriority(c)
    BY <2>2 DEF ReceiveStandard, ReceivePriority, StartExchange
  <2>3. CASE ReceiveConnect(c)
    BY <2>3 DEF ReceiveConnect, TypeOK
  <2>4. CASE ReceiveDisconnect(c)
    BY <2>4 DEF ReceiveDisconnect, Receives
  <2>5. QED
    BY <2>1, <2>2, <2>3, <2>4
<1>3. CASE ReceivePush
  BY <1>3 DEF ReceivePush
<1>4. CASE Tick
  BY <1>4 DEF Tick, TickWatchdog, TickConnected, TickReconnect, TickDisconnected
<1>5. CASE OpenTransport
  BY <1>5 DEF OpenTransport, LifecycleStep, Lifecycle!Next, Lifecycle!OpenLink,
              Lifecycle!Settle
<1>6. CASE OpenFails \/ HandshakeFails \/ HandshakeInvalid \/ EthmVersion
  BY <1>6 DEF OpenFails, HandshakeFails, HandshakeInvalid, EthmVersion, Broken
<1>7. CASE IntegraVersion \/ MaskAnswered
  BY <1>7 DEF IntegraVersion, MaskAnswered
<1>8. CASE ServeDone
  BY <1>8 DEF ServeDone, Broken
<1>9. CASE TickStep
  <2>1. CASE TickResend \/ ResendAnswered \/ TickPing
    BY <2>1 DEF TickResend, ResendAnswered, TickPing
  <2>2. CASE ResendFails
    BY <2>2 DEF ResendFails, Broken
  <2>3. CASE PingDone
    BY <2>3 DEF PingDone, handle_ping_timeout, Broken
  <2>4. QED
    BY <1>9, <2>1, <2>2, <2>3 DEF TickStep
<1>10. CASE Freeze
  BY <1>10 DEF Freeze
<1>11. CASE UNCHANGED vars
  BY <1>11 DEF vars
<1>12. QED
  BY <1>1, <1>2, <1>3, <1>4, <1>5, <1>6, <1>7, <1>8, <1>9, <1>10, <1>11
  DEF Next, WorkerBusy, ConnectStep

\* The worker moves through the five states only as ConnectionLifecycle
\* allows, and takes and releases the stream in the same moves.
THEOREM LifecycleImplemented == Spec => LifecycleSteps
<1>1. Init => Lifecycle!Init
  BY DEF Init, Lifecycle!Init
<1>2. TypeOK /\ SessionInv /\ [Next]_vars => [Lifecycle!Next]_<<state, stream>>
  BY LifecycleStepTaken DEF LifecycleStep
<1>3. QED
  BY <1>1, <1>2, SessionInvariant, PTL DEF Spec, LifecycleSteps

-----------------------------------------------------------------------------
\* The channel and its callers.

Holds(q, c) == \E i \in 1..Len(q) : q[i] = c
Distinct(q) == \A i, j \in 1..Len(q) : q[i] = q[j] => i = j

\* Appending a caller that is not in the channel keeps callers distinct.
LEMMA AppendCaller ==
    ASSUME NEW S, NEW q \in Seq(S), NEW c \in S, Distinct(q), ~Holds(q, c)
    PROVE  /\ Distinct(Append(q, c))
           /\ \A d : Holds(Append(q, c), d) <=> d = c \/ Holds(q, d)
<1> DEFINE r == Append(q, c)
<1>1. /\ Len(q) \in Nat /\ Len(r) = Len(q) + 1 /\ r[Len(q) + 1] = c
      /\ \A i \in 1..Len(q) : r[i] = q[i]
  OBVIOUS
<1>2. \A i \in 1..Len(r) : i \in 1..Len(q) \/ i = Len(q) + 1
  BY <1>1
<1>3. Len(q) + 1 \in 1..Len(r) /\ \A i \in 1..Len(q) : i \in 1..Len(r)
  BY <1>1
<1> HIDE DEF r
<1>4. Distinct(r)
  BY <1>1, <1>2 DEF Distinct, Holds
<1>5. \A d : Holds(r, d) <=> d = c \/ Holds(q, d)
  BY <1>1, <1>2, <1>3 DEF Holds
<1>6. QED
  BY <1>4, <1>5 DEF r

\* Taking the head of the channel removes that caller and no other.
LEMMA TailCaller ==
    ASSUME NEW S, NEW q \in Seq(S), q # <<>>, Distinct(q)
    PROVE  /\ Distinct(Tail(q))
           /\ \A d : Holds(Tail(q), d) <=> d # Head(q) /\ Holds(q, d)
<1> DEFINE r == Tail(q)
<1>1. /\ Len(q) \in Nat /\ Len(q) >= 1 /\ Len(r) = Len(q) - 1 /\ Head(q) = q[1]
      /\ \A i \in 1..Len(r) : r[i] = q[i + 1]
  OBVIOUS
<1>2. \A i \in 1..Len(r) : i \in Nat /\ i + 1 \in 1..Len(q) /\ i + 1 # 1
  BY <1>1
<1>3. \A i \in 1..Len(q) : i # 1 => i - 1 \in 1..Len(r) /\ (i - 1) + 1 = i
  BY <1>1
<1>4. 1 \in 1..Len(q)
  BY <1>1
<1> HIDE DEF r
<1>5. Distinct(r)
  <2> SUFFICES ASSUME NEW i \in 1..Len(r), NEW j \in 1..Len(r), r[i] = r[j]
               PROVE  i = j
    BY DEF Distinct
  <2>1. i + 1 = j + 1
    BY <1>1, <1>2 DEF Distinct
  <2>2. QED
    BY <1>2, <2>1
<1>6. ASSUME NEW d, Holds(r, d) PROVE d # Head(q) /\ Holds(q, d)
  <2>1. PICK i \in 1..Len(r) : r[i] = d
    BY <1>6 DEF Holds
  <2>2. i + 1 \in 1..Len(q) /\ q[i + 1] = d /\ i + 1 # 1
    BY <1>1, <1>2, <2>1
  <2>3. QED
    BY <1>1, <1>4, <2>2 DEF Holds, Distinct
<1>7. ASSUME NEW d, d # Head(q), Holds(q, d) PROVE Holds(r, d)
  <2>1. PICK i \in 1..Len(q) : q[i] = d
    BY <1>7 DEF Holds
  <2>2. i - 1 \in 1..Len(r) /\ r[i - 1] = d
    BY <1>1, <1>3, <1>7, <2>1
  <2>3. QED
    BY <2>2 DEF Holds
<1>8. QED
  BY <1>5, <1>6, <1>7 DEF r

\* NoOrphanedCaller in these terms.
CallersInv ==
    /\ \A c \in Clients : call[c] \in Awaited <=> server = c \/ Holds(queue, c)
    /\ ~Holds(queue, server)
    /\ Distinct(queue)

\* The inductive form implies the property as it is checked.
LEMMA CallersAreNotOrphaned == CallersInv => NoOrphanedCaller
  BY DEF CallersInv, NoOrphanedCaller, Holds, Distinct

\* NoClient is never in the channel.
LEMMA NobodyQueuedAsNoClient == TypeOK => ~Holds(queue, NoClient)
  BY ClientsAssumption DEF TypeOK, Holds

\* A call that starts to wait is put into the channel in the same step.
LEMMA EnqueueKeepsCallers ==
    ASSUME TypeOK, CallersInv, NEW c \in Clients, NEW request \in Awaited,
           call[c] \notin Awaited, Enqueue(c, request), server' = server
    PROVE  CallersInv'
<1>1. ~Holds(queue, c) /\ server # c /\ Distinct(queue) /\ queue \in Seq(Clients)
  BY DEF CallersInv, TypeOK
<1>2. queue' = Append(queue, c)
  BY DEF Enqueue
<1>3. Distinct(queue') /\ \A d : Holds(queue', d) <=> d = c \/ Holds(queue, d)
  BY <1>1, <1>2, AppendCaller
<1>4. \A d \in Clients : call'[d] = IF d = c THEN request ELSE call[d]
  BY DEF Enqueue, TypeOK
<1>5. QED
  BY <1>1, <1>3, <1>4 DEF CallersInv

\* Answering the caller being served ends its wait.
LEMMA FinishKeepsCallers ==
    ASSUME TypeOK, CallersInv, NEW result, Finish(result)
    PROVE  CallersInv'
<1>1. server' = NoClient /\ queue' = queue
  BY DEF Finish, LoopTop
<1>2. \A c \in Clients : /\ c # server => call'[c] = call[c]
                         /\ c = server => call'[c] \notin Awaited
  BY DEF Finish, Complete, Awaited
<1>3. ~Holds(queue', server')
  BY <1>1, NobodyQueuedAsNoClient
<1>4. ASSUME NEW c \in Clients
      PROVE  call'[c] \in Awaited <=> server' = c \/ Holds(queue', c)
  <2>1. server' # c /\ (Holds(queue', c) <=> Holds(queue, c))
    BY <1>1, ClientsAssumption
  <2>2. CASE c = server
    BY <1>2, <2>1, <2>2 DEF CallersInv
  <2>3. CASE c # server
    <3>1. call[c] \in Awaited <=> server = c \/ Holds(queue, c)
      BY DEF CallersInv
    <3>2. call'[c] = call[c]
      BY <1>2, <2>3
    <3>3. QED
      BY <2>1, <2>3, <3>1, <3>2
  <2>4. QED
    BY <2>2, <2>3
<1>5. QED
  BY <1>1, <1>3, <1>4 DEF CallersInv

\* The head of the channel is taken out; it is answered at once or served.
LEMMA ReceiveKeepsCallers ==
    ASSUME TypeOK, ServerInv, CallersInv, Receive
    PROVE  CallersInv'
<1>1. PICK c \in Clients : \/ ReceiveStandard(c) \/ ReceivePriority(c)
                          \/ ReceiveConnect(c) \/ ReceiveDisconnect(c)
  BY DEF Receive
<1>2. phase = "idle" /\ queue # <<>> /\ c = Head(queue) /\ queue' = Tail(queue)
  BY <1>1 DEF ReceiveStandard, ReceivePriority, ReceiveConnect, ReceiveDisconnect, Receives
<1>3. server = NoClient
  BY <1>2 DEF ServerInv, ConnectPhases
<1>4. Distinct(queue') /\ \A d : Holds(queue', d) <=> d # c /\ Holds(queue, d)
  BY <1>2, TailCaller DEF CallersInv, TypeOK
<1>5. ~Holds(queue', NoClient) /\ ~Holds(queue', c)
  BY <1>4, NobodyQueuedAsNoClient
<1>6. Holds(queue, c)
  <2>1. 1 \in 1..Len(queue) /\ queue[1] = c
    BY <1>2 DEF TypeOK
  <2>2. QED
    BY <2>1 DEF Holds
<1>7. ASSUME NEW result, RespondNow(c, result) PROVE CallersInv'
  <2>1. server' = NoClient
    BY <1>7 DEF RespondNow, LoopTop
  <2>2. \A d \in Clients : /\ d # c => call'[d] = call[d]
                           /\ d = c => call'[d] \notin Awaited
    BY <1>7 DEF RespondNow, Complete, Awaited
  <2>3. ASSUME NEW d \in Clients
        PROVE  call'[d] \in Awaited <=> server' = d \/ Holds(queue', d)
    <3>1. server' # d /\ server # d
      BY <1>3, <2>1, ClientsAssumption
    <3>2. CASE d = c
      BY <1>4, <2>2, <3>1, <3>2
    <3>3. CASE d # c
      <4>1. call[d] \in Awaited <=> server = d \/ Holds(queue, d)
        BY DEF CallersInv
      <4>2. call'[d] = call[d] /\ (Holds(queue', d) <=> Holds(queue, d))
        BY <1>4, <2>2, <3>3
      <4>3. QED
        BY <3>1, <4>1, <4>2
    <3>4. QED
      BY <3>2, <3>3
  <2>4. QED
    BY <1>4, <1>5, <2>1, <2>3 DEF CallersInv
<1>8. ASSUME server' = c, call' = call PROVE CallersInv'
  BY <1>3, <1>4, <1>5, <1>6, <1>8, ClientsAssumption DEF CallersInv
<1>9. QED
  BY <1>1, <1>7, <1>8 DEF ReceiveStandard, ReceivePriority, ReceiveConnect,
     ReceiveDisconnect, StartExchange, BeginConnect

\* Client steps enqueue whom they make wait.
LEMMA ClientKeepsCallers ==
    ASSUME TypeOK, SessionInv, ServerInv, CallersInv, NEW c \in Clients, ClientStep(c)
    PROVE  CallersInv'
<1> DEFINE Moves(request) == /\ call' = [call EXCEPT ![c] = request]
                            /\ UNCHANGED <<queue, server>>
<1>1. ASSUME NEW request, request \notin Awaited, call[c] \notin Awaited, Moves(request)
      PROVE  CallersInv'
  <2>1. \A d \in Clients : call'[d] = IF d = c THEN request ELSE call[d]
    BY <1>1 DEF TypeOK
  <2>2. QED
    BY <1>1, <2>1 DEF CallersInv
<1> HIDE DEF Moves
<1>2. CASE StartWorker(c)
  <2>1. server = NoClient /\ server' = c /\ queue' = queue /\ call[c] = "none"
    BY <1>2 DEF StartWorker, BeginConnect, ServerInv, ConnectPhases
  <2>2. \A d \in Clients : call'[d] = IF d = c THEN "connect" ELSE call[d]
    BY <1>2 DEF StartWorker, TypeOK
  <2>3. QED
    BY <2>1, <2>2, ClientsAssumption DEF CallersInv, Awaited
<1>3. ASSUME NEW r \in Requests \ {"hot_reload", "reload"}, Send(c, r)
      PROVE  CallersInv'
  <2>1. r \in Awaited /\ call[c] \notin Awaited /\ Enqueue(c, r) /\ server' = server
    BY <1>3, RequestsAssumption DEF Send, AllRequests, Awaited, control
  <2>2. QED
    BY <2>1, EnqueueKeepsCallers
<1>4. CASE HotReload(c)
  <2>1. \E request \in {"hot_reload", "none"} : Moves(request)
    BY <1>4 DEF HotReload, Moves, control
  <2>2. QED
    BY <1>1, <1>4, <2>1 DEF HotReload, Awaited
<1>5. CASE HotReloadFlag(c)
  <2>1. /\ UNCHANGED <<queue, server>> /\ call[c] = "hot_reload"
        /\ \A d \in Clients : call'[d] = IF d = c THEN "none" ELSE call[d]
    BY <1>5 DEF HotReloadFlag, Complete, control
  <2>2. QED
    BY <2>1 DEF CallersInv, Awaited
<1>6. CASE Reload(c)
  <2>1. Moves("reload_check") /\ call[c] = "none"
    BY <1>6 DEF Reload, Moves, control
  <2>2. QED
    BY <1>1, <2>1 DEF Awaited
<1>7. CASE ReloadCheck(c)
  <2>1. CASE Enqueue(c, "reload_disconnect")
    BY <1>7, <2>1, EnqueueKeepsCallers DEF ReloadCheck, Awaited, control
  <2>2. CASE Complete(c, "ok") /\ UNCHANGED queue
    <3>1. /\ UNCHANGED <<queue, server>> /\ call[c] = "reload_check"
          /\ \A d \in Clients : call'[d] = IF d = c THEN "none" ELSE call[d]
      BY <1>7, <2>2 DEF ReloadCheck, Complete, control
    <3>2. QED
      BY <3>1 DEF CallersInv, Awaited
  <2>3. QED
    BY <1>7, <2>1, <2>2 DEF ReloadCheck
<1>8. CASE ReloadConnect(c)
  BY <1>8, EnqueueKeepsCallers DEF ReloadConnect, Awaited, control
<1>9. QED
  BY <1>2, <1>3, <1>4, <1>5, <1>6, <1>7, <1>8 DEF ClientStep

\* CallersInv is inductive.
LEMMA CallersInvStep ==
    ASSUME TypeOK, SessionInv, ServerInv, CallersInv, [Next]_vars
    PROVE  CallersInv'
<1>1. ASSUME UNCHANGED <<queue, call>>, server' = server PROVE CallersInv'
  BY <1>1 DEF CallersInv
<1>2. CASE UNCHANGED clients /\ phase \notin ConnectPhases \cup {"serve"}
           /\ (server' = server \/ server' = NoClient)
  BY <1>1, <1>2 DEF ServerInv, clients
<1>3. ASSUME NEW c \in Clients, ClientStep(c) PROVE CallersInv'
  BY <1>3, ClientKeepsCallers
<1>4. CASE Receive
  BY <1>4, ReceiveKeepsCallers
<1>5. CASE ReceivePush
  BY <1>2, <1>5 DEF ReceivePush, LoopTop, ConnectPhases
<1>6. CASE Tick
  BY <1>2, <1>6 DEF Tick, TickWatchdog, TickConnected, TickReconnect, TickDisconnected,
                    Ticks, LoopTop, BeginConnect, ConnectPhases
<1>7. CASE OpenTransport \/ EthmVersion
  BY <1>1, <1>7 DEF OpenTransport, EthmVersion, clients
<1>8. CASE OpenFails \/ HandshakeFails \/ HandshakeInvalid \/ MaskAnswered \/ ServeDone
  BY <1>8, FinishKeepsCallers
  DEF OpenFails, HandshakeFails, HandshakeInvalid, MaskAnswered, ServeDone
<1>9. CASE IntegraVersion
  BY <1>1, <1>9, FinishKeepsCallers DEF IntegraVersion, clients
<1>10. CASE TickStep
  BY <1>2, <1>10 DEF TickStep, TickResend, ResendAnswered, ResendFails, TickPing,
                     PingDone, LoopTop, ConnectPhases
<1>11. CASE Freeze
  BY <1>1, <1>11 DEF Freeze, clients, control
<1>12. CASE UNCHANGED vars
  BY <1>1, <1>12 DEF vars, clients, control
<1>13. QED
  BY <1>3, <1>4, <1>5, <1>6, <1>7, <1>8, <1>9, <1>10, <1>11, <1>12
  DEF Next, WorkerBusy, ConnectStep

\* Whoever awaits the worker is in its channel once or is being served, so no
\* early return of the worker drops a caller's oneshot, and none answers twice.
THEOREM CallersServed == Spec => []NoOrphanedCaller
<1>1. Init => CallersInv
  BY ClientsAssumption DEF Init, CallersInv, Holds, Distinct, Awaited
<1>2. QED
  BY <1>1, ServerInvariant, CallersInvStep, CallersAreNotOrphaned, PTL DEF Spec

-----------------------------------------------------------------------------
\* The results.

\* A step that gives results to one caller at most, and a truthful one.
TruthfulTo(who) ==
    \A c \in Clients :
        call[c] \in Awaited /\ call'[c] # call[c] => c = who /\ Truthful(c, reply'[c])

\* Complete touches one caller's result only.
LEMMA CompleteTruthful ==
    ASSUME TypeOK, NEW who, NEW result, Complete(who, result),
           who \in Clients => Truthful(who, result)
    PROVE  TruthfulTo(who)
<1> SUFFICES ASSUME NEW c \in Clients, call'[c] # call[c]
             PROVE  c = who /\ Truthful(c, reply'[c])
  BY DEF TruthfulTo
<1>1. c = who
  BY DEF Complete
<1>2. reply'[c] = result
  BY <1>1 DEF Complete
<1>3. QED
  BY <1>1, <1>2

\* No client step ends a wait.
LEMMA ClientTruthful ==
    ASSUME TypeOK, NEW c \in Clients, ClientStep(c)
    PROVE  \A who : TruthfulTo(who)
<1>1. call[c] \notin Awaited
  BY DEF ClientStep, Send, StartWorker, HotReload, HotReloadFlag, Reload, ReloadCheck,
         ReloadConnect, Awaited
<1>2. \A d \in Clients \ {c} : call'[d] = call[d]
  BY DEF TypeOK, ClientStep, Send, StartWorker, HotReload, HotReloadFlag, Reload,
         ReloadCheck, ReloadConnect, Enqueue, Complete
<1>3. QED
  BY <1>1, <1>2 DEF TruthfulTo

\* Each immediate answer of handle_message_internal is true.
LEMMA ReceiveTruthful ==
    ASSUME TypeOK, SessionInv, Receive
    PROVE  \E who \in Clients : TruthfulTo(who)
<1>1. PICK c \in Clients : \/ ReceiveStandard(c) \/ ReceivePriority(c)
                          \/ ReceiveConnect(c) \/ ReceiveDisconnect(c)
  BY DEF Receive
<1>2. ASSUME UNCHANGED call PROVE TruthfulTo(c)
  BY <1>2 DEF TruthfulTo
<1>3. ASSUME NEW result, RespondNow(c, result), Truthful(c, result) PROVE TruthfulTo(c)
  BY <1>3, CompleteTruthful DEF RespondNow
<1>4. CASE ReceiveStandard(c)
  <2>1. call[c] = "standard"
    BY <1>4 DEF ReceiveStandard
  <2>2. Truthful(c, "not_connected") /\ Truthful(c, "expired")
    BY <2>1 DEF Truthful, IsConnect, IsDisconnect
  <2>3. QED
    BY <1>2, <1>3, <1>4, <2>2 DEF ReceiveStandard, StartExchange
<1>5. CASE ReceivePriority(c)
  <2>1. call[c] = "priority"
    BY <1>5 DEF ReceivePriority
  <2>2. CASE state \in {"Disconnected", "ConnectionLost"} /\ UNCHANGED session
    <3>1. Truthful(c, "not_connected")
      BY <2>1, <2>2 DEF Truthful, IsConnect, IsDisconnect, session, SessionInv,
                        SessionConsistent
    <3>2. QED
      BY <1>2, <1>3, <1>5, <3>1 DEF ReceivePriority, StartExchange
  <2>3. CASE StartExchange(c)
    BY <1>2, <2>3 DEF StartExchange
  <2>4. QED
    BY <1>5, <2>2, <2>3 DEF ReceivePriority
<1>6. CASE ReceiveConnect(c)
  <2>1. call[c] \in {"connect", "reload_connect"} /\ phase = "idle"
    BY <1>6 DEF ReceiveConnect, IsConnect, Receives
  <2>2. CASE BeginConnect(c) /\ UNCHANGED call
    BY <1>2, <2>2
  <2>3. CASE /\ state \in {"Connected", "Connecting", "Handshake"}
             /\ RespondNow(c, "already_connected") /\ UNCHANGED session
    <3>1. Truthful(c, "already_connected")
      BY <2>1, <2>3 DEF Truthful, IsDisconnect, session, SessionInv, SessionConsistent
    <3>2. QED
      BY <1>3, <2>3, <3>1
  <2>4. QED
    BY <1>6, <2>2, <2>3 DEF ReceiveConnect
<1>7. CASE ReceiveDisconnect(c)
  <2>1. call[c] \in {"disconnect", "reload_disconnect"} /\ phase = "idle"
    BY <1>7 DEF ReceiveDisconnect, IsDisconnect, Receives
  <2>2. state' = "Disconnected" /\ ~stream'
    BY <1>7 DEF ReceiveDisconnect, release_connection, session, SessionInv, SessionConsistent
  <2>3. Truthful(c, "not_connected") /\ Truthful(c, "ok")
    BY <2>1, <2>2 DEF Truthful, IsConnect
  <2>4. QED
    BY <1>3, <1>7, <2>3 DEF ReceiveDisconnect
<1>8. QED
  BY <1>1, <1>4, <1>5, <1>6, <1>7

\* The results connect and the exchanges of clients end with.
LEMMA FinishTruthful ==
    ASSUME TypeOK, SessionInv, ServerInv, NEW result, Finish(result),
           \/ phase \in ConnectPhases /\ result = "ok" /\ state' = "Connected"
           \/ phase \in ConnectPhases /\ result \in {"io", "timeout"} /\ state' = "ConnectionLost"
           \/ phase \in ConnectPhases /\ result = "invalid"
           \/ phase = "serve" /\ result \in {"ok", "timeout"}
           \/ phase = "serve" /\ result = "io" /\ state' = "ConnectionLost"
    PROVE  TruthfulTo(server)
<1>1. ASSUME server \in Clients PROVE Truthful(server, result)
  <2>1. CASE phase \in ConnectPhases
    <3>1. call[server] \in {"connect", "reload_connect"}
      BY <1>1, <2>1, ClientsAssumption DEF ServerInv, IsConnect
    <3>2. QED
      BY <2>1, <3>1 DEF Truthful, IsConnect, IsDisconnect, ConnectPhases
  <2>2. CASE phase = "serve"
    <3>1. call[server] \in {"standard", "priority"}
      BY <2>2 DEF ServerInv
    <3>2. QED
      BY <2>2, <3>1 DEF Truthful, IsConnect, IsDisconnect, ConnectPhases
  <2>3. QED
    BY <2>1, <2>2
<1>2. QED
  BY <1>1, CompleteTruthful DEF Finish

\* In each step at most one caller is answered, and truthfully.
LEMMA TruthfulStep ==
    ASSUME TypeOK, SessionInv, ServerInv, Next
    PROVE  \E who : TruthfulTo(who)
<1>1. ASSUME UNCHANGED call PROVE TruthfulTo(NoClient)
  BY <1>1 DEF TruthfulTo
<1>2. ASSUME NEW c \in Clients, ClientStep(c) PROVE TruthfulTo(NoClient)
  BY <1>2, ClientTruthful
<1>3. CASE Receive
  BY <1>3, ReceiveTruthful
<1>4. CASE ReceivePush \/ Tick \/ Freeze \/ TickStep
  <2>1. UNCHANGED call
    BY <1>4 DEF ReceivePush, Tick, TickWatchdog, TickConnected, TickReconnect,
       TickDisconnected, Ticks, Freeze, TickStep, TickResend, ResendAnswered,
       ResendFails, TickPing, PingDone, clients
  <2>2. QED
    BY <1>1, <2>1
<1>5. CASE OpenTransport \/ EthmVersion
  BY <1>1, <1>5 DEF OpenTransport, EthmVersion, clients
<1>6. CASE OpenFails
  BY <1>6, FinishTruthful DEF OpenFails, connection_lost, ConnectPhases
<1>7. CASE HandshakeFails
  BY <1>7, FinishTruthful DEF HandshakeFails, Broken, connection_lost, ConnectPhases
<1>8. CASE HandshakeInvalid
  BY <1>8, FinishTruthful DEF HandshakeInvalid, ConnectPhases
<1>9. CASE IntegraVersion
  <2>1. CASE UNCHANGED clients
    BY <1>1, <2>1 DEF clients
  <2>2. CASE set_state_connected /\ Finish("ok")
    BY <1>9, <2>2, FinishTruthful DEF IntegraVersion, set_state_connected, ConnectPhases
  <2>3. QED
    BY <1>9, <2>1, <2>2 DEF IntegraVersion
<1>10. CASE MaskAnswered
  BY <1>10, FinishTruthful DEF MaskAnswered, set_state_connected, ConnectPhases
<1>11. CASE ServeDone
  BY <1>11, FinishTruthful DEF ServeDone, Broken, connection_lost
<1>12. QED
  BY <1>2, <1>3, <1>4, <1>5, <1>6, <1>7, <1>8, <1>9, <1>10, <1>11
  DEF Next, WorkerBusy, ConnectStep

\* The result a caller gets is true of the connection in the very step that
\* gives it, for every path through the worker.
THEOREM ResultsTruthful == Spec => TruthfulResults
<1> DEFINE AllTruthful == \A c \in Clients :
             call[c] \in Awaited /\ call'[c] # call[c] => Truthful(c, reply'[c])
<1>1. TypeOK /\ SessionInv /\ ServerInv /\ [Next]_vars => [AllTruthful]_vars
  BY TruthfulStep DEF TruthfulTo
<1>2. QED
  BY <1>1, ServerInvariant, PTL DEF Spec, TruthfulResults
=============================================================================
