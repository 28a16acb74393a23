---------------------------- MODULE SatelExchange ----------------------------
(***************************************************************************)
(* Frames within one session: the exchange of a command for its answer and *)
(* the reception of pushes by the worker (src/worker.rs), the state worker *)
(* that applies pushes to the cache (src/auto_requester.rs), and the       *)
(* clients that apply the answers they asked for (src/client.rs).          *)
(*                                                                         *)
(* The panel answers commands in order, if at all, and no frame names the  *)
(* command it answers: of, which tells, exists in the model only.          *)
(***************************************************************************)
EXTENDS Naturals, Sequences

CONSTANTS
    Clients,          \* tasks that ask, and then apply what they were told
    Worker,           \* the asker of the keep-alive pings
    Commands,         \* the commands the clients send, of ClientCommands
    MaxRequests,      \* bound: requests of one behaviour, pings included
    MaxChanges,       \* bound: changes of the panel's state
    ChannelCapacity   \* slots of the channel to the state worker (100)

\* read asks for the state of all positions, name for the name of one (0xEE),
\* control for an action that the panel accepts or refuses (0xEF).
ClientCommands == {"read", "name", "control"}

ASSUME NamesAssumption == Worker \notin Clients /\ Commands \subseteq ClientCommands

ASSUME LimitsAssumption ==
    /\ MaxRequests \in Nat /\ MaxChanges \in Nat
    /\ ChannelCapacity \in Nat \ {0}

VARIABLES
    value,       \* version of the panel's state
    outbox,      \* write buffer of the Framed stream
    to_panel,    \* commands on the wire
    from_panel,  \* frames on the wire
    step,        \* the await the worker is at
    serving,     \* the request whose answer it reads
    held,        \* the frame it waits to pass on while the channel is full
    channel,     \* the channel to the state worker
    cache,       \* version of the state in SatelState
    queue,       \* requests waiting for the worker
    answer,      \* what each client has to apply: an answered read
    serials,     \* requests made so far
    last,        \* history: the request answered last, and by which frame
    late,        \* history: a request has timed out
    lost,        \* history: a frame was dropped with a cancelled branch
    overtaken,   \* history: an older version was applied over a newer one
    announced    \* history: refusals broadcast as PanelMessage events

panel    == <<value, to_panel, from_panel>>
worker   == <<outbox, step, serving, held>>
clients  == <<queue, answer, serials>>
history  == <<last, late, lost, overtaken, announced>>

vars == <<panel, worker, channel, cache, clients, history>>

-----------------------------------------------------------------------------
Serials == 1..MaxRequests
Values  == 0..MaxChanges

Requests == [command : Commands \cup {"ping"}, serial : Serials, by : Clients \cup {Worker}]

\* A result is accepted (0xEF 0xFF) or refused; a push answers nothing.
Frames == [kind : {"read", "name", "version", "accepted", "refused"},
           of : Serials \cup {0}, value : Values]

NoRequest == [command |-> "none", serial |-> 0, by |-> Worker]
NoFrame   == [kind |-> "none", of |-> 0, value |-> 0]
NoAnswer  == MaxChanges + 1

\* The first byte of an answer repeats the command; control has none of its own.
Expected(request) ==
    CASE request.command = "read" -> {"read"}
      [] request.command = "name" -> {"name"}
      [] request.command = "ping" -> {"version"}
      [] OTHER -> {}

IsResult(frame) == frame.kind \in {"accepted", "refused"}

\* Slip: whatever arrives ends the exchange.
IsTargetAny(frame, request) == frame.kind # "none"

\* A frame that ends the exchange.
IsTarget(frame, request) == frame.kind \in Expected(request) \/ IsResult(frame)

\* Slip: a refused name query is reported like any refusal.
IsForwardedEvenName(frame, request) ==
    frame.kind \notin Expected(request) /\ frame.kind # "accepted"

\* Slip: the exchange keeps the pushes it skips to itself.
IsForwardedResultsOnly(frame, request) ==
    frame.kind = "refused" /\ request.command # "name"

\* A frame the state worker must see.  A refused name query is the client's own
\* business: the position does not exist.
IsForwarded(frame, request) ==
    /\ frame.kind \notin Expected(request)
    /\ frame.kind # "accepted"
    /\ ~(IsResult(frame) /\ request.command = "name")

-----------------------------------------------------------------------------
(* The panel. *)

\* Any change is pushed: the mask covers it.
Change ==
    /\ value < MaxChanges
    /\ value' = value + 1
    /\ from_panel' = Append(from_panel, [kind |-> "read", of |-> 0, value |-> value + 1])
    /\ UNCHANGED <<to_panel, worker, channel, cache, clients, history>>

Answers(request) ==
    LET Frame(kind) == [kind |-> kind, of |-> request.serial, value |-> value]
    IN  CASE request.command = "read" -> {Frame("read")}
          [] request.command = "ping" -> {Frame("version")}
          [] request.command = "name" -> {Frame("name"), Frame("refused")}
          [] OTHER -> {Frame("accepted"), Frame("refused")}

\* Some commands are never answered, like 0x7D for a probe that is missing.
PanelHandles ==
    /\ to_panel # <<>>
    /\ to_panel' = Tail(to_panel)
    /\ \/ \E frame \in Answers(Head(to_panel)) : from_panel' = Append(from_panel, frame)
       \/ UNCHANGED from_panel
    /\ UNCHANGED <<value, worker, channel, cache, clients, history>>

-----------------------------------------------------------------------------
(* The clients. *)

\* exchange puts the request into the worker's channel; one at a time each.
Ask(c, command) ==
    /\ serials < MaxRequests
    /\ answer[c] = NoAnswer
    /\ serving.by # c /\ \A i \in 1..Len(queue) : queue[i].by # c
    /\ serials' = serials + 1
    /\ queue' = Append(queue, [command |-> command, serial |-> serials + 1, by |-> c])
    /\ UNCHANGED <<panel, worker, channel, cache, answer, history>>

\* A getter writes the answer it was given into the cache when its task runs.
ApplyAnswer(c) ==
    /\ answer[c] # NoAnswer
    /\ cache' = answer[c]
    /\ overtaken' = (overtaken \/ answer[c] < cache)
    /\ answer' = [answer EXCEPT ![c] = NoAnswer]
    /\ UNCHANGED <<panel, worker, channel, queue, serials, last, late, lost, announced>>

-----------------------------------------------------------------------------
(* The worker: satel_connection_worker_exchange. *)

\* At select!, where the push branch may hold a frame for a full channel.
\* Taking another branch drops that one, and the frame with it.
LeaveSelect ==
    /\ step \in {"idle", "pushing"}
    /\ held' = NoFrame
    /\ lost' = (lost \/ step = "pushing")

\* stream.send encodes into the write buffer and flushes it.  A flush that
\* times out leaves the frame there, and the next one takes it along.
Write(request) ==
    \/ /\ to_panel' = Append(to_panel \o outbox, request)
       /\ outbox' = <<>>
       /\ step' = "reading" /\ serving' = request
       /\ UNCHANGED late
    \/ /\ outbox' = Append(outbox, request)
       /\ step' = "idle"
       /\ late' = TRUE
       /\ UNCHANGED <<to_panel, serving>>

TakeRequest ==
    /\ LeaveSelect
    /\ queue # <<>>
    /\ queue' = Tail(queue)
    /\ Write(Head(queue))
    /\ UNCHANGED <<value, from_panel, channel, cache, answer, serials, last,
                   overtaken, announced>>

\* The tick, which sends a ping if the line was quiet.
Tick ==
    /\ LeaveSelect
    /\ \/ /\ serials < MaxRequests
          /\ serials' = serials + 1
          /\ Write([command |-> "ping", serial |-> serials + 1, by |-> Worker])
       \/ step' = "idle" /\ UNCHANGED <<serials, outbox, to_panel, serving, late>>
    /\ UNCHANGED <<value, from_panel, channel, cache, queue, answer, last,
                   overtaken, announced>>

\* Whoever asked gets the frame; a getter keeps it to apply it.
Deliver(frame, request) ==
    /\ last' = [request |-> request, frame |-> frame]
    /\ answer' = [c \in Clients |->
                    IF c = request.by /\ request.command = "read" /\ frame.kind = "read"
                    THEN frame.value ELSE answer[c]]

\* The frame has been passed on where it had to be: the exchange ends with it
\* or reads on.
Read(frame) ==
    \/ /\ IsTarget(frame, serving)
       /\ Deliver(frame, serving)
       /\ step' = "idle" /\ serving' = NoRequest
    \/ /\ ~IsTarget(frame, serving)
       /\ step' = "reading"
       /\ UNCHANGED <<last, answer, serving>>

ReadFrame ==
    /\ step = "reading"
    /\ from_panel # <<>>
    /\ from_panel' = Tail(from_panel)
    /\ LET frame == Head(from_panel)
       IN  \/ /\ ~IsForwarded(frame, serving)
              /\ Read(frame)
              /\ UNCHANGED <<held, channel>>
           \/ /\ IsForwarded(frame, serving)
              /\ step' = "forwarding" /\ held' = frame
              /\ UNCHANGED <<last, answer, serving, channel>>
    /\ UNCHANGED <<value, to_panel, outbox, cache, queue, serials, late, lost,
                   overtaken, announced>>

\* Slip: the channel is taken for unbounded.
ForwardUnbounded ==
    /\ step = "forwarding"
    /\ channel' = Append(channel, held)
    /\ held' = NoFrame
    /\ Read(held)
    /\ UNCHANGED <<panel, outbox, cache, queue, serials, late, lost, overtaken, announced>>

\* notify_state_worker within exchange, which nothing cancels.
Forward ==
    /\ step = "forwarding"
    /\ Len(channel) < ChannelCapacity
    /\ channel' = Append(channel, held)
    /\ held' = NoFrame
    /\ Read(held)
    /\ UNCHANGED <<panel, outbox, cache, queue, serials, late, lost, overtaken, announced>>

ReadTimeout ==
    /\ step = "reading"
    /\ step' = "idle" /\ serving' = NoRequest
    /\ late' = TRUE
    /\ UNCHANGED <<panel, outbox, held, channel, cache, clients, last, lost,
                   overtaken, announced>>

-----------------------------------------------------------------------------
(* The worker: receive_push_internal. *)

ReceivePush ==
    /\ step = "idle"
    /\ from_panel # <<>>
    /\ from_panel' = Tail(from_panel)
    /\ LET frame == Head(from_panel)
       IN  \/ /\ frame.kind = "accepted"
              /\ UNCHANGED <<step, held, channel>>
           \/ /\ frame.kind # "accepted" /\ Len(channel) < ChannelCapacity
              /\ channel' = Append(channel, frame)
              /\ UNCHANGED <<step, held>>
           \/ /\ frame.kind # "accepted" /\ Len(channel) = ChannelCapacity
              /\ step' = "pushing" /\ held' = frame
              /\ UNCHANGED channel
    /\ UNCHANGED <<value, to_panel, outbox, serving, cache, clients, history>>

\* A slot came free, and the push branch was polled before another was ready.
PassPush ==
    /\ step = "pushing"
    /\ Len(channel) < ChannelCapacity
    /\ channel' = Append(channel, held)
    /\ step' = "idle" /\ held' = NoFrame
    /\ UNCHANGED <<panel, outbox, serving, cache, clients, history>>

-----------------------------------------------------------------------------
(* The state worker: handle_auto_frame. *)

HandleAutoFrame ==
    /\ channel # <<>>
    /\ channel' = Tail(channel)
    /\ LET frame == Head(channel)
       IN  /\ cache' = IF frame.kind = "read" THEN frame.value ELSE cache
           /\ overtaken' = (overtaken \/ cache' < cache)
           /\ announced' = IF frame.kind = "refused"
                           THEN announced \cup {frame.of} ELSE announced
    /\ UNCHANGED <<panel, worker, clients, last, late, lost>>

-----------------------------------------------------------------------------
Init ==
    /\ value = 0 /\ cache = 0 /\ serials = 0
    /\ outbox = <<>> /\ to_panel = <<>> /\ from_panel = <<>>
    /\ channel = <<>> /\ queue = <<>>
    /\ step = "idle" /\ serving = NoRequest /\ held = NoFrame
    /\ answer = [c \in Clients |-> NoAnswer]
    /\ last = [request |-> NoRequest, frame |-> NoFrame]
    /\ late = FALSE /\ lost = FALSE /\ overtaken = FALSE
    /\ announced = {}

Next ==
    \/ Change
    \/ PanelHandles
    \/ \E c \in Clients : \/ \E command \in Commands : Ask(c, command)
                          \/ ApplyAnswer(c)
    \/ TakeRequest
    \/ Tick
    \/ ReadFrame
    \/ Forward
    \/ ReadTimeout
    \/ ReceivePush
    \/ PassPush
    \/ HandleAutoFrame

Spec == Init /\ [][Next]_vars

-----------------------------------------------------------------------------
(* Properties. *)

\* Every variable has its type, and the state worker's channel never holds more
\* than its capacity: the worker awaits a slot.
TypeOK ==
    /\ value \in Values /\ cache \in Values /\ serials \in 0..MaxRequests
    /\ outbox \in Seq(Requests) /\ to_panel \in Seq(Requests) /\ queue \in Seq(Requests)
    /\ from_panel \in Seq(Frames) /\ channel \in Seq(Frames)
    /\ Len(channel) <= ChannelCapacity
    /\ step \in {"idle", "reading", "forwarding", "pushing"}
    /\ serving \in Requests \cup {NoRequest}
    /\ held \in Frames \cup {NoFrame}
    /\ answer \in [Clients -> Values \cup {NoAnswer}]
    /\ last \in [request : Requests \cup {NoRequest}, frame : Frames \cup {NoFrame}]
    /\ {late, lost, overtaken} \subseteq BOOLEAN
    /\ announced \subseteq Serials

\* The frame answered last belongs to the command it was answered for.  A read may
\* also take any other read frame, a push or what an earlier read left behind.
LastIsAligned ==
    \/ last.frame.of = last.request.serial
    \/ last.frame.kind = "read" /\ last.request.command = "read"

\* As long as nothing timed out, every command is given its own answer by the
\* exchange, whatever pushes arrive in between.
AnswersAligned == ~late => LastIsAligned

\* "Sends a command frame to the panel and awaits the response frame"
\* (src/client.rs): a client is never given the answer to another command.
AnswersOwn == last.request.by \in Clients => LastIsAligned

\* As long as nothing timed out, a refused command is broadcast as PanelMessage, or
\* about to be, before its caller is told, and a refused name query is not.
RefusalsAnnounced ==
    LET Announced == \/ last.frame.of \in announced
                     \/ \E i \in 1..Len(channel) : channel[i] = last.frame
    IN  ~late /\ last.frame.kind = "refused" =>
            (Announced <=> last.request.command = "control")

\* Nothing that could change the cache is under way.
Quiescent ==
    /\ from_panel = <<>> /\ channel = <<>> /\ held = NoFrame
    /\ \A c \in Clients : answer[c] = NoAnswer

\* When nothing is under way, the cache shows the panel's state, unless a push was
\* dropped with a cancelled branch or an older version was applied over a newer:
\* no push is swallowed by an exchange, timed out or not.
PushesReachCache == Quiescent /\ ~lost /\ ~overtaken => cache = value

\* Push notifications deliver the state changes and make polling needless
\* (README.md, Event-Driven Architecture).
PushesDelivered == Quiescent /\ ~overtaken => cache = value

\* The cached state is continuously updated (README.md, Thread-safe Cache): when
\* every frame was delivered, it is the panel's.
CacheCurrent == Quiescent /\ ~lost => cache = value
=============================================================================
