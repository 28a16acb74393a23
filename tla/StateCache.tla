------------------------------ MODULE StateCache ------------------------------
(***************************************************************************)
(* The state cache and its events (src/client_internal.rs, src/client.rs,  *)
(* src/auto_requester.rs).                                                 *)
(*                                                                         *)
(* Answers to get_* and refresh_*, at the clients, and pushes, at the      *)
(* state worker, are parsed with the configuration of the moment, and then *)
(* written under the state lock; what is told of them goes to a broadcast  *)
(* channel, which keeps the last events for a subscriber that lags.  A key *)
(* is a position of a category; its values are two.                        *)
(***************************************************************************)
EXTENDS Integers, FiniteSets, Sequences

CONSTANTS
    Clients,         \* tasks that call the getters
    StateWorker,     \* SatelAutoRequester
    Categories,      \* categories of state, of AllCategories
    PositionsOf,     \* of each category: the positions there are, numbers
    EventCap,        \* capacity of the event channel, 1024
    MaxReloads,      \* bound: configurations replaced
    MaxFrames        \* bound: frames received

ZoneCategories == {"violation", "tamper", "alarm", "tamper_alarm", "alarm_memory",
                   "tamper_alarm_memory", "bypass", "no_violation_trouble",
                   "long_violation_trouble"}

PartitionCategories == {"armed_suppressed", "armed_really", "partition_alarm",
                        "partition_alarm_memory", "entry_time", "exit_time_gt_10s",
                        "exit_time_lt_10s"}

OutputCategories == {"output"}

StatusCategories == ZoneCategories \cup PartitionCategories \cup OutputCategories

AllCategories == StatusCategories \cup {"system_status", "trouble", "version", "report"}

ASSUME CacheAssumption == /\ Categories \subseteq AllCategories
                          /\ \A cat \in Categories : PositionsOf[cat] \subseteq 1..256
                          /\ StateWorker \notin Clients
                          /\ EventCap \in Nat \ {0}
                          /\ MaxReloads \in Nat /\ MaxFrames \in Nat

VARIABLES
    cache,           \* of each key: its value, or Unread: no *_read_at yet
    inverted,        \* the positions of the io_*_invert lists
    emit_unchanged,  \* emit_unchanged_*
    work,            \* the update each task is at
    events,          \* the channel, as the subscriber will read it
    subscribed,
    view,            \* what the subscriber has been told of each key
    missed,          \* history: keys whose last event the subscriber did not get
    crossed,         \* history: two updates of a version overlapped
    reloads, frames

cacheVars == <<cache, inverted, emit_unchanged, work, events, subscribed, view, missed,
               crossed, reloads, frames>>

Unread == "unread"
States == {"on", "off"}

Flipped(state) == IF state = "on" THEN "off" ELSE "on"

Updaters == Clients \cup {StateWorker}

Keys == UNION {{<<cat, i>> : i \in PositionsOf[cat]} : cat \in Categories}

\* A trouble nobody has told of is taken for absent, and so is one never read.
Untold(key) == IF key[1] = "trouble" THEN "off" ELSE Unread

NoUpdate == [at |-> "idle", category |-> "none", states |-> <<>>, emit_all |-> FALSE]

CacheInit ==
    /\ cache = [k \in Keys |-> Untold(k)]
    /\ inverted \in SUBSET UNION {PositionsOf[cat] : cat \in Categories \cap ZoneCategories}
    /\ emit_unchanged \in BOOLEAN
    /\ work = [t \in Updaters |-> NoUpdate]
    /\ events = <<>> /\ subscribed \in BOOLEAN
    /\ view = [k \in Keys |-> Untold(k)]
    /\ missed = {} /\ crossed = FALSE
    /\ reloads = 0 /\ frames = 0

Settings   == <<inverted, emit_unchanged, reloads>>
Subscriber == <<events, subscribed, view, missed>>

-----------------------------------------------------------------------------
(* The event channel. *)

Told(evs) == {evs[i].key : i \in DOMAIN evs}

\* broadcast::Sender::send, one event after the other: the oldest ones go first.
Broadcast(evs) ==
    LET all     == events \o evs
        excess  == IF Len(all) > EventCap THEN Len(all) - EventCap ELSE 0
        kept    == SubSeq(all, excess + 1, Len(all))
        dropped == SubSeq(all, 1, excess)
    IN  IF subscribed
        THEN /\ events' = kept
             /\ missed' = (missed \cup Told(dropped)) \ Told(kept)
             /\ UNCHANGED <<subscribed, view>>
        ELSE UNCHANGED Subscriber

\* The numbers of a set in their order, each once.
InOrder(s, numbers) ==
    /\ numbers = {s[n] : n \in DOMAIN s}
    /\ \A m, n \in DOMAIN s : m < n => s[m] < s[n]

Ordered(numbers) == CHOOSE s \in [1..Cardinality(numbers) -> numbers] : InOrder(s, numbers)

\* Events for the positions of a category, in their order.
EventsFor(cat, positions, states) ==
    LET ordered == Ordered(positions)
    IN  [n \in DOMAIN ordered |-> [key |-> <<cat, ordered[n]>>, value |-> states[ordered[n]]]]

Subscribe ==
    /\ ~subscribed /\ subscribed' = TRUE
    /\ missed' = {k \in Keys : cache[k] # Untold(k)}
    /\ UNCHANGED <<cache, Settings, work, events, view, crossed, frames>>

ReceiveEvent ==
    /\ events # <<>>
    /\ view' = [view EXCEPT ![Head(events).key] = Head(events).value]
    /\ events' = Tail(events)
    /\ UNCHANGED <<cache, Settings, work, subscribed, missed, crossed, frames>>

-----------------------------------------------------------------------------
(* Frames: parsed, with the invert list of the moment, before the state lock. *)

\* parse_bit_states: a bit for each position, as many as the frame has.
BitStates(bits) == [i \in DOMAIN bits |-> IF i \in inverted THEN Flipped(bits[i]) ELSE bits[i]]

\* process_zones_*: a frame for all zones, or, from a smaller panel, for the lower ones.
ZonesParsed(cat) ==
    UNION {{BitStates(bits) : bits \in [covered -> States]} :
               covered \in {PositionsOf[cat], {i \in PositionsOf[cat] : i <= 128}}}

\* process_partitions_*: four bytes, nothing inverted.
PartitionsParsed(cat) == [PositionsOf[cat] -> States]

\* process_outputs_state.
OutputsParsed(cat) ==
    [PositionsOf[cat] -> States] \cup [{i \in PositionsOf[cat] : i <= 128} -> States]

Parsed(cat) ==
    CASE cat \in ZoneCategories -> ZonesParsed(cat)
      [] cat \in OutputCategories -> OutputsParsed(cat)
      [] OTHER -> PartitionsParsed(cat)

Parse(t, cat, emit_all) ==
    /\ work[t].at = "idle" /\ frames < MaxFrames
    /\ frames' = frames + 1
    /\ \E states \in Parsed(cat) :
           work' = [work EXCEPT ![t] = [at |-> "parsed", category |-> cat,
                       states |-> states, emit_all |-> emit_all]]
    /\ UNCHANGED <<cache, Settings, Subscriber, crossed>>

\* handle_auto_frame and the messages of the handshake.
AutoFrame(cat) == Parse(StateWorker, cat, FALSE)

GetZoneStates(c)      == \E cat \in Categories \cap ZoneCategories : Parse(c, cat, FALSE)
GetPartitionStates(c) == \E cat \in Categories \cap PartitionCategories : Parse(c, cat, FALSE)
GetOutputStates(c)    == \E cat \in Categories \cap OutputCategories : Parse(c, cat, FALSE)
GetSystem(c)     == \E cat \in Categories \cap {"system_status", "trouble"} : Parse(c, cat, FALSE)
GetVersions(c)   == "version" \in Categories /\ Parse(c, "version", FALSE)

\* refresh_*: the same, and everything is told.
RefreshZoneStates(c)      == \E cat \in Categories \cap ZoneCategories : Parse(c, cat, TRUE)
RefreshPartitionStates(c) == \E cat \in Categories \cap PartitionCategories : Parse(c, cat, TRUE)
RefreshOutputStates(c)    == \E cat \in Categories \cap OutputCategories : Parse(c, cat, TRUE)

-----------------------------------------------------------------------------
(* Updates under the state lock. *)

Written(t) ==
    LET w == work[t]
    IN  [k \in Keys |-> IF k[1] = w.category /\ k[2] \in DOMAIN w.states
                        THEN w.states[k[2]] ELSE cache[k]]

Changed(t) == {i \in DOMAIN work[t].states : cache[<<work[t].category, i>>] # work[t].states[i]}

\* Slip: a first read that finds the initial value is stored and not told.
UpdateIfDifferent(t) ==
    LET w == work[t]
        old(i) == cache[<<w.category, i>>]
        told == {i \in DOMAIN w.states : \/ w.emit_all \/ emit_unchanged
                                         \/ w.states[i] # (IF old(i) = Unread THEN "off" ELSE old(i))}
    IN
    /\ w.at = "parsed" /\ w.category \in StatusCategories
    /\ cache' = Written(t)
    /\ Broadcast(EventsFor(w.category, told, w.states))
    /\ work' = [work EXCEPT ![t] = NoUpdate]
    /\ UNCHANGED <<Settings, crossed, frames>>

\* Slip: a refresh tells what has changed, and no more.
UpdateAsGet(t) ==
    LET w == work[t]
        told == IF emit_unchanged THEN DOMAIN w.states ELSE Changed(t)
    IN
    /\ w.at = "parsed" /\ w.category \in StatusCategories
    /\ cache' = Written(t)
    /\ Broadcast(EventsFor(w.category, told, w.states))
    /\ work' = [work EXCEPT ![t] = NoUpdate]
    /\ UNCHANGED <<Settings, crossed, frames>>

\* update_*_internal of a status: the first read, a change, and everything if asked,
\* is written and told under the lock.
UpdateStates(t) ==
    LET w == work[t]
        told == IF w.emit_all \/ emit_unchanged THEN DOMAIN w.states ELSE Changed(t)
    IN
    /\ w.at = "parsed" /\ w.category \in StatusCategories
    /\ cache' = Written(t)
    /\ Broadcast(EventsFor(w.category, told, w.states))
    /\ work' = [work EXCEPT ![t] = NoUpdate]
    /\ UNCHANGED <<Settings, crossed, frames>>

UpdateZones(t)      == work[t].category \in ZoneCategories /\ UpdateStates(t)
UpdatePartitions(t) == work[t].category \in PartitionCategories /\ UpdateStates(t)
UpdateOutputs(t)    == work[t].category \in OutputCategories /\ UpdateStates(t)

\* update_system_status_internal; update_troubles_internal, whose flags start as absent.
UpdateSystem(t) ==
    LET w == work[t]
        told == IF emit_unchanged THEN DOMAIN w.states ELSE Changed(t)
    IN
    /\ w.at = "parsed" /\ w.category \in {"system_status", "trouble"}
    /\ cache' = Written(t)
    /\ Broadcast(EventsFor(w.category, told, w.states))
    /\ work' = [work EXCEPT ![t] = NoUpdate]
    /\ UNCHANGED <<Settings, crossed, frames>>

\* update_*_version_internal and AutoReadReport: written under the lock, told after it.
WriteVersion(t) ==
    /\ work[t].at = "parsed" /\ work[t].category \in {"version", "report"}
    /\ cache' = Written(t)
    /\ work' = [work EXCEPT ![t].at = "tell"]
    /\ crossed' = (crossed \/ \E u \in Updaters \ {t} :
                       work[u].at = "tell" /\ work[u].category = work[t].category)
    /\ UNCHANGED <<Settings, Subscriber, frames>>

TellVersion(t) ==
    /\ work[t].at = "tell"
    /\ Broadcast(EventsFor(work[t].category, DOMAIN work[t].states, work[t].states))
    /\ work' = [work EXCEPT ![t] = NoUpdate]
    /\ UNCHANGED <<cache, Settings, crossed, frames>>

ReplaceSettings ==
    /\ reloads < MaxReloads /\ reloads' = reloads + 1
    /\ inverted' \in SUBSET UNION {PositionsOf[cat] : cat \in Categories \cap ZoneCategories}
    /\ emit_unchanged' \in BOOLEAN
    /\ UNCHANGED <<cache, work, Subscriber, crossed, frames>>

CacheNext ==
    \/ \E cat \in Categories : AutoFrame(cat)
    \/ \E c \in Clients :
        \/ GetZoneStates(c) \/ GetPartitionStates(c) \/ GetOutputStates(c)
        \/ GetSystem(c) \/ GetVersions(c)
        \/ RefreshZoneStates(c) \/ RefreshPartitionStates(c) \/ RefreshOutputStates(c)
    \/ \E t \in Updaters :
        \/ UpdateZones(t) \/ UpdatePartitions(t) \/ UpdateOutputs(t)
        \/ UpdateSystem(t) \/ WriteVersion(t) \/ TellVersion(t)
    \/ Subscribe \/ ReceiveEvent
    \/ ReplaceSettings

CacheSpec == CacheInit /\ [][CacheNext]_cacheVars

-----------------------------------------------------------------------------
(* Properties. *)

\* Every variable keeps its type; the channel holds no more than it may.
CacheTypeOK ==
    LET Values == States \cup {Unread} IN
    /\ cache \in [Keys -> Values] /\ view \in [Keys -> Values]
    /\ inverted \subseteq 1..256 /\ emit_unchanged \in BOOLEAN
    /\ \A t \in Updaters :
        /\ work[t].at \in {"idle", "parsed", "tell"}
        /\ work[t].at # "idle" => /\ work[t].category \in Categories
                                  /\ DOMAIN work[t].states \subseteq PositionsOf[work[t].category]
        /\ work[t].at = "tell" => work[t].category \in {"version", "report"}
    /\ Len(events) <= EventCap /\ Told(events) \subseteq Keys
    /\ subscribed \in BOOLEAN /\ crossed \in BOOLEAN
    /\ missed \subseteq Keys
    /\ reloads \in 0..MaxReloads /\ frames \in 0..MaxFrames

\* What the subscriber will believe of a key once it has read the channel.
Latest(k) ==
    LET at == {i \in DOMAIN events : events[i].key = k}
    IN  IF at = {} THEN view[k] ELSE events[CHOOSE i \in at : \A j \in at : j <= i].value

BeingTold(k) == \E t \in Updaters : work[t].at = "tell" /\ work[t].category = k[1]

\* The events follow the cache (client_internal.rs:42-58, 108-426): for a key whose
\* last event was not lost to lag or to a late subscription, the subscriber comes to
\* what the cache holds; versions, told after the lock is released, once their updates
\* are over, unless two of them overlapped.
EventsFollowCache ==
    subscribed => \A k \in Keys \ missed :
        (k[1] \in {"version", "report"} => ~crossed /\ ~BeingTold(k)) => Latest(k) = cache[k]

\* A refresh heals (client.rs:1492-1668): when it is written, a subscriber that came late
\* or lagged has every position of the frame ahead of it, if the channel holds as many.
RefreshHeals ==
    [][\A t \in Updaters, k \in Keys :
          /\ subscribed /\ work[t].emit_all /\ work'[t].at = "idle"
          /\ k[1] = work[t].category /\ k[2] \in DOMAIN work[t].states
          /\ Cardinality(DOMAIN work[t].states) <= EventCap
          => k \notin missed' /\ Latest(k)' = work[t].states[k[2]]]_cacheVars

=============================================================================
