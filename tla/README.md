# satel_integra in TLA+

A specification of `satel_integra`, an asynchronous Rust client for Satel
Integra alarm panels: TLA+ modules translated from `src/`, TLC runs on small
instances, and theorems checked by TLAPS for every instance.  Paths below are
relative to the repository (`src/worker.rs`, ...).

## The system

Tasks and data, and how they meet:

    client tasks --InternalMessage (mpsc, 100)--> communication worker <--> panel
         ^  ^                                       |  (Framed stream: counting,
         |  +------- oneshot, one per call ---------+   encryption, codec)
         |                                          |
         |                    StateWorkerMessage (mpsc, 100)
         |                                          v
     config, state (Arc<RwLock>)  <------------ state worker --broadcast--> events
         ^
     polling worker (a client like the others)

| Component | State it keeps | Operations |
|---|---|---|
| Communication worker, `worker.rs` | the stream, `consecutive_missed_pings`; writes `telemetry` in the shared state | connect (transport, 0x7C, 0x7E, 0x7F), exchange, disconnect, tick (watchdog, mask re-send, ping, reconnect), push branch |
| Connection API, `client.rs` 105-336 | `config`, `auto_read_dirty`, the worker until the first connect | `connect`, `disconnect`, `hot_reload_config`, `reload_config`, `exchange`, `exchange_priority` |
| Queries and control, `client.rs` 337-2088 | `session_*_type`, `session_*_confirmed` | names with fallback, temperatures with probe blocking, getters, refreshes, troubles, arming and outputs |
| State worker, `auto_requester.rs` | nothing of its own | applies pushes, versions, reports; sends events |
| Cache, `client_internal.rs`, `state.rs` | zones, partitions, outputs, troubles, versions | `update_*_internal`: change detection and events |
| Polling worker, `polling_worker.rs` | `last_run`, `last_stats_check` | temperature cycle, statistics every 30 s |
| Statistics, `state.rs`, `counting_stream.rs` | counters, `last_sent_stats_mark` | snapshot, reset, mark comparison |
| Codec, `codec.rs` | `crc_errors` | encode, decode with stuffing, CRC and resynchronisation |
| Encryption, `encryption.rs` | buffers, counters, ids | poll_read, poll_write, flush over AES-192 |
| Configuration, `config.rs` | - | validation, defaults |
| Parsers, catalogs, commands, errors | - | pure decoding and tables |

What is hard here: the worker is one actor, but it awaits in the middle of
everything, and between two awaits any client may replace the configuration,
raise the dirty flag or queue another request; the tick acts on a state it read
earlier; exchanges have no identifiers, so answers, pushes and late answers are
told apart by their first byte only; timeouts leave frames behind on either
side of the wire; `select!` drops the branches it does not take; two tasks write
the cache; locks are nested.  `PROJECT.json` lists each such place with its
line under `hazards` and names the properties that watch it.

What would make each component correct:

- worker: the stream is held exactly while a handshake or a session uses it;
  every caller is answered, once and truthfully; a user's disconnect sticks; a
  loss counts once and is retried after its backoff; a dead link is noticed; the
  panel's push mask follows the configuration;
- exchange: a command gets its own answer; a push is neither taken for an answer
  nor swallowed; the cache ends up showing the panel's state;
- cache: who follows the events sees the cache; `refresh_*` shows it to who missed
  some; a trouble is what the last frame of its command said;
- name session: it settles on the best type the panel knows; a name goes to the position
  the panel has it for, even when it is the late answer of another query;
- probe blocking: a probe is blocked for a cause, and is tried again in the end;
- control: Ok means that the panel did what the call said, as far as the protocol can
  tell: the exchange takes the next result frame for its own, so only of a command sent
  while nothing given up before is still under way;
- statistics: the events end up at the state of the connection, the uptime is exact;
- locks: no cycle of waiting; codec and encryption: decode inverts encode,
  however the bytes are cut.

## Modules

`ConnectionLifecycle` is the abstract specification: the five states of
`ConnectionState`, whether a link is held, five moves, and the promise that an
attempt settles.

`SatelWorker` is the worker and the connection API.  Correspondence:

- `phase` is the await at which the worker stands, so an action is the code
  between two awaits on the stream or the channel: `ReceiveConnect` runs from
  `rx.recv()` to the opening of the transport, `IntegraVersion` from the answer
  to 0x7E to the writing of the mask or to the next turn of the loop.  The two
  pauses of the handshake (200 and 100 ms) and the awaits of `notify_state_worker`
  are not separate phases.
- `server` is the caller whose oneshot the worker holds; `queue` and `call` are
  the channel and what each client waits for.  A request is its caller: a client
  waits for one answer at a time.
- `hot_reload_config` is two actions (the configuration under its lock, then the
  flag), `reload_config` four (store, look at the state, disconnect, connect).
- A tick is `Ticks` with the branch its snapshot selects; for a session it goes on
  through `TickResend` and `TickPing` without looking at the state again, as
  the code does.
- `should_reconnect` is the copy taken at the top of `run_loop`.
- Time: `since_event` and `since_send` count seconds up to the largest value a
  guard compares; a tick is a second, unless `lag` says it is one of those that
  tokio's interval fires at once after an await that was longer than its period.
- `connection_lost(times)`: the handshake runs it again after `exchange` did.
- `frozen` is the environment's: a link over which nothing arrives and nothing
  fails.  `applied` is history: the mask the panel acknowledged in this session.
- A mask is a model value (the `auto_read_*` selection it encodes); `Refused`
  stands for a 0xEF answer, which the code takes for success.

`SatelExchange` looks inside a session, at single frames: panel, wire, worker,
state worker, clients.  The worker is at one of four awaits (`step`): `select!`,
reading an answer, waiting for a slot of the state worker's channel during an
exchange (`forwarding`) or in the push branch (`pushing`).  `outbox` is the write
buffer of `Framed`, which a write that times out leaves filled.  A frame carries the
request it answers (`of`), for the properties only: no action looks at it, except
that `announced` records it.  One kind of state (`read`) stands for the twenty
categories, its value is a version.  `late`, `lost`, `overtaken` are history: a
timeout happened, a frame was dropped with a branch of `select!`, an older version
was applied over a newer.  The connection itself is `SatelWorker`'s business: here it
never breaks.  What the panel answers, and that it answers in order if at all, is
taken from how the code uses it (external in the map).

`StateLocks` has every operation of the crate as far as the two `std::sync::RwLock`
go: which guards it takes, in what order, until where it holds them.  `pc` is a
request for a lock or what is done with it, `op` the operation, `reads` and
`writes` are the guards, `Duties` says which task performs what.  Six operations
stand for all: reading `config` or `state` for a value, replacing the
configuration, updating the cache (`state.write()`, and under it `config.read()`
for `emit_unchanged_*`, or for the address in `set_state_connected`), a query
(`config.read()` for the inversions, dropped, then an update), and a push of zones,
whose `config.read()` is a temporary of an `if let` and lives through the update.
Who blocks whom is std's (external in the map): a waiting writer stops further
readers, as in the implementation on Linux, and as std's documentation allows
everywhere.  The tasks run in parallel, as on tokio's multi-thread runtime.

`ProbePolling` has the temperature queries, the blocking of probes and the polling
worker.  `read` is where a task stands between the locks of
`get_zone_temperature_with_blocking`: it copies the zone, decides on the copy, and
writes what it decided; `copy` is that copy.  A scan asks raw.  `cycle` are the zones
a polling cycle still has to ask, `age` the time since `last_run`.  `stale` and
`surplus` are history: a decision was written over a newer state, or errors were
counted beyond the limit.

`Statistics` has the telemetry and the two senders of statistics.  The worker sets a
state and announces it in two steps; the state worker sends ConnectionChanged,
takes a snapshot under the lock and sends it after; the polling worker compares the
marks, takes one and sends it.  The four error counts are one, `uptime` is history.

`NameSession` has the name queries.  A query loads the type, then whether it is
confirmed, asks type by type, and stores the type, that it is confirmed and the fields of
the frame in three steps; a reload or a connect stores the configuration, the types and the
confirmations in three steps.  The exchange gives a query the next 0xEE or 0xEF that comes
(`worker.rs:302`): `line` has the answers of queries that were given up and the refusals of
other commands, and `PanelAnswers` gives the query the first of them, its own answer being
late then.  A name taken so settles the type that was asked for and is stored under the byte
of its own frame.  `disturbed` is history: a query was under way when the types were reset,
or took a refusal or a name of another type that was not its own.

`StateCache` has the getters, refreshes and pushes of all categories, as far as their
code differs (first read, negated or inverted bits, versions told after the lock),
the events, and a subscriber with a bounded channel that may start late.

`TroubleFrames` has the push mask bit by bit, the reloads that replace it, the connect that
sends it or, with no option on, does not (`Connect`, `ConnectMask`), the tick that sends it
again, the report made after the answer, the dispatch of the state worker, and both decoders
of the sixteen trouble frames.  `astray` is history: the answer of the last mask was a late
one of another command, and the mask may yet be refused; `refused` that it was an error code.

A new connection is taken to start without subscriptions (external).  A connect with no option
on makes no report either (`worker.rs:441`), though it has lowered the flag: connect with an
option, lose the connection, switch the option off, connect, and `auto_read_report` still
calls the option Active.  `AskedIsWanted` therefore speaks of the report only while an option
is on.  A frame is the set of its bits; a table of fields says what
each bit is, one table from `get_rules` and one from `process_troubles_part*`.

`ControlCommands` has arming, disarming, clearing, outputs and the clock from the check
of their arguments to the result, with the panel as it acts on a frame (external).
`commands` and `results` are the line in both directions: a command given up may still go
out, and its result is taken by whoever asks next (`worker.rs:302`), so that Ok may be
returned for a command that was refused.  `doubtful` is history: the line was not quiet when
the command was sent, or the result frame had no code, which `handle_result_code` takes for
0xFF.

`SatelCodec` has the bytes: stuffing, CRC and the turns of `decode` on a line cut into
reads anywhere.  `EncryptedStream` has the buffers of `poll_read` and `poll_write`; a
byte of plaintext is named by where it comes from, a byte of the wire by its packet, and
a packet decrypts to its plaintext only if it is read as it was written.

`MCBackground` and `MCClientData` check parts side by side that share no state: the first
step chooses the part.  The parts meet where the code has one calling the other
(`exchange`, the configuration); each models the other's outcomes as a choice.

The theorems are in modules of their own: `SatelWorker_proofs`, `SatelExchange_proofs`,
`StateLocks_proofs`, `NameSession_proofs`, `EncryptedStream_proofs`, `SatelCodec_proofs`,
`Background_proofs` for `ProbePolling` and `Statistics`, and `ClientData_proofs` for
`StateCache`, `TroubleFrames` and `ControlCommands`.
`MCSatelWorker` and `MCSatelExchange` add the symmetry of the clients for TLC, `MCStateLocks` the duties.
Definitions marked "Slip" are plausible mistakes in an action; each
property is checked to catch one of them.

## Runs

| Run | Checks | Bounds |
|---|---|---|
| `worker_safety` | type, session, callers, mask, pings, disconnect, losses, results, steps of the lifecycle | 2 clients, all calls, channel of 1, 2 masks, 2 pings, timeouts and watchdog 2 s, backoff 500 to 2000 ms: 863 721 states |
| `worker_liveness` | answers, retries, switching reconnects off, half-open handshakes, the mask, a frozen link, the lifecycle with its fairness | 1 client, a ping after each quiet second, 1 s timeouts, link may freeze: 52 342 states |
| `worker_frozen` (violation) | a frozen link is found dead | 1 client that repeats a command |
| `worker_queue` (violation) | a queued command ends | 1 client |
| `exchange_safety` | type, alignment, refusals, pushes | 2 clients, 3 requests, 2 changes, channel of 1: 1 147 318 states |
| `exchange_late` (violation) | a client gets its own answer | 1 client, 2 name queries |
| `exchange_cancel` (violation) | every push arrives | 2 changes, 1 request |
| `exchange_stale` (violation) | the cache is current when all arrived | 1 client, 1 request, 1 change |
| `locks_deadlock` (violation) | no deadlock | state worker and one client |
| `background` | probes blocked for a cause and read again, isolation that ends; uptime, events and statistics that catch up; frames recovered; plaintext in order | a client and the poller, 2 probes, 2 calls, 2 faults; 6 changes, queue of 1; 153 lines of 3 pieces; 2 sends, 3 lines of packets: 414 999 states |
| `client_data` | the name session, the cache and its events, mask and report, troubles, control calls, and that every deadlock of the locks is a zone push against a reload | 2 queriers, positions 1 and 256, 1 reload; 6 categories, 3 frames, 2 events; 39 selections, 1 change, 2 frames of one bit; 2 callers, 2 calls; worker, state worker, 2 clients: 1 080 643 states |
| `codec_end` (violation) | a whole frame is decoded | 2 frames |

Why the bounds suffice.  A channel of one slot is the smallest at which callers
wait behind another and for the slot itself.  Two clients make every pair of calls
overlap; the worker serves one at a time, so a third adds only a longer queue.
Counters that only take part in comparisons stop one above the largest value
compared (`FailedCap`, `MissedCap`, `EventAgeCap`), where larger values act alike.
The watchdog, the ping and the backoff have limits small enough for each to
expire before and after the others.  In `SatelExchange` three requests are a command,
one that times out, and one that meets the late answer; two changes are one push in
the channel and one behind it.  `worker_liveness` has one client because symmetry is
unsound for liveness and the calls of other clients are covered by safety;
its ping comes after each quiet second (`PingIdleSecs` = 1) with timeouts as long, as
in the code's defaults (2 s and 2 s).  `worker_frozen` has the timeout below the ping.
In `StateLocks` nothing is bounded but the tasks, and the theorems hold for any.
In `ProbePolling` two faults make a probe fail until it is blocked and recover, or fail in
both ways; a limit of two timeouts and one of a single sensor error are a counter that
waits and one that blocks at once; the second probe keeps a cycle going for longer than
one read.  In `Statistics` a queue of one slot and six changes let the connection be lost
and come up again while the state worker is behind; two frames are enough for the
periodic event.  The lines of `SatelCodec` put each kind of piece (a frame with bytes to
stuff, one that starts like an end marker, frames cut in the header, after it and in the
data, noise) before, between and behind plain ones, and every read length is tried.
`EncryptedStream` has packet lengths small enough for the prefix to wrap.  In
`NameSession` two queries meet each other and a reload at every step; kinds are queried
apart, as they share no session type.  One answer is late at a time: partitions, with their
four levels, meet a reload with two tasks, and late answers of their own queries with one,
scans among them; zones meet late answers, refusals of other commands and late answers of
queries for outputs, with two tasks, and the reload in queries of one position before a name
is stored; outputs, whose two types act as those of zones, meet neither.  In
`ControlCommands` two calls are one given up and the one that takes its result, and the later
ones only disarm.  In `TroubleFrames` one change of the options lies between two connects.  In `StateCache` two groups of categories are kept
apart for the same reason; a frame sets every position, or the lower ones of a smaller panel,
and three frames are a first read, a change and one on top of it.  Trouble frames show one bit at a time, each
bit of each command, over the traces of another: `decode_troubles` treats bits apart.
No run checks TLC's deadlock: a client may call before the first connect and then
waits, the exchange runs end when their bounds are used up, and the locks do deadlock,
which the invariants of `StateLocks` describe, for any subset of the tasks.

### What the violations show

- `worker_frozen`: README, "Dead Connection Detection": "Detects silent socket
  freezes".  Each write accepted by the socket makes the line look busy, and only pings
  count; with `read_timeout_ms` < 2000 a client that repeats a command keeps the ping
  from being due.  With the default timeouts the link is found dead (`worker_liveness`).
- `worker_queue`: `config.rs` documents `buffer_timeout_ms` as the maximum lifetime in
  the queue; it is only looked at when the message is taken out, which before the
  first connect is never.
- `exchange_late`: `exchange` "awaits the response frame"; after a timeout it returns
  the late answer for the next command.
- `exchange_cancel`: pushes "eliminate the need for active polling"; one that waits
  for a full channel is dropped when a tick or a request is ready.
- `exchange_stale`: the cache "is continuously updated"; a getter's older answer may
  be written over a newer push and stays.
- `locks_deadlock`: the cache is open to "instant reads of any parameters by multiple
  threads simultaneously"; when a reload waits for `config` between the two reads of a
  zone push, neither goes on, and `state` stays locked for writing.  The second read
  happens for each zone whose value is unchanged, that is in almost every push.
  `OnlyDeadlock` shows that there is no other; to read the inversions before the
  `if let`, as the getters do, removes it.
- `codec_end`: "Frame format: `0xFE 0xFE [cmd] [data...] ...`"; the search for the end
  marker starts at the header, so that `FE FE 0D`, the header and the command 0x0D of
  `command.rs:18`, holds one.  Without this command the decoder recovers everything
  (`FramesRecovered`).

### Fairness

`FairSpec` assumes no more than the code and tokio give:

- `WF(WorkerBusy)`: every await of the worker is inside a `timeout`.
- `SF(Receive)`, `SF(Tick)`: the loop comes back to `select!` after each branch, and
  `select!` polls its branches in random order, so a branch that is ready each time is
  taken in the end.  Weak fairness would not do: the branch is disabled while the worker
  is in another.
- `SF(ReloadCheck)`, `SF(ReloadConnect)`: the channel serves waiting senders in order.
- `WF(HotReloadFlag)`: no await lies between the lock and the flag.

Clients need not call, frames need not arrive, and the link need not thaw.

`ProbesFairness`: a task that reads goes on (its lock and its exchange end), the polling
worker's loop turns each second, time passes, and a lost connection comes back in the
end, without which no probe is read.  A call need not be made and a probe need not
recover; `HealthyProbeRead` is about one that does and stays well.  `StatsFairness`: the
state worker and the polling worker go on; nothing is asked of the connection.

## Theorems

Proved by TLAPS for any clients, masks, capacity, limits that satisfy the assumptions
(`ClientsAssumption`, `RequestsAssumption`, `MasksAssumption`, `ReconnectsAssumption`,
`BoundsAssumption`), in `SatelWorker_proofs`:

| Theorem | Establishes | From |
|---|---|---|
| `TypeCorrect` | `TypeOK` | inductive by itself, split into parts |
| `SessionCorrect` | `SessionConsistent` | `SessionInv` |
| `DisconnectSticks` | `UserDisconnectSticks` | action by action |
| `LossCounted` | `LossCountedOnce` | `SessionInv` |
| `MissedPingsBounded` | `MissedPingsBelowLimit` | `SessionInv` |
| `MaskSynchronised` | `MaskInSync` | `SyncInv` |
| `LifecycleImplemented` | `LifecycleSteps`, the refinement without fairness | `SessionInv` |
| `CallersServed` | `NoOrphanedCaller` | `CallersInv` |
| `ResultsTruthful` | `TruthfulResults` | `SessionInv`, `ServerInv` |

And in `StateLocks_proofs`, for any tasks and duties (`DutiesAssumption`):

| Theorem | Establishes | From |
|---|---|---|
| `LocksTyped` | `LocksTypeOK` | `LockInv` |
| `OnlyDeadlock` | `DeadlockNeedsPushAndReload` | `LockInv` |
| `NoDeadlockOtherwise` | `NoDeadlock`, if no task handles zone pushes or none reloads | `OnlyDeadlock` |

And in `Background_proofs`, for any probes, limits and callers (`ProbesAssumption`,
`LimitsOfProbes`):

| Theorem | Establishes | From |
|---|---|---|
| `IsolationAlwaysEnds` | `IsolationEnds` | `ProbesInv` |
| `BlockedAlwaysForCause` | `BlockedForCause` | `ProbesInv` |
| `RetryReadAlwaysAsks` | `RetryReadAsks` | `ProbesInv` |

And there too, for any queue, number of changes and of frames (`StatsAssumption`):

| Theorem | Establishes | From |
|---|---|---|
| `UptimeAlwaysExact` | `UptimeExact` | `Session` |
| `EventsAlwaysCatchUp` | `EventsCatchUp` | `CatchingUp`, `Holding`, `Telling` |
| `StatsTyped` | `StatsTypeOK` | `StatsInv` |

And in `SatelExchange_proofs`, for any clients, commands, changes and capacity
(`NamesAssumption`, `LimitsAssumption`):

| Theorem | Establishes | From |
|---|---|---|
| `ExchangeTyped` | `TypeOK` | `Shapes` |
| `AnswersAlwaysAligned` | `AnswersAligned` | `Aligned`, `Queued` |
| `RefusalsAlwaysAnnounced` | `RefusalsAnnounced` | `Heralded`, `Queued` |
| `PushesAlwaysReach` | `PushesReachCache` | `Carried` |

And in `NameSession_proofs`, for any queriers, positions and panels (`IndicesAssumption`,
`PanelsAssumption`, `ResetsAssumption`):

| Theorem | Establishes | From |
|---|---|---|
| `SettlesOnBest` | `ConfirmedIsBest`: late answers included, but for those that mark the session `disturbed` | `NamesInv` |
| `AlwaysStoredWhereAnswered` | `StoredWhereAnswered` | `Typed`, action by action |
| `NamesTyped` | `NamesTypeOK` | `Typed` |

And in `ClientData_proofs`, for any categories, positions, tasks and channel
(`CacheAssumption`), any sets of options (`OptionSetsAssumption`), any callers, codes and
numbers:

| Theorem | Establishes | From |
|---|---|---|
| `EventsAlwaysFollow` | `EventsFollowCache` | `CacheInv` |
| `RefreshAlwaysHeals` | `RefreshHeals` | `CacheInv`, `BroadcastTells` |
| `CacheIsTyped` | `CacheTypeOK` | `CacheInv` |
| `AskedAlwaysWanted` | `AskedIsWanted` | `MaskInv`, `MaskMatchesDispatch` |
| `FlagsAlwaysLastFrames` | `FlagsAreLastFrames` | `FlagsInv`, `Alikes`, `AllOwned` |
| `OkAlwaysMeansDone` | `OkMeansDone` | `ControlInv` |

And in `EncryptedStream_proofs`, for any lengths of packets and frames and any pieces on
the socket, if a frame alone fits a packet (`StreamAssumption`; the longest frame of the
crate has 41 bytes, 90 with the checksum and every byte stuffed, of the 249 that fit):

| Theorem | Establishes | From |
|---|---|---|
| `PlaintextAlwaysInOrder` | `PlaintextInOrder` | `WritingInv`, `ReadingInv` |

And in `SatelCodec_proofs`, for any frames, any bytes between them but SYNC and END, any
line of these and any cut of it into reads (`CodecAssumption`):

| Theorem | Establishes | From |
|---|---|---|
| `StuffingUndone` | `Unstuff(Stuff(data)) = data`, and no marker inside | `StuffedWell` |
| `CleanLinesRecovered` | `CleanLine => FramesRecovered` | `CodecInv` |

The strengthenings, and why they are needed:

- `SessionInv`: `SessionConsistent`, and that a tick on its way to the ping finds
  Connected or ConnectionLost, and that a session has no failed attempts.  Without the
  second a ping could declare lost what a client had disconnected; the third makes the
  backoff start at its first step.
- `ServerInv`: who is served in which phase: nobody at `select!` and in a tick, a command
  in an exchange, a connect or nobody in a connect.  Results can be judged only if the
  call of the one they go to is known.
- `SyncInv`: `Owed` (the flag is up, or a reload is yet to raise it or to disconnect) or
  the mask on its way is the configured one; it covers the time between the building
  of a mask and its acknowledgment, which `MaskInSync` leaves out.
- `CallersInv`: `NoOrphanedCaller` over `Holds` and `Distinct`, two operators on the
  channel with lemmas on `Append` and `Tail`, so that no proof step looks at indices.
- `LockInv` (theorem `LocksHeld`): the guards of each task are a function of where it
  is.  From it `WaitersHold`: who waits and holds `state` is at `consult`, who waits and
  holds `config` is a push.  A circle is then followed from any of its members: a
  request for `state` leads to `consult`, one for `config` to a reload, a reload to a
  push.
- `ProbesInv`: the three, and `CountsWithin`: a probe outside `surplus` has no error
  counted beyond a limit.  Without it one error taken off a counter by `Unblock` need not
  bring it below the limit.  A copy needs no invariant of its own: the cycles it carries
  are compared with the limit before they are written, and its status counts only where it
  was not outdated.  `Sound` is the invariant of one probe, so that each step is judged by
  the one it writes.

- `ExchangeInv`: `Queued` says that whoever waits or is served has a serial of its own.
  `Aligned` says where a command or an answer to one can be while nothing timed out: one
  command on the line at most, the one that is served, or one answer, to it, and never both;
  so the first frame that ends an exchange is its answer.  It needs the write buffer to be
  empty.  `Heralded` follows a refusal from the wire through the state worker's channel to
  who is told of it.  `Carried` says which versions are under way: the panel's is in the
  cache or among them.
- `StatsInv`: `Session` is inductive alone.  `CatchingUp` looks at the last notice in the
  queue and the last snapshot held: what will have been told last is the state of the link,
  however much comes before it.  `Holding` makes a sender's snapshot the only one it has.
- `NamesInv`: `Typed`, where every frame on the line or taken from it is one the panel has
  given, and `Fitting`, which says what a query in flight knows while nothing disturbed it:
  the type it loaded is the one the session starts from or the best, and the best type is
  among those it has left, or the panel knows none of these.  Every name on the line is of the best type
  (`BestFrames`): without this a late answer could confirm a type the panel does not prefer.
- `CacheInv`: `Following` says of a key at its position what `EventsFollowCache` says of
  its category: a version that covers some positions lets the others be followed while it
  is still to be told.  `Telling`: what is still to be told is what the cache holds, unless
  updates overlapped.  `Apart`: a key that is missed has no event in the channel.  `Fresh`: who
  does not subscribe has been told nothing.  The proof rests on three lemmas about channels:
  `LatestAppended`, `LatestKept` and `LatestReceived` say what a subscriber comes to believe
  when events are added behind, lost in front, and read.  `OrderedIsInOrder` shows that the
  order in which `EventsFor` takes positions exists.
- `MaskInv`: a mask on its way, not only the one the panel has taken, is that of the
  options, unless a reload has begun, and a connection that is being made has none yet:
  from this it follows that a connect without a mask leaves nothing pushed.  `MaskMatchesDispatch` compares the mask with the
  dispatch, option by option, for every command.
- `ControlInv`: the frame of a call is that of its operation, object and code (`CallInv`);
  while a call that is not doubtful is in its exchange, what is on the line is its own
  command or its own result, and a result of 0x00 or 0xFF has its entry in what the panel has
  done (`WireInv`); and one call at a time is in an exchange.
  `MaskNamesObject` is the arithmetic of the one bit.
- `FlagsInv`: the cache has what the last frames set by its own tables (`RulesOf`).  It is
  kept because no two commands write the same key (`AllOwned`, `Owner`), so that a frame
  removes nothing of another's.  `Alikes` compares, command by command and field by field,
  the tables with the slices of the parts (`PartOf`) that `FlagsAreLastFrames` speaks of.
- `WritingInv`: `WritesInOrder`, the types, and that without a send given up `framed` is
  empty or the one frame that is being sent.  Without it the prefix could wrap.
- `ReadingInv`: for some number k the first k packets are decrypted, and the bytes not
  read or not unwrapped, behind the prefix that was taken off, are the rest of the line.
  From it whatever is unwrapped next is one packet, whole.  `FlattenSeq` is a recursion of
  the community modules: `JoinedNext` and `FlattenAppend` are proved from a least
  counterexample (`LeastNumber`), as no theorem of induction can be used.

- `CodecInv`: what is buffered and under way is what is left of the line (`InPlace`); a
  frame that shows is consumed in full or not at all, and the ones consumed are those
  decoded (`StandsAt`, `DecodedAt`); and while `decode` rests there is no header in the
  buffer, or no end marker behind it (`Idle`).  `HeaderOfNext` is the argument: two SYNCs in
  a row are the header of a frame, or its second SYNC and a stuffed one (`HeaderInLine`),
  and the first pair in the buffer is never the latter, since no frame is consumed in part;
  a hidden one is, but behind its 0x0D no two SYNCs meet.  `EndOfFrame` then finds the end
  marker of that frame, as `StuffingUndone` leaves none inside.  `NoneLeftBehind` turns
  `Idle` into "nothing whole is left" when the line has been read.

Only model-checked: the liveness properties and the fairness part of `LifecycleSpec`
(liveness and ENABLED are out of the prover's reach); `BackgroundTypeOK` and
`ClientDataTypeOK`, which compose the types of parts (`StatsTyped`, `NamesTyped` and
`CacheIsTyped` state three of them); and `FramesRecovered` on lines with cut frames.  There
it is no theorem: what is left of a cut frame and the frame behind it may have, by
chance, a CRC that fits.

## What is not modelled, and the plan

Left out for good: the tables of the catalogs, the wording of logs and events,
progress events of scans, enumerations and their conversions, the layouts of versions, of the
clock and of the system status, the validation of configurations, the byte counts of
`counting_stream.rs`, the cipher, the counter and the ids in the header of a packet, and
errors of the socket within a poll.  `max_missed_pings` and the timeouts are constants: a
hot reload changes only `auto_reconnect`, the selection of `auto_read_*`, the extended names,
the inversions, the `emit_unchanged_*` options and the user code, each in the module that
reads it.  Two reloads that overlap are modelled in `SatelWorker` only.  A caller that drops
its future is not modelled: the worker ignores the failed send.  Two merges are smaller than
a step of the code: `TickResend` swaps the flag and builds the mask in one action, between
which the code awaits nothing, and `Statistics` leaves out the second `connection_lost` of a
failed handshake, which changes none of its counters and announces the same state again.  Hazards
that no property watches are listed in `PROJECT.json` with the reason: the races recorded as
`overtaken`, the wrapped prefix of packets too long, the doubled count of a failed handshake,
the result frame without a code, the report an earlier connection has left.  Values of a category that
are not bits (times, zone parameters) are as good as bits to the change detection.
