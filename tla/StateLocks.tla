----------------------------- MODULE StateLocks -----------------------------
(***************************************************************************)
(* The two std::sync::RwLock every task of the crate shares: config, the   *)
(* configuration (src/client.rs:51), and state, the cache                  *)
(* (src/state.rs:1225).  Only the locking of each operation is kept: which *)
(* guards it takes, in what order, and until where it holds them.  A guard *)
(* is never held over an await, so a task waits for locks alone.           *)
(* To be at a request is to be in the queue of the lock: a task that has   *)
(* yet to get in line is one step earlier.                                 *)
(***************************************************************************)
EXTENDS Naturals

CONSTANTS
    Tasks,    \* the worker, the state worker, and the tasks that use the client
    Duties    \* the operations each task performs

Locks == {"config", "state"}

Operations ==
    {"ReadConfig", "ReadState", "HotReload", "Update", "GetZones", "ZonePush"}

ASSUME DutiesAssumption == Duties \in [Tasks -> SUBSET Operations]

VARIABLES
    op,       \* the operation of each task, or "none"
    pc,       \* where in it the task is: a request for a lock, or what it does with it
    reads,    \* read guards on a lock that a task holds
    writes    \* the tasks that hold the write guard of a lock

vars == <<op, pc, reads, writes>>

\* Steps at which a task asks for a lock, with the lock and the mode.
Requests ==
    [read_config |-> <<"config", "read">>,  read_state |-> <<"state", "read">>,
     reload      |-> <<"config", "write">>, apply      |-> <<"state", "write">>,
     query       |-> <<"config", "read">>,  invert     |-> <<"config", "read">>,
     consult     |-> <<"config", "read">>]

Steps == DOMAIN Requests \cup
    {"idle", "reading_config", "reading_state", "reloading", "querying",
     "updating", "consulting", "pushed"}

Wants(t, lock, mode) ==
    pc[t] \in DOMAIN Requests /\ Requests[pc[t]] = <<lock, mode>>

Holds(t, lock) == reads[lock][t] > 0 \/ t \in writes[lock]

\* A writer waits for every guard.  A reader waits for a writer that holds the
\* lock and for one that waits for it: std's lock lets no reader past a writer.
WaitsFor(t, u) ==
    \E lock \in Locks :
        \/ Wants(t, lock, "write") /\ Holds(u, lock)
        \/ Wants(t, lock, "read") /\ (u \in writes[lock] \/ Wants(u, lock, "write"))

Init ==
    /\ op = [t \in Tasks |-> "none"]
    /\ pc = [t \in Tasks |-> "idle"]
    /\ reads = [lock \in Locks |-> [t \in Tasks |-> 0]]
    /\ writes = [lock \in Locks |-> {}]

-----------------------------------------------------------------------------
(* Guards.                                                                 *)

Goto(t, step) == pc' = [pc EXCEPT ![t] = step]

Begin(t, operation, request) ==
    /\ pc[t] = "idle"
    /\ operation \in Duties[t]
    /\ op' = [op EXCEPT ![t] = operation]
    /\ Goto(t, request)
    /\ UNCHANGED <<reads, writes>>

TakeRead(t, request, lock, step) ==
    /\ pc[t] = request
    /\ \A u \in Tasks : ~WaitsFor(t, u)
    /\ reads' = [reads EXCEPT ![lock][t] = @ + 1]
    /\ Goto(t, step)
    /\ UNCHANGED <<op, writes>>

TakeWrite(t, request, lock, step) ==
    /\ pc[t] = request
    /\ \A u \in Tasks : ~WaitsFor(t, u)
    /\ writes' = [writes EXCEPT ![lock] = @ \cup {t}]
    /\ Goto(t, step)
    /\ UNCHANGED <<op, reads>>

DropRead(t, lock) ==
    /\ reads' = [reads EXCEPT ![lock][t] = @ - 1]
    /\ UNCHANGED writes

DropWrite(t, lock) ==
    /\ writes' = [writes EXCEPT ![lock] = @ \ {t}]
    /\ UNCHANGED reads

Return(t) ==
    /\ Goto(t, "idle")
    /\ op' = [op EXCEPT ![t] = "none"]

-----------------------------------------------------------------------------
(* Operations that take one lock and do nothing else with it held.         *)

\* config.read for a value: timeouts, limits, the user code, the push mask.
ReadConfig(t) ==
    \/ Begin(t, "ReadConfig", "read_config")
    \/ TakeRead(t, "read_config", "config", "reading_config")
    \/ pc[t] = "reading_config" /\ DropRead(t, "config") /\ Return(t)

\* state.read for a value: the cached states, the telemetry.
ReadState(t) ==
    \/ Begin(t, "ReadState", "read_state")
    \/ TakeRead(t, "read_state", "state", "reading_state")
    \/ pc[t] = "reading_state" /\ DropRead(t, "state") /\ Return(t)

\* config.write, to replace the configuration.
HotReload(t) ==
    \/ Begin(t, "HotReload", "reload")
    \/ TakeWrite(t, "reload", "config", "reloading")
    \/ pc[t] = "reloading" /\ DropWrite(t, "config") /\ Return(t)

-----------------------------------------------------------------------------
(* Operations that change the cache.                                       *)

\* Slip: the guard of the inversions lives until the answer is applied.
SlipQueryDone(t) ==
    /\ pc[t] = "querying"
    /\ Goto(t, "apply")
    /\ UNCHANGED <<op, reads, writes>>

\* A query reads the inversions, and drops config before it applies the answer; it
\* returns at once if the answer does not parse.
QueryDone(t) ==
    /\ pc[t] = "querying"
    /\ DropRead(t, "config")
    /\ Goto(t, "apply")
    /\ UNCHANGED op

GetZones(t) ==
    \/ Begin(t, "GetZones", "query")
    \/ TakeRead(t, "query", "config", "querying")
    \/ QueryDone(t)
    \/ pc[t] = "querying" /\ DropRead(t, "config") /\ Return(t)

\* handle_auto_frame for zones: the guard on config is a temporary of the if let,
\* and lives to the end of its body, over the whole of the update.  A frame that
\* does not parse updates nothing.
ZonePush(t) ==
    \/ Begin(t, "ZonePush", "invert")
    \/ TakeRead(t, "invert", "config", "apply")
    \/ TakeRead(t, "invert", "config", "pushed")
    \/ pc[t] = "pushed" /\ DropRead(t, "config") /\ Return(t)

\* Slip: the state worker returns to its channel with the guard kept.
SlipUpdateDone(t) ==
    /\ pc[t] = "updating"
    /\ DropWrite(t, "state")
    /\ Return(t)

\* The write to the cache ends; a push still has its guard on config to drop.
UpdateDone(t) ==
    /\ pc[t] = "updating"
    /\ DropWrite(t, "state")
    /\ IF op[t] = "ZonePush" THEN Goto(t, "pushed") /\ UNCHANGED op ELSE Return(t)

\* state.write, and config.read under it for the emit_unchanged_* of each entry
\* whose value is the old one: as often as there are such entries.
Update(t) ==
    \/ Begin(t, "Update", "apply")
    \/ TakeWrite(t, "apply", "state", "updating")
    \/ pc[t] = "updating" /\ Goto(t, "consult") /\ UNCHANGED <<op, reads, writes>>
    \/ TakeRead(t, "consult", "config", "consulting")
    \/ pc[t] = "consulting" /\ DropRead(t, "config") /\ Goto(t, "updating") /\ UNCHANGED op
    \/ UpdateDone(t)

Next ==
    \E t \in Tasks :
        \/ ReadConfig(t)
        \/ ReadState(t)
        \/ HotReload(t)
        \/ GetZones(t)
        \/ ZonePush(t)
        \/ Update(t)

Spec == Init /\ [][Next]_vars

-----------------------------------------------------------------------------
(* Properties.                                                             *)

\* Every variable is in its range, and no task holds more than two read guards
\* on a lock: the guards of an operation all end with it.
LocksTypeOK ==
    /\ op \in [Tasks -> Operations \cup {"none"}]
    /\ pc \in [Tasks -> Steps]
    /\ reads \in [Locks -> [Tasks -> 0..2]]
    /\ writes \in [Locks -> SUBSET Tasks]

\* Tasks none of which can go on before another of them does.
Deadlocked(S) == S # {} /\ \A t \in S : \E u \in S : WaitsFor(t, u)

\* No tasks of the crate ever wait for each other in a circle, whatever reads,
\* updates, pushes and reloads overlap.  The README calls the cache "fully
\* secured by `RwLock` primitives", open to "synchronous, instant reads of any
\* parameters by multiple threads simultaneously".
NoDeadlock == \A S \in SUBSET Tasks : ~Deadlocked(S)

\* The one circle there is: every deadlock has in it the state worker in a push
\* of zones, with config kept by the if let, and a task that waits to reload the
\* configuration.  All other orders of taking the two locks are safe: updates
\* take config under state, and nothing else takes state under config.
DeadlockNeedsPushAndReload ==
    \A S \in SUBSET Tasks :
        Deadlocked(S) => /\ \E t \in S : op[t] = "ZonePush" /\ reads["config"][t] > 0
                         /\ \E u \in S : op[u] = "HotReload"
=============================================================================
