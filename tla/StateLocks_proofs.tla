-------------------------- MODULE StateLocks_proofs --------------------------
(***************************************************************************)
(* Proofs about StateLocks, for any tasks with any duties.                 *)
(***************************************************************************)
EXTENDS StateLocks, TLAPS

\* The steps at which a push still has the guard that its if let took.
Scrutinee(t) ==
    op[t] = "ZonePush" /\ pc[t] \in {"apply", "updating", "consult", "consulting", "pushed"}

\* The steps whose own read guard on config is held.
Looking(t) == pc[t] \in {"reading_config", "querying", "consulting"}

\* What a task holds follows from where it is.
Owned(t) ==
    /\ reads["config"][t] = (IF Scrutinee(t) THEN 1 ELSE 0) + (IF Looking(t) THEN 1 ELSE 0)
    /\ reads["state"][t] = IF pc[t] = "reading_state" THEN 1 ELSE 0
    /\ t \in writes["config"] <=> pc[t] = "reloading"
    /\ t \in writes["state"] <=> pc[t] \in {"updating", "consult", "consulting"}

\* Where a task is fits the operation it performs.
OnPath(t) ==
    /\ pc[t] = "pushed" => op[t] = "ZonePush"
    /\ pc[t] = "reload" => op[t] = "HotReload"
    /\ pc[t] = "invert" => op[t] = "ZonePush"
    /\ pc[t] \in {"reading_config", "querying", "read_config", "query"} => op[t] # "ZonePush"

LockInv ==
    /\ op \in [Tasks -> Operations \cup {"none"}]
    /\ pc \in [Tasks -> Steps]
    /\ reads \in [Locks -> [Tasks -> Nat]]
    /\ writes \in [Locks -> SUBSET Tasks]
    /\ \A t \in Tasks : Owned(t) /\ OnPath(t)

\* The requests, lock by lock, for the provers.
LEMMA RequestCases ==
    ASSUME NEW t \in Tasks
    PROVE  /\ Wants(t, "config", "read") <=> pc[t] \in {"read_config", "query", "invert", "consult"}
           /\ Wants(t, "config", "write") <=> pc[t] = "reload"
           /\ Wants(t, "state", "read") <=> pc[t] = "read_state"
           /\ Wants(t, "state", "write") <=> pc[t] = "apply"
  BY DEF Wants, Requests

\* The steps, listed.
LEMMA StepsListed ==
    Steps = {"read_config", "read_state", "reload", "apply", "query", "invert", "consult",
             "idle", "reading_config", "reading_state", "reloading", "querying",
             "updating", "consulting", "pushed"}
  BY DEF Steps, Requests

\* What a task holds is of the type the specification states.
LEMMA InvTypes == LockInv => LocksTypeOK
<1> SUFFICES ASSUME LockInv PROVE LocksTypeOK
  OBVIOUS
<1>1. ASSUME NEW lock \in Locks, NEW t \in Tasks PROVE reads[lock][t] \in 0..2
  BY DEF LockInv, Owned, Locks
<1>2. reads \in [Locks -> [Tasks -> 0..2]]
  BY <1>1 DEF LockInv
<1>3. QED
  BY <1>2 DEF LockInv, LocksTypeOK

LEMMA InitInv == Init => LockInv
  BY StepsListed DEF Init, LockInv, Owned, OnPath, Scrutinee, Looking, Locks

\* A step that leaves what is a task's own alone leaves the task where it was.
LEMMA OthersKept ==
    ASSUME LockInv, NEW t \in Tasks,
           op' \in [Tasks -> Operations \cup {"none"}], pc' \in [Tasks -> Steps],
           reads' \in [Locks -> [Tasks -> Nat]], writes' \in [Locks -> SUBSET Tasks],
           Owned(t)', OnPath(t)',
           \A u \in Tasks \ {t} :
               /\ op'[u] = op[u] /\ pc'[u] = pc[u]
               /\ \A lock \in Locks :
                      /\ reads'[lock][u] = reads[lock][u]
                      /\ u \in writes'[lock] <=> u \in writes[lock]
    PROVE  LockInv'
<1>1. ASSUME NEW u \in Tasks \ {t} PROVE Owned(u)' /\ OnPath(u)'
  BY <1>1 DEF LockInv, Owned, OnPath, Scrutinee, Looking, Locks
<1>2. QED
  BY <1>1 DEF LockInv

\* An operation begins only from idle, where a task holds nothing.
LEMMA BeginKeeps ==
    ASSUME LockInv, NEW t \in Tasks, NEW operation \in Operations, NEW request \in Steps,
           Begin(t, operation, request),
           <<operation, request>> \in
               {<<"ReadConfig", "read_config">>, <<"ReadState", "read_state">>,
                <<"HotReload", "reload">>, <<"GetZones", "query">>,
                <<"ZonePush", "invert">>, <<"Update", "apply">>}
    PROVE  LockInv'
<1>1. Owned(t)' /\ OnPath(t)'
  BY DEF LockInv, Begin, Goto, Owned, OnPath, Scrutinee, Looking
<1>2. op' \in [Tasks -> Operations \cup {"none"}] /\ pc' \in [Tasks -> Steps]
  BY DEF LockInv, Begin, Goto
<1>3. QED
  BY <1>1, <1>2, OthersKept DEF LockInv, Begin, Goto

\* A read guard is taken at each of the requests for one.
LEMMA TakeReadKeeps ==
    ASSUME LockInv, NEW t \in Tasks, NEW request, NEW lock \in Locks, NEW step \in Steps,
           TakeRead(t, request, lock, step),
           <<request, lock, step>> \in
               {<<"read_config", "config", "reading_config">>,
                <<"read_state", "state", "reading_state">>,
                <<"query", "config", "querying">>,
                <<"invert", "config", "apply">>,
                <<"invert", "config", "pushed">>,
                <<"consult", "config", "consulting">>}
    PROVE  LockInv'
<1>1. /\ reads' \in [Locks -> [Tasks -> Nat]]
      /\ reads'[lock][t] = reads[lock][t] + 1
      /\ \A l \in Locks, u \in Tasks :
             l # lock \/ u # t => reads'[l][u] = reads[l][u]
  BY DEF LockInv, TakeRead
<1>2. /\ pc' \in [Tasks -> Steps] /\ pc'[t] = step
      /\ \A u \in Tasks \ {t} : pc'[u] = pc[u]
  BY DEF LockInv, TakeRead, Goto
<1>3. op' = op /\ writes' = writes /\ pc[t] = request
  BY DEF TakeRead
<1>4. Owned(t)' /\ OnPath(t)'
  BY <1>1, <1>2, <1>3 DEF LockInv, Owned, OnPath, Scrutinee, Looking, Locks
<1>5. QED
  BY <1>1, <1>2, <1>3, <1>4, OthersKept DEF LockInv

\* A write guard is taken at each of the requests for one.
LEMMA TakeWriteKeeps ==
    ASSUME LockInv, NEW t \in Tasks, NEW request, NEW lock \in Locks, NEW step \in Steps,
           TakeWrite(t, request, lock, step),
           <<request, lock, step>> \in
               {<<"reload", "config", "reloading">>, <<"apply", "state", "updating">>}
    PROVE  LockInv'
<1>1. /\ writes' \in [Locks -> SUBSET Tasks]
      /\ t \in writes'[lock]
      /\ \A l \in Locks, u \in Tasks :
             l # lock \/ u # t => (u \in writes'[l] <=> u \in writes[l])
  BY DEF LockInv, TakeWrite
<1>2. /\ pc' \in [Tasks -> Steps] /\ pc'[t] = step
      /\ \A u \in Tasks \ {t} : pc'[u] = pc[u]
  BY DEF LockInv, TakeWrite, Goto
<1>3. op' = op /\ reads' = reads /\ pc[t] = request
  BY DEF TakeWrite
<1>4. Owned(t)' /\ OnPath(t)'
  BY <1>1, <1>2, <1>3 DEF LockInv, Owned, OnPath, Scrutinee, Looking, Locks
<1>5. QED
  BY <1>1, <1>2, <1>3, <1>4, OthersKept DEF LockInv

\* A dropped guard is one the task has, and the count stays a number.
LEMMA DropReadEffect ==
    ASSUME LockInv, NEW t \in Tasks, NEW lock \in Locks,
           reads[lock][t] > 0, DropRead(t, lock)
    PROVE  /\ reads' \in [Locks -> [Tasks -> Nat]]
           /\ reads'[lock][t] = reads[lock][t] - 1
           /\ \A l \in Locks, u \in Tasks :
                  l # lock \/ u # t => reads'[l][u] = reads[l][u]
           /\ writes' = writes
<1>1. reads[lock][t] \in Nat /\ reads[lock][t] - 1 \in Nat
  BY DEF LockInv
<1>2. reads' = [reads EXCEPT ![lock] = [reads[lock] EXCEPT ![t] = reads[lock][t] - 1]]
  BY DEF LockInv, DropRead
<1>3. QED
  BY <1>1, <1>2 DEF LockInv, DropRead

\* A dropped write guard is the task's own.
LEMMA DropWriteEffect ==
    ASSUME LockInv, NEW t \in Tasks, NEW lock \in Locks, DropWrite(t, lock)
    PROVE  /\ writes' \in [Locks -> SUBSET Tasks]
           /\ t \notin writes'[lock]
           /\ \A l \in Locks, u \in Tasks :
                  l # lock \/ u # t => (u \in writes'[l] <=> u \in writes[l])
           /\ reads' = reads
  BY DEF LockInv, DropWrite

\* An operation ends in idle.
LEMMA ReturnEffect ==
    ASSUME LockInv, NEW t \in Tasks, Return(t)
    PROVE  /\ pc' \in [Tasks -> Steps] /\ pc'[t] = "idle"
           /\ op' \in [Tasks -> Operations \cup {"none"}] /\ op'[t] = "none"
           /\ \A u \in Tasks \ {t} : pc'[u] = pc[u] /\ op'[u] = op[u]
  BY StepsListed DEF LockInv, Return, Goto

\* A task within an operation moves on to a step of it.
LEMMA GotoEffect ==
    ASSUME LockInv, NEW t \in Tasks, NEW step \in Steps, Goto(t, step), UNCHANGED op
    PROVE  /\ pc' \in [Tasks -> Steps] /\ pc'[t] = step
           /\ op' \in [Tasks -> Operations \cup {"none"}]
           /\ \A u \in Tasks : op'[u] = op[u]
           /\ \A u \in Tasks \ {t} : pc'[u] = pc[u]
  BY DEF LockInv, Goto

\* The operations that take one lock keep the invariant.
LEMMA ReadingKeeps ==
    ASSUME LockInv, NEW t \in Tasks, ReadConfig(t) \/ ReadState(t) \/ HotReload(t)
    PROVE  LockInv'
<1>1. CASE \/ Begin(t, "ReadConfig", "read_config")
           \/ Begin(t, "ReadState", "read_state")
           \/ Begin(t, "HotReload", "reload")
  BY <1>1, BeginKeeps, StepsListed DEF Operations
<1>2. CASE \/ TakeRead(t, "read_config", "config", "reading_config")
           \/ TakeRead(t, "read_state", "state", "reading_state")
  BY <1>2, TakeReadKeeps, StepsListed DEF Locks
<1>3. CASE TakeWrite(t, "reload", "config", "reloading")
  BY <1>3, TakeWriteKeeps, StepsListed DEF Locks
<1>4. CASE pc[t] = "reading_config" /\ DropRead(t, "config") /\ Return(t)
  <2>1. reads["config"][t] = 1 /\ reads["state"][t] = 0
    BY <1>4 DEF LockInv, Owned, OnPath, Scrutinee, Looking
  <2>2. Owned(t)' /\ OnPath(t)'
    BY <1>4, <2>1, DropReadEffect, ReturnEffect
    DEF LockInv, Owned, OnPath, Scrutinee, Looking, Locks
  <2>3. QED
    BY <1>4, <2>1, <2>2, DropReadEffect, ReturnEffect, OthersKept DEF LockInv, Locks
<1>5. CASE pc[t] = "reading_state" /\ DropRead(t, "state") /\ Return(t)
  <2>1. reads["state"][t] = 1
    BY <1>5 DEF LockInv, Owned
  <2>2. Owned(t)' /\ OnPath(t)'
    BY <1>5, <2>1, DropReadEffect, ReturnEffect
    DEF LockInv, Owned, OnPath, Scrutinee, Looking, Locks
  <2>3. QED
    BY <1>5, <2>1, <2>2, DropReadEffect, ReturnEffect, OthersKept DEF LockInv, Locks
<1>6. CASE pc[t] = "reloading" /\ DropWrite(t, "config") /\ Return(t)
  <2>1. Owned(t)' /\ OnPath(t)'
    BY <1>6, DropWriteEffect, ReturnEffect
    DEF LockInv, Owned, OnPath, Scrutinee, Looking, Locks
  <2>2. QED
    BY <1>6, <2>1, DropWriteEffect, ReturnEffect, OthersKept DEF LockInv, Locks
<1>7. QED
  BY <1>1, <1>2, <1>3, <1>4, <1>5, <1>6 DEF ReadConfig, ReadState, HotReload

\* Queries and pushes keep the invariant: the guard a query took is gone when it
\* asks for state, the guard of a push goes with its last step.
LEMMA ApplyingKeeps ==
    ASSUME LockInv, NEW t \in Tasks, GetZones(t) \/ ZonePush(t)
    PROVE  LockInv'
<1>1. CASE Begin(t, "GetZones", "query") \/ Begin(t, "ZonePush", "invert")
  BY <1>1, BeginKeeps, StepsListed DEF Operations
<1>2. CASE \/ TakeRead(t, "query", "config", "querying")
           \/ TakeRead(t, "invert", "config", "apply")
           \/ TakeRead(t, "invert", "config", "pushed")
  BY <1>2, TakeReadKeeps, StepsListed DEF Locks
<1>3. CASE QueryDone(t)
  <2>1. reads["config"][t] = 1
    BY <1>3 DEF LockInv, Owned, OnPath, Scrutinee, Looking, QueryDone
  <2>2. DropRead(t, "config") /\ Goto(t, "apply") /\ UNCHANGED op
    BY <1>3 DEF QueryDone
  <2>3. Owned(t)' /\ OnPath(t)'
    BY <1>3, <2>1, <2>2, DropReadEffect, GotoEffect, StepsListed
    DEF LockInv, Owned, OnPath, Scrutinee, Looking, Locks, QueryDone
  <2>4. QED
    BY <2>1, <2>2, <2>3, DropReadEffect, GotoEffect, StepsListed, OthersKept
    DEF LockInv, Locks
<1>4. CASE pc[t] = "pushed" /\ DropRead(t, "config") /\ Return(t)
  <2>1. reads["config"][t] = 1
    BY <1>4 DEF LockInv, Owned, OnPath, Scrutinee, Looking
  <2>2. Owned(t)' /\ OnPath(t)'
    BY <1>4, <2>1, DropReadEffect, ReturnEffect
    DEF LockInv, Owned, OnPath, Scrutinee, Looking, Locks
  <2>3. QED
    BY <1>4, <2>1, <2>2, DropReadEffect, ReturnEffect, OthersKept DEF LockInv, Locks
<1>5. CASE pc[t] = "querying" /\ DropRead(t, "config") /\ Return(t)
  <2>1. reads["config"][t] = 1
    BY <1>5 DEF LockInv, Owned, OnPath, Scrutinee, Looking
  <2>2. Owned(t)' /\ OnPath(t)'
    BY <1>5, <2>1, DropReadEffect, ReturnEffect
    DEF LockInv, Owned, OnPath, Scrutinee, Looking, Locks
  <2>3. QED
    BY <1>5, <2>1, <2>2, DropReadEffect, ReturnEffect, OthersKept DEF LockInv, Locks
<1>6. QED
  BY <1>1, <1>2, <1>3, <1>4, <1>5 DEF GetZones, ZonePush

\* Updates keep the invariant.
LEMMA UpdatingKeeps ==
    ASSUME LockInv, NEW t \in Tasks, Update(t)
    PROVE  LockInv'
<1>1. CASE Begin(t, "Update", "apply")
  BY <1>1, BeginKeeps, StepsListed DEF Operations
<1>2. CASE TakeRead(t, "consult", "config", "consulting")
  BY <1>2, TakeReadKeeps, StepsListed DEF Locks
<1>3. CASE TakeWrite(t, "apply", "state", "updating")
  BY <1>3, TakeWriteKeeps, StepsListed DEF Locks
<1>4. CASE pc[t] = "updating" /\ Goto(t, "consult") /\ UNCHANGED <<op, reads, writes>>
  <2>1. Owned(t)' /\ OnPath(t)'
    BY <1>4, GotoEffect, StepsListed
    DEF LockInv, Owned, OnPath, Scrutinee, Looking, Locks
  <2>2. QED
    BY <1>4, <2>1, GotoEffect, StepsListed, OthersKept DEF LockInv
<1>5. CASE pc[t] = "consulting" /\ DropRead(t, "config") /\ Goto(t, "updating") /\ UNCHANGED op
  <2>1. reads["config"][t] = (IF op[t] = "ZonePush" THEN 1 ELSE 0) + 1
    BY <1>5 DEF LockInv, Owned, Scrutinee, Looking
  <2>2. reads["config"][t] > 0
    BY <2>1
  <2>3. Owned(t)' /\ OnPath(t)'
    BY <1>5, <2>1, <2>2, DropReadEffect, GotoEffect, StepsListed
    DEF LockInv, Owned, OnPath, Scrutinee, Looking, Locks
  <2>4. QED
    BY <1>5, <2>2, <2>3, DropReadEffect, GotoEffect, StepsListed, OthersKept
    DEF LockInv, Locks
<1>6. CASE UpdateDone(t)
  <2>1. pc[t] = "updating" /\ DropWrite(t, "state")
    BY <1>6 DEF UpdateDone
  <2>2. CASE op[t] = "ZonePush" /\ Goto(t, "pushed") /\ UNCHANGED op
    <3>1. Owned(t)' /\ OnPath(t)'
      BY <2>1, <2>2, DropWriteEffect, GotoEffect, StepsListed
      DEF LockInv, Owned, OnPath, Scrutinee, Looking, Locks
    <3>2. QED
      BY <2>1, <2>2, <3>1, DropWriteEffect, GotoEffect, StepsListed, OthersKept
      DEF LockInv, Locks
  <2>3. CASE op[t] # "ZonePush" /\ Return(t)
    <3>1. Owned(t)' /\ OnPath(t)'
      BY <2>1, <2>3, DropWriteEffect, ReturnEffect
      DEF LockInv, Owned, OnPath, Scrutinee, Looking, Locks
    <3>2. QED
      BY <2>1, <2>3, <3>1, DropWriteEffect, ReturnEffect, OthersKept DEF LockInv, Locks
  <2>4. QED
    BY <1>6, <2>2, <2>3 DEF UpdateDone
<1>7. QED
  BY <1>1, <1>2, <1>3, <1>4, <1>5, <1>6 DEF Update

\* Every behaviour keeps the guards where the operations put them.
THEOREM LocksHeld == Spec => []LockInv
<1>1. LockInv /\ [Next]_vars => LockInv'
  <2>1. CASE UNCHANGED vars
    BY <2>1 DEF vars, LockInv, Owned, OnPath, Scrutinee, Looking
  <2>2. ASSUME LockInv, Next PROVE LockInv'
    BY <2>2, ReadingKeeps, ApplyingKeeps, UpdatingKeeps DEF Next
  <2>3. QED
    BY <2>1, <2>2
<1>2. QED
  BY <1>1, InitInv, PTL DEF Spec

\* Every variable stays in its range, and no task ever holds more than two read
\* guards on a lock: a push consulting emit_unchanged_* under its if let.
THEOREM LocksTyped == Spec => []LocksTypeOK
  BY LocksHeld, InvTypes, PTL

\* Who waits while it holds config for reading is a push; who waits while it
\* holds state is at the emit_unchanged_* of an update; who waits holds no more.
LEMMA WaitersHold ==
    ASSUME LockInv, NEW u \in Tasks, pc[u] \in DOMAIN Requests
    PROVE  /\ reads["config"][u] > 0 => Scrutinee(u)
           /\ reads["state"][u] = 0
           /\ u \notin writes["config"]
           /\ u \in writes["state"] => pc[u] = "consult"
  BY DEF LockInv, Owned, OnPath, Scrutinee, Looking, Requests

\* In a circle, who asks for config to read waits for a reload, and a reload for a
\* push; who asks for state waits, in the end, for one who asks for config.
LEMMA CircleNeedsPushAndReload == LockInv => DeadlockNeedsPushAndReload
<1> SUFFICES ASSUME LockInv, NEW S \in SUBSET Tasks, Deadlocked(S)
             PROVE  /\ \E t \in S : op[t] = "ZonePush" /\ reads["config"][t] > 0
                    /\ \E u \in S : op[u] = "HotReload"
  BY DEF DeadlockNeedsPushAndReload
<1>1. ASSUME NEW t \in S PROVE pc[t] \in DOMAIN Requests
  BY DEF Deadlocked, WaitsFor, Wants
<1>2. ASSUME NEW t \in S, pc[t] = "reload"
      PROVE  \E u \in S : op[u] = "ZonePush" /\ reads["config"][u] > 0
  <2>1. PICK u \in S : WaitsFor(t, u)
    BY DEF Deadlocked
  <2>2. Holds(u, "config")
    BY <1>2, <2>1, RequestCases DEF WaitsFor, Locks
  <2>3. QED
    BY <1>1, <2>2, WaitersHold DEF Holds, Scrutinee
<1>3. ASSUME NEW t \in S, pc[t] \in {"read_config", "query", "invert", "consult"}
      PROVE  \E u \in S : pc[u] = "reload"
  <2>1. PICK u \in S : WaitsFor(t, u)
    BY DEF Deadlocked
  <2>2. u \in writes["config"] \/ Wants(u, "config", "write")
    BY <1>3, <2>1, RequestCases DEF WaitsFor, Locks
  <2>3. QED
    BY <1>1, <2>2, WaitersHold, RequestCases
<1>4. ASSUME NEW t \in S, pc[t] = "apply"
      PROVE  \E u \in S : pc[u] = "consult"
  <2>1. PICK u \in S : WaitsFor(t, u)
    BY DEF Deadlocked
  <2>2. Holds(u, "state")
    BY <1>4, <2>1, RequestCases DEF WaitsFor, Locks
  <2>3. QED
    BY <1>1, <2>2, WaitersHold DEF Holds
<1>5. ASSUME NEW t \in S, pc[t] = "read_state"
      PROVE  \E u \in S : pc[u] \in {"consult", "apply"}
  <2>1. PICK u \in S : WaitsFor(t, u)
    BY DEF Deadlocked
  <2>2. u \in writes["state"] \/ Wants(u, "state", "write")
    BY <1>5, <2>1, RequestCases DEF WaitsFor, Locks
  <2>3. QED
    BY <1>1, <2>2, WaitersHold, RequestCases
<1>6. \E u \in S : pc[u] = "reload"
  <2>1. PICK t \in S : TRUE
    BY DEF Deadlocked
  <2>2. pc[t] \in {"read_config", "read_state", "reload", "apply", "query", "invert", "consult"}
    BY <1>1, <2>1 DEF Requests
  <2>3. QED
    BY <1>3, <1>4, <1>5, <2>2
<1>7. \E u \in S : op[u] = "HotReload"
  BY <1>6 DEF LockInv, OnPath
<1>8. QED
  BY <1>2, <1>6, <1>7

\* The locks of the crate deadlock in one way only: in every circle there are a
\* push of zones with config kept by its if let and a reload of the configuration.
THEOREM OnlyDeadlock == Spec => []DeadlockNeedsPushAndReload
  BY LocksHeld, CircleNeedsPushAndReload, PTL

\* A task performs no operation but its duties.
LEMMA DutiesKept == Spec => [](\A t \in Tasks : op[t] = "none" \/ op[t] \in Duties[t])
<1> DEFINE Kept == \A t \in Tasks : op[t] = "none" \/ op[t] \in Duties[t]
<1>1. Init => Kept
  BY DEF Init
<1>2. LockInv /\ Kept /\ [Next]_vars => Kept'
  <2> SUFFICES ASSUME LockInv, Kept, Next \/ UNCHANGED vars PROVE Kept'
    OBVIOUS
  <2>1. CASE UNCHANGED vars
    BY <2>1 DEF vars
  <2>2. ASSUME NEW t \in Tasks, NEW operation \in Operations, NEW request, Begin(t, operation, request)
        PROVE  Kept'
    BY <2>2 DEF Begin, LockInv
  <2>3. ASSUME NEW t \in Tasks, Return(t) PROVE Kept'
    BY <2>3 DEF Return, LockInv
  <2>4. ASSUME UNCHANGED op PROVE Kept'
    BY <2>4
  <2>5. ASSUME NEW t \in Tasks,
               ReadConfig(t) \/ ReadState(t) \/ HotReload(t) \/ GetZones(t) \/ ZonePush(t) \/ Update(t)
        PROVE  \/ \E operation \in Operations, request \in Steps : Begin(t, operation, request)
               \/ Return(t)
               \/ UNCHANGED op
    BY <2>5, StepsListed
    DEF ReadConfig, ReadState, HotReload, GetZones, ZonePush, Update, QueryDone, UpdateDone,
        TakeRead, TakeWrite, Operations
  <2>6. QED
    BY <2>1, <2>2, <2>3, <2>4, <2>5 DEF Next
<1>3. QED
  BY <1>1, <1>2, LocksHeld, PTL DEF Spec

\* Without zone pushes, or with a configuration that is never reloaded, no tasks
\* ever wait for each other in a circle.
THEOREM NoDeadlockOtherwise ==
    ASSUME \/ \A t \in Tasks : "ZonePush" \notin Duties[t]
           \/ \A t \in Tasks : "HotReload" \notin Duties[t]
    PROVE  Spec => []NoDeadlock
<1> DEFINE Kept == \A t \in Tasks : op[t] = "none" \/ op[t] \in Duties[t]
<1>1. DeadlockNeedsPushAndReload /\ Kept => NoDeadlock
  BY DEF DeadlockNeedsPushAndReload, NoDeadlock
<1>2. QED
  BY <1>1, OnlyDeadlock, DutiesKept, PTL
=============================================================================
