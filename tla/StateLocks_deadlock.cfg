SPECIFICATION Spec
CONSTANTS
    worker = worker
    state_worker = state_worker
    c1 = c1
    c2 = c2
    Tasks = {state_worker, c1}
    Duties <- PushAndReload

CHECK_DEADLOCK FALSE

INVARIANT NoDeadlock
