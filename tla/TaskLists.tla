------------------------------ MODULE TaskLists ------------------------------
(***************************************************************************)
(* The linked lists of kernel/task.c and the selection of                  *)
(* kernel/scheduler.c, as operators on a kernel record.                    *)
(*                                                                         *)
(* A TCB has one pair of link fields, next and prev, which thread it       *)
(* through one of three lists: the ready list of its priority (doubly      *)
(* linked, with head, tail and count), the blocked list of delayed tasks   *)
(* (doubly linked, head only) and the deferred delete list (singly         *)
(* linked).  The operators below assign the link fields exactly as the C   *)
(* functions do, so calling one of them on a task that is on another list, *)
(* or on none, damages the lists here as it does there.                    *)
(***************************************************************************)
EXTENDS Integers, FiniteSets

CONSTANTS
    Tasks,           \* the task control blocks the heap can hold
    Idle,            \* the one os_task_create_idle creates
    NULL,            \* the null pointer
    NumPriorities    \* OS_CONFIG_NUM_PRIORITIES; priority 0 is the highest

ASSUME TasksAssumption ==
    IsFiniteSet(Tasks) /\ Idle \in Tasks /\ NULL \notin Tasks
ASSUME PrioritiesAssumption == NumPriorities \in Nat \ {0}

Priorities == 0 .. (NumPriorities - 1)
Lowest == NumPriorities - 1                       \* OS_PRIO_LOWEST
TaskStates == {"READY", "RUNNING", "SUSPENDED", "BLOCKED", "DELETED"}
Pointers == Tasks \cup {NULL}

\* The static data of task.c and the TCB fields that the lists depend on.
\* ready_bitmap is the set of its one bits.
KernelRecord ==
    [ state    : [Tasks -> TaskStates],
      priority : [Tasks -> Priorities],
      next     : [Tasks -> Pointers],
      prev     : [Tasks -> Pointers],
      delay    : [Tasks -> Nat],
      head     : [Priorities -> Pointers],
      tail     : [Priorities -> Pointers],
      count    : [Priorities -> Nat],
      bitmap   : SUBSET Priorities,
      blocked  : Pointers,
      deferred : Pointers,
      current  : Pointers ]

\* os_task_init_ready_list.  The TCBs are not allocated yet: their fields are
\* written by os_task_create before anything reads them.
EmptyKernel ==
    [ state    |-> [t \in Tasks |-> "DELETED"],
      priority |-> [t \in Tasks |-> Lowest],
      next     |-> [t \in Tasks |-> NULL],
      prev     |-> [t \in Tasks |-> NULL],
      delay    |-> [t \in Tasks |-> 0],
      head     |-> [p \in Priorities |-> NULL],
      tail     |-> [p \in Priorities |-> NULL],
      count    |-> [p \in Priorities |-> 0],
      bitmap   |-> {},
      blocked  |-> NULL,
      deferred |-> NULL,
      current  |-> NULL ]

-----------------------------------------------------------------------------
\* The ready lists.

\* A pointer store through q: nothing when q is the null pointer.
Store(f, q, v) == IF q = NULL THEN f ELSE [f EXCEPT ![q] = v]

\* os_task_add_to_ready: append to the list of the task's priority.
AddToReady(k, t) ==
    LET p == k.priority[t]
        last == k.tail[p]
    IN  [k EXCEPT !.state[t] = "READY",
                  !.next     = Store([@ EXCEPT ![t] = NULL], last, t),
                  !.prev[t]  = last,
                  !.head[p]  = IF last = NULL THEN t ELSE @,
                  !.bitmap   = IF last = NULL THEN @ \cup {p} ELSE @,
                  !.tail[p]  = t,
                  !.count[p] = @ + 1]

\* Mutant: the last task is unlinked and the tail still points to it.
RemoveFromReadyKeepsTail(k, t) ==
    LET p == k.priority[t]
        first == IF k.prev[t] = NULL THEN k.next[t] ELSE k.head[p]
    IN  [k EXCEPT !.next     = [Store(@, k.prev[t], k.next[t]) EXCEPT ![t] = NULL],
                  !.prev     = [Store(@, k.next[t], k.prev[t]) EXCEPT ![t] = NULL],
                  !.head[p]  = first,
                  !.count[p] = @ - 1,
                  !.bitmap   = IF first = NULL THEN @ \ {p} ELSE @]

\* os_task_remove_from_ready: unlink from the list of the priority the task
\* has now, whatever list it is linked in.
RemoveFromReady(k, t) ==
    LET p == k.priority[t]
        before == k.prev[t]
        after == k.next[t]
        first == IF before = NULL THEN after ELSE k.head[p]
    IN  [k EXCEPT !.next     = [Store(@, before, after) EXCEPT ![t] = NULL],
                  !.prev     = [Store(@, after, before) EXCEPT ![t] = NULL],
                  !.head[p]  = first,
                  !.tail[p]  = IF after = NULL THEN before ELSE @,
                  !.count[p] = IF @ > 0 THEN @ - 1 ELSE @,
                  !.bitmap   = IF first = NULL THEN @ \ {p} ELSE @]

\* Mutant: the highest set bit (__builtin_clz).
LeastPriority(bitmap) == CHOOSE p \in bitmap : \A q \in bitmap : q <= p

\* The lowest set bit of the bitmap (__builtin_ctz).
HighestPriority(bitmap) == CHOOSE p \in bitmap : \A q \in bitmap : p <= q

\* os_task_find_highest_ready
FindHighestReady(k) ==
    IF k.bitmap = {} THEN NULL ELSE k.head[HighestPriority(k.bitmap)]

-----------------------------------------------------------------------------
\* The blocked list and the deferred delete list.

\* Mutant: the old head of the list does not point back.
AddToBlockedOneWay(k, t, ticks) ==
    LET r == RemoveFromReady(k, t)
    IN  [r EXCEPT !.state[t] = "BLOCKED", !.delay[t] = ticks,
                  !.next[t] = r.blocked, !.blocked = t]

\* Mutant: the current tick is counted as the first one.
AddToBlockedEarly(k, t, ticks) ==
    LET r == RemoveFromReady(k, t)
    IN  [r EXCEPT !.state[t] = "BLOCKED", !.delay[t] = ticks - 1,
                  !.next[t] = r.blocked, !.prev = Store(@, r.blocked, t),
                  !.blocked = t]

\* os_task_add_to_blocked: off the ready list, then pushed at the head.
AddToBlocked(k, t, ticks) ==
    LET r == RemoveFromReady(k, t)
    IN  [r EXCEPT !.state[t] = "BLOCKED",
                  !.delay[t] = ticks,
                  !.next[t]  = r.blocked,
                  !.prev     = Store(@, r.blocked, t),
                  !.blocked  = t]

\* os_task_remove_from_blocked, and the same unlinking inside os_task_tick.
RemoveFromBlocked(k, t) ==
    LET before == k.prev[t]
        after == k.next[t]
    IN  [k EXCEPT !.next    = [Store(@, before, after) EXCEPT ![t] = NULL],
                  !.prev    = [Store(@, after, before) EXCEPT ![t] = NULL],
                  !.blocked = IF before = NULL THEN after ELSE @]

\* Mutant: the list is replaced, not extended.
DeferDeleteAlone(k, t) ==
    [RemoveFromReady(k, t) EXCEPT !.state[t] = "DELETED", !.deferred = t]

\* The body of self-deletion inside its critical section: off the ready list
\* and pushed on the deferred delete list, through next alone.
DeferDelete(k, t) ==
    LET r == RemoveFromReady(k, t)
    IN  [r EXCEPT !.state[t] = "DELETED",
                  !.next[t]  = r.deferred,
                  !.deferred = t]

-----------------------------------------------------------------------------
\* os_sched_select_next.

\* Mutant: no time slicing.
RotateNever(k) == k

\* Moves the running task to the back of its list when it is the one found
\* (OS_CONFIG_USE_TIME_SLICING).
Rotate(k) ==
    IF k.current # NULL /\ FindHighestReady(k) = k.current
    THEN AddToReady(RemoveFromReady(k, k.current), k.current)
    ELSE k

\* Mutant: the outgoing task is not demoted.
SelectNextOnly(k) ==
    LET r == Rotate(k)
        chosen == FindHighestReady(r)
    IN  IF chosen = NULL THEN r
        ELSE [r EXCEPT !.state[chosen] = "RUNNING", !.current = chosen]

\* With nothing ready the function returns and the current task stays.
SelectNext(k) ==
    LET r == Rotate(k)
        chosen == FindHighestReady(r)
        demoted == IF r.current # NULL /\ r.state[r.current] = "RUNNING"
                   THEN [r.state EXCEPT ![r.current] = "READY"]
                   ELSE r.state
    IN  IF FindHighestReady(k) = NULL
        THEN k
        ELSE IF chosen = NULL
        THEN r
        ELSE [r EXCEPT !.state = [demoted EXCEPT ![chosen] = "RUNNING"],
                       !.current = chosen]

-----------------------------------------------------------------------------
\* What the lists are meant to hold.

Ready(k) == {t \in Tasks : k.state[t] \in {"READY", "RUNNING"}}
ReadyAt(k, p) == {t \in Ready(k) : k.priority[t] = p}
Delayed(k) == {t \in Tasks : k.state[t] = "BLOCKED"}

\* f lists every member of S once, 1 .. n.
Enumerates(f, n, S) ==
    /\ f \in [1 .. n -> S]
    /\ \A i, j \in 1 .. n : f[i] = f[j] => i = j
    /\ \A t \in S : \E i \in 1 .. n : f[i] = t

\* The next links lead from each member of f to the one after it.
NextThreads(next, f, n) ==
    \A i \in 1 .. n : next[f[i]] = IF i = n THEN NULL ELSE f[i + 1]

PrevThreads(prev, f, n) ==
    \A i \in 1 .. n : prev[f[i]] = IF i = 1 THEN NULL ELSE f[i - 1]

First(f, n) == IF n = 0 THEN NULL ELSE f[1]
Last(f, n) == IF n = 0 THEN NULL ELSE f[n]

\* f is the ready list of priority p.
IsReadyList(k, p, f) ==
    /\ Enumerates(f, k.count[p], ReadyAt(k, p))
    /\ NextThreads(k.next, f, k.count[p])
    /\ PrevThreads(k.prev, f, k.count[p])
    /\ k.head[p] = First(f, k.count[p])
    /\ k.tail[p] = Last(f, k.count[p])
    /\ p \in k.bitmap <=> k.count[p] > 0

IsBlockedList(k, f, n) ==
    /\ Enumerates(f, n, Delayed(k))
    /\ NextThreads(k.next, f, n)
    /\ PrevThreads(k.prev, f, n)
    /\ k.blocked = First(f, n)
=============================================================================
