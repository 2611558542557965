------------------------------- MODULE Mutex -------------------------------
(***************************************************************************)
(* One mutex of kernel/mutex.c with its priority inheritance, on the ready *)
(* lists of TaskLists (interrupt-nesting build).                           *)
(*                                                                         *)
(* The lists are needed because os_task_set_priority moves a READY task to *)
(* the list of its new priority and only overwrites the priority field of  *)
(* any other.  An owner that unlocks is RUNNING: when it had been boosted  *)
(* its restoration leaves it in the list of the boosted priority, and the  *)
(* lists no longer describe the tasks.  The tasks of the model execute up  *)
(* to that point (intact) and the context switch after it is still taken.  *)
(***************************************************************************)
EXTENDS TaskLists, Sequences

CONSTANT MaxLocks    \* bound: depth of recursive locking

ASSUME LocksAssumption == MaxLocks \in Nat \ {0}

VARIABLES
    k,               \* the kernel record of TaskLists
    pendsv,          \* the PendSV pending bit
    owner, lock_count, original_prio,
    wait_list,       \* the linked list, as the sequence of its tasks
    timed_out,       \* TCB field
    pc,              \* where each task continues
    woken,           \* the task an os_mutex_unlock has made ready (else NULL)
    base,            \* history: the priority each task was created with
    held,            \* history: locks each task has returned with, less unlocks
    revoked,         \* history: owners whose mutex was deleted before they ran
    intact           \* history: no RUNNING task's priority was changed

mutex == <<owner, lock_count, original_prio, wait_list>>
vars == <<k, pendsv, owner, lock_count, original_prio, wait_list, timed_out,
          pc, woken, base, held, revoked, intact>>

\* The wait lists are those of the other blocking objects.
Waits == INSTANCE WaitLists WITH
    state <- k.state, priority <- k.priority, current <- k.current

App == Tasks \ {Idle}
Waiting == Waits!Elements(wait_list)

TypeOK ==
    /\ k \in KernelRecord
    /\ pendsv \in BOOLEAN
    /\ owner \in App \cup {NULL}
    /\ lock_count \in 0 .. MaxLocks
    /\ original_prio \in Priorities
    /\ wait_list \in Seq(App)
    /\ timed_out \in [Tasks -> BOOLEAN]
    /\ pc \in [Tasks -> {"run", "yield", "lock", "resumed", "unlock"}]
    /\ woken \in [Tasks -> Pointers]
    /\ base \in [Tasks -> Priorities]
    /\ held \in [Tasks -> 0 .. MaxLocks]
    /\ revoked \subseteq App
    /\ intact \in BOOLEAN

\* os_task_add_to_ready of every task of a list, in order.
AllReady(kk, list) ==
    LET after[i \in 0 .. Len(list)] ==
            IF i = 0 THEN kk ELSE AddToReady(after[i - 1], list[i])
    IN  after[Len(list)]

\* The application has created its tasks, in any order, and os_mutex_create has
\* made the mutex before the scheduler started.
Init ==
    /\ base \in {f \in [Tasks -> Priorities] : f[Idle] = Lowest}
    /\ \E order \in {s \in [1 .. Cardinality(App) -> App] :
                        \A i, j \in DOMAIN s : s[i] = s[j] => i = j} :
          k = SelectNext(AllReady([EmptyKernel EXCEPT !.priority = base],
                                  Append(order, Idle)))
    /\ pendsv = FALSE
    /\ owner = NULL
    /\ lock_count = 0
    /\ original_prio = 0
    /\ wait_list = << >>
    /\ timed_out = [t \in Tasks |-> FALSE]
    /\ pc = [t \in Tasks |-> "run"]
    /\ woken = [t \in Tasks |-> NULL]
    /\ held = [t \in Tasks |-> 0]
    /\ revoked = {}
    /\ intact = TRUE

Executes(t) == t = k.current /\ t # Idle /\ ~pendsv /\ intact
Calls(t) == Executes(t) /\ pc[t] = "run"
Goto(t, label) == pc' = [pc EXCEPT ![t] = label]

-----------------------------------------------------------------------------
\* Priorities.

\* Mutant: the priority field alone, also for a READY task.
SetPriorityField(kk, t, p) == [kk EXCEPT !.priority[t] = p]

\* os_task_set_priority
SetPriority(kk, t, p) ==
    IF kk.state[t] = "READY"
    THEN AddToReady([RemoveFromReady(kk, t) EXCEPT !.priority[t] = p], t)
    ELSE [kk EXCEPT !.priority[t] = p]

\* prv_boost_priority: the owner gets the priority of t when that is higher.
Boost(kk, t) ==
    IF kk.priority[t] < kk.priority[owner]
    THEN SetPriority(kk, owner, kk.priority[t])
    ELSE kk

\* Mutant: the owner keeps what it inherited.
RestoreNothing(kk) == kk

\* prv_restore_priority
Restore(kk) == IF owner = NULL THEN kk ELSE SetPriority(kk, owner, original_prio)

\* The lists stay as the priorities say.
RestoreKeepsLists ==
    owner # NULL /\ k.state[owner] = "RUNNING" => k.priority[owner] = original_prio

-----------------------------------------------------------------------------
\* Calls of tasks.

\* os_mutex_lock of a free mutex.
LockFree(t) ==
    /\ Calls(t)
    /\ owner = NULL
    /\ owner' = t
    /\ lock_count' = 1
    /\ original_prio' = k.priority[t]
    /\ held' = [held EXCEPT ![t] = 1]
    /\ UNCHANGED <<k, pendsv, wait_list, timed_out, pc, woken, base, intact, revoked>>

\* os_mutex_lock by the owner.
LockAgain(t) ==
    /\ Calls(t)
    /\ owner = t
    /\ lock_count < MaxLocks
    /\ lock_count' = lock_count + 1
    /\ held' = [held EXCEPT ![t] = @ + 1]
    /\ UNCHANGED <<k, pendsv, owner, original_prio, wait_list, timed_out, pc,
                   woken, base, intact, revoked>>

\* os_mutex_lock with OS_WAIT_NONE of a mutex another task holds: the owner is
\* boosted all the same.
LockGivesUp(t) ==
    /\ Calls(t)
    /\ owner \notin {NULL, t}
    /\ k' = Boost(k, t)
    /\ UNCHANGED <<pendsv, mutex, timed_out, pc, woken, base, held, intact, revoked>>

\* os_mutex_lock that blocks, prv_block_task included.
LockBlocks(t) ==
    /\ Calls(t)
    /\ owner \notin {NULL, t}
    /\ k' = [RemoveFromReady(Boost(k, t), t) EXCEPT !.state[t] = "BLOCKED"]
    /\ wait_list' = Waits!Inserted(wait_list, t)
    /\ timed_out' = [timed_out EXCEPT ![t] = FALSE]
    /\ Goto(t, "lock")
    /\ UNCHANGED <<pendsv, owner, lock_count, original_prio, woken, base, held,
                   intact, revoked>>

\* os_sched_yield, at the end of a call or by the application.
Yield(t) ==
    /\ Executes(t)
    /\ pc[t] \in {"run", "yield", "lock"}
    /\ Goto(t, IF pc[t] = "lock" THEN "resumed" ELSE "run")
    /\ pendsv' = TRUE
    /\ UNCHANGED <<k, mutex, timed_out, woken, base, held, intact, revoked>>

\* Mutant: the flag is not looked at.
ResumedBlindly(t) ==
    /\ Executes(t)
    /\ pc[t] = "resumed"
    /\ held' = [held EXCEPT ![t] = IF t \in revoked THEN 0 ELSE 1]
    /\ revoked' = revoked \ {t}
    /\ Goto(t, "run")
    /\ UNCHANGED <<k, pendsv, mutex, timed_out, woken, base, intact>>

\* os_mutex_lock returns OS_ERR_TIMEOUT, or OS_OK as the owner.
Resumed(t) ==
    /\ Executes(t)
    /\ pc[t] = "resumed"
    /\ held' = [held EXCEPT ![t] = IF timed_out[t] \/ t \in revoked THEN 0 ELSE 1]
    /\ revoked' = revoked \ {t}
    /\ Goto(t, "run")
    /\ UNCHANGED <<k, pendsv, mutex, timed_out, woken, base, intact>>

\* Mutant: the caller need not be the owner.
UnlockOnceByAnyone(t) ==
    /\ Calls(t)
    /\ lock_count > 1
    /\ lock_count' = lock_count - 1
    /\ held' = [held EXCEPT ![t] = @ - 1]
    /\ UNCHANGED <<k, pendsv, owner, original_prio, wait_list, timed_out, pc,
                   woken, base, intact, revoked>>

\* os_mutex_unlock that leaves the mutex locked.
UnlockOnce(t) ==
    /\ Calls(t)
    /\ owner = t
    /\ lock_count > 1
    /\ lock_count' = lock_count - 1
    /\ held' = [held EXCEPT ![t] = @ - 1]
    /\ UNCHANGED <<k, pendsv, owner, original_prio, wait_list, timed_out, pc,
                   woken, base, intact, revoked>>

\* os_mutex_unlock of a mutex nobody waits for.
Release(t) ==
    /\ Calls(t)
    /\ owner = t
    /\ lock_count = 1
    /\ wait_list = << >>
    /\ k' = Restore(k)
    /\ intact' = RestoreKeepsLists
    /\ owner' = NULL
    /\ lock_count' = 0
    /\ held' = [held EXCEPT ![t] = 0]
    /\ UNCHANGED <<pendsv, original_prio, wait_list, timed_out, pc, woken, base, revoked>>

\* os_mutex_unlock with prv_wake_and_transfer: the first waiting task becomes
\* ready and the owner.
Transfer(t) ==
    /\ Calls(t)
    /\ owner = t
    /\ lock_count = 1
    /\ wait_list # << >>
    /\ LET first == Head(wait_list) IN
          /\ k' = AddToReady(Restore(k), first)
          /\ owner' = first
          /\ lock_count' = 1
          /\ original_prio' = k.priority[first]
          /\ wait_list' = Tail(wait_list)
          /\ timed_out' = [timed_out EXCEPT ![first] = FALSE]
          /\ woken' = [woken EXCEPT ![t] = first]
    /\ intact' = RestoreKeepsLists
    /\ held' = [held EXCEPT ![t] = 0]
    /\ Goto(t, "unlock")
    /\ UNCHANGED <<pendsv, base, revoked>>

\* The end of os_mutex_unlock, outside its critical section; it is taken even
\* when the lists are no longer intact.
UnlockPreempts(t) ==
    /\ t = k.current /\ ~pendsv
    /\ pc[t] = "unlock"
    /\ pendsv' = (k.priority[woken[t]] < k.priority[t])
    /\ woken' = [woken EXCEPT ![t] = NULL]
    /\ Goto(t, "run")
    /\ UNCHANGED <<k, mutex, timed_out, base, held, intact, revoked>>

\* os_mutex_delete, by any task: the owner loses the mutex and its boost, and
\* every waiting task is made ready, in order, with timed_out set.
Delete(t) ==
    /\ Calls(t)
    /\ k' = AllReady(Restore(k), wait_list)
    /\ intact' = RestoreKeepsLists
    /\ timed_out' = [u \in Tasks |-> IF u \in Waiting THEN TRUE ELSE timed_out[u]]
    /\ wait_list' = << >>
    /\ owner' = NULL
    /\ lock_count' = 0
    /\ revoked' = IF owner # NULL /\ held[owner] = 0 THEN revoked \cup {owner} ELSE revoked
    /\ held' = [u \in Tasks |-> 0]
    /\ UNCHANGED <<pendsv, original_prio, pc, woken, base>>

-----------------------------------------------------------------------------
\* The rest of the system.

\* os_task_delay
Delay(t) ==
    /\ Calls(t)
    /\ k' = AddToBlocked(k, t, 1)
    /\ Goto(t, "yield")
    /\ UNCHANGED <<pendsv, mutex, timed_out, woken, base, held, intact, revoked>>

\* os_task_tick ends a delay.  It does not reach the tasks on wait_list.
DelayEnds(t) ==
    /\ intact
    /\ k.state[t] = "BLOCKED"
    /\ t \notin Waiting
    /\ k' = AddToReady([RemoveFromBlocked(k, t) EXCEPT !.delay[t] = 0], t)
    /\ UNCHANGED <<pendsv, mutex, timed_out, pc, woken, base, held, intact, revoked>>

\* os_sched_request_switch_from_isr and os_sched_isr_exit.
RequestSwitch ==
    /\ ~pendsv
    /\ pendsv' = TRUE
    /\ UNCHANGED <<k, mutex, timed_out, pc, woken, base, held, intact, revoked>>

\* PendSV_Handler and os_sched_select_next.
Switch ==
    /\ pendsv
    /\ k' = SelectNext(k)
    /\ pendsv' = FALSE
    /\ UNCHANGED <<mutex, timed_out, pc, woken, base, held, intact, revoked>>

os_mutex_lock(t) ==
    LockFree(t) \/ LockAgain(t) \/ LockGivesUp(t) \/ LockBlocks(t) \/ Resumed(t)

os_mutex_unlock(t) ==
    UnlockOnce(t) \/ Release(t) \/ Transfer(t) \/ UnlockPreempts(t)

Next ==
    \/ \E t \in App : \/ os_mutex_lock(t) \/ os_mutex_unlock(t) \/ Delete(t)
                      \/ Yield(t) \/ Delay(t) \/ DelayEnds(t)
    \/ RequestSwitch
    \/ Switch

Spec == Init /\ [][Next]_vars

-----------------------------------------------------------------------------
\* Properties.

\* Mutual exclusion: a task that has returned from os_mutex_lock with OS_OK and
\* has not unlocked as often is the owner, with its depth; an owner that has not
\* returned yet was given the mutex while it waited, and nobody can take it from
\* it before it runs again, except by deletion (mutex.c:168-267).
OwnerExclusive ==
    /\ \A t \in App : held[t] > 0 => owner = t /\ lock_count = held[t]
    /\ owner # NULL /\ held[owner] = 0 =>
          /\ pc[owner] \in {"lock", "resumed"} /\ ~timed_out[owner]
          /\ owner \notin Waiting /\ lock_count = 1

\* The wait list holds the tasks blocked in os_mutex_lock, once each, by
\* priority, and is empty while the mutex is free: no task waits for nobody
\* (mutex.c:25-99).
WaitListExact ==
    /\ Waits!Ordered(wait_list)
    /\ Waiting = {t \in App : pc[t] \in {"lock", "resumed"} /\ k.state[t] = "BLOCKED"}
    /\ wait_list # << >> => owner # NULL

\* A task holds a priority it was not created with only while it owns the mutex,
\* and then at least that of every task that waits (mutex.c:104-122).
PriorityInherited ==
    \A t \in App :
        IF t = owner
        THEN /\ original_prio = base[t]
             /\ k.priority[t] <= base[t]
             /\ \A u \in Waiting : k.priority[t] <= k.priority[u]
        ELSE k.priority[t] = base[t]

\* No priority inversion: while a task waits and the owner is ready, a context
\* switch never goes to a task of lower priority than the one that waits
\* (docs/miniRTOS_technical_design.md 19.3, mutex.c:196).
NoInversion ==
    [][intact /\ k'.current # k.current /\ owner \in Ready(k) =>
          \A u \in Waiting : k'.priority[k'.current] <= k.priority[u]]_vars

\* Hand-over: when a task that was given the mutex while it waited is the one
\* ready task of the highest priority, the next context switch goes to it
\* (mutex.c:262-264, docs/build_report.md:294-299).
NewOwnerDispatched ==
    [][/\ pendsv /\ ~pendsv'
       /\ owner \in Ready(k) /\ held[owner] = 0
       /\ \A t \in Ready(k) \ {owner} : k.priority[owner] < k.priority[t]
       => k'.current = owner]_vars
=============================================================================
