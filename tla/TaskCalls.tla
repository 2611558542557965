------------------------------ MODULE TaskCalls ------------------------------
(***************************************************************************)
(* What event groups and notifications share: the calls of tasks as steps, *)
(* and the blocked list of the kernel with the delays the tick counts.     *)
(* The list is the set OnBlockedList; TaskKernel has its links.            *)
(*                                                                         *)
(* os_task_tick has no critical section and SysTick a low priority: other  *)
(* handlers may interrupt its walk of the list, between two tasks and      *)
(* between the unlinking of a task and its insertion in the ready list.    *)
(* Counting one task is one step; a handler in the midst of it would be    *)
(* another way to what ReadiedOnce excludes.                               *)
(***************************************************************************)
EXTENDS WaitLists

CONSTANT MaxDelay    \* bound: longest delay or timeout asked for

ASSUME DelayAssumption == MaxDelay \in Nat \ {0}

VARIABLES
    pc,              \* where each task continues
    delay,           \* delay_ticks of the tasks on the blocked list
    blocked_reason,  \* TCB field: "none", "event" or "notify"
    signalled,       \* history: made ready by a signal and not run since
    ticking,         \* tasks of the list the tick has yet to come to
    unlinked         \* the task the tick has unlinked and not made ready (else Idle)

calls == <<pc, delay, blocked_reason, signalled>>
tick_walk == <<ticking, unlinked>>

Labels == {"run", "yield", "wait", "waited", "notify", "resumed", "collect",
           "compare"}

CallsTypeOK ==
    /\ pc \in [Tasks -> Labels]
    /\ delay \in [Tasks -> 0 .. MaxDelay]
    /\ blocked_reason \in [Tasks -> {"none", "event", "notify"}]
    /\ signalled \subseteq Tasks
    /\ ticking \subseteq Tasks
    /\ unlinked \in Tasks

CallsInit ==
    /\ pc = [t \in Tasks |-> "run"]
    /\ delay = [t \in Tasks |-> 0]
    /\ blocked_reason = [t \in Tasks |-> "none"]
    /\ signalled = {}
    /\ ticking = {}
    /\ unlinked = Idle

\* No tick is being handled: tasks execute, and PendSV_Handler.
NoTick == ticking = {} /\ unlinked = Idle
Runs(t) == NoTick /\ Executes(t)
Calls(t) == Runs(t) /\ pc[t] = "run"
Goto(t, label) == pc' = [pc EXCEPT ![t] = label]

\* The tasks the tick can reach; the others are on the list of an event group.
OnBlockedList(t) == state[t] = "BLOCKED" /\ pc[t] \notin {"wait", "waited"}

\* os_task_delay.  It leaves blocked_reason as it is.
Delay(t, ticks) ==
    /\ Calls(t)
    /\ Block(t)
    /\ delay' = [delay EXCEPT ![t] = ticks]
    /\ Goto(t, "yield")
    /\ UNCHANGED <<priority, current, pendsv, blocked_reason, signalled>>

\* os_sched_yield, at the end of a call that needs it or by the application.
\* The continuation of a wait is entered when the task runs again.
Yield(t) ==
    /\ Runs(t)
    /\ pc[t] \in {"run", "yield", "wait", "notify"}
    /\ Goto(t, CASE pc[t] = "wait" -> "waited" [] pc[t] = "notify" -> "resumed"
                 [] OTHER -> "run")
    /\ pendsv' = TRUE
    /\ UNCHANGED <<state, priority, current, delay, blocked_reason, signalled>>

\* os_task_tick begins to walk the list.
TickBegin ==
    /\ NoTick
    /\ ticking' = {t \in Tasks : OnBlockedList(t)}
    /\ ticking' # {}
    /\ UNCHANGED <<dispatcher, calls, unlinked>>

\* Mutant: a wait for ever is counted as well.
TickVisitAny(t) ==
    /\ t \in ticking /\ unlinked = Idle
    /\ ticking' = ticking \ {t}
    /\ delay' = [delay EXCEPT ![t] = @ - 1]
    /\ unlinked' = IF delay[t] = 1 THEN t ELSE Idle
    /\ UNCHANGED <<dispatcher, pc, blocked_reason, signalled>>

\* It comes to a task and counts its delay; one whose delay ends is unlinked.
\* blocked_on is NULL for the tasks of this list, so neither timed_out nor
\* blocked_reason is touched.
TickVisit(t) ==
    /\ t \in ticking /\ unlinked = Idle
    /\ ticking' = ticking \ {t}
    /\ delay' = [delay EXCEPT ![t] = IF @ > 0 THEN @ - 1 ELSE 0]
    /\ unlinked' = IF delay[t] = 1 THEN t ELSE Idle
    /\ UNCHANGED <<dispatcher, pc, blocked_reason, signalled>>

\* ... and put in the ready list.
TickReady ==
    /\ unlinked # Idle
    /\ MakeReady({unlinked})
    /\ unlinked' = Idle
    /\ UNCHANGED <<priority, current, pendsv, calls, ticking>>

Tick == TickBegin \/ (\E t \in Tasks : TickVisit(t)) \/ TickReady

\* A context switch: PendSV_Handler and os_sched_select_next.
Dispatch ==
    /\ NoTick
    /\ Switch
    /\ signalled' = signalled \ {current'}
    /\ UNCHANGED <<pc, delay, blocked_reason>>

\* A task made ready by a set, a notification or an interrupt does not wait for
\* a task of lower priority to go on with its own work: the signal is followed
\* by a context switch (eventgroup.c:173-175, 212-214, notify.c:38-41, 66).
SignalledPreempts ==
    \A t \in signalled :
        state[t] = "READY" /\ ~pendsv /\ pc[current] \in {"run", "waited", "resumed"}
            => priority[current] <= priority[t]

\* A task is put in the ready list once when its wait or delay ends: the tick
\* finds the task that it has unlinked still blocked.  "ISR-safe version of
\* os_task_notify." (notify.h:18).  The code does not keep it: a notification
\* from a handler that interrupts the tick there makes the task ready, and the
\* tick does so again (notify.c:61-67, task.c:616-635).
ReadiedOnce == unlinked # Idle => state[unlinked] = "BLOCKED"

\* The ready list then runs into itself, and the blocked list has lost its tasks,
\* for the removal found no predecessor: the model goes no further.
Torn == ~ReadiedOnce
=============================================================================
