---------------------------- MODULE Notification ----------------------------
(***************************************************************************)
(* The task notifications of kernel/notify.c.  The value that comes with a *)
(* notification is left out: a later one overwrites it, and one that comes *)
(* between notify.c:117 and 119 is never read.  A task waits on the        *)
(* blocked list of the kernel, where the tick does count its timeout.      *)
(***************************************************************************)
EXTENDS TaskCalls

VARIABLES
    notify_pending,  \* TCB field
    target,          \* the task an os_task_notify has made ready (else Idle)
    news             \* history: notified since it last returned with OS_OK

notification == <<notify_pending, target, news>>

NotificationTypeOK ==
    /\ notify_pending \in [Tasks -> BOOLEAN]
    /\ target \in [Tasks -> Tasks]
    /\ news \in [Tasks -> BOOLEAN]

NotificationInit ==
    /\ notify_pending = [t \in Tasks |-> FALSE]
    /\ target = [t \in Tasks |-> Idle]
    /\ news = [t \in Tasks |-> FALSE]

\* The test before the wake-up.  blocked_reason may be older than the wait.
Awaits(u) == state[u] = "BLOCKED" /\ blocked_reason[u] = "notify"

\* The common part of os_task_notify and os_task_notify_from_isr.
Notified(u) ==
    /\ notify_pending' = [notify_pending EXCEPT ![u] = TRUE]
    /\ news' = [news EXCEPT ![u] = TRUE]
    /\ IF Awaits(u)
       THEN /\ MakeReady({u})
            /\ delay' = [delay EXCEPT ![u] = 0]
            /\ blocked_reason' = [blocked_reason EXCEPT ![u] = "none"]
            /\ signalled' = signalled \cup {u}
       ELSE UNCHANGED <<state, delay, blocked_reason, signalled>>

\* os_task_notify
Notify(t, u) ==
    /\ Calls(t)
    /\ Notified(u)
    /\ target' = [target EXCEPT ![t] = IF Awaits(u) THEN u ELSE Idle]
    /\ Goto(t, IF Awaits(u) THEN "compare" ELSE "run")
    /\ UNCHANGED <<priority, current, pendsv>>

\* The end of os_task_notify, outside its critical section.
Compare(t) ==
    /\ Runs(t)
    /\ pc[t] = "compare"
    /\ Goto(t, IF priority[target[t]] < priority[t] THEN "yield" ELSE "run")
    /\ target' = [target EXCEPT ![t] = Idle]
    /\ UNCHANGED <<dispatcher, delay, blocked_reason, signalled, notify_pending, news>>

\* os_task_notify_from_isr.  If the tick is being handled and was about to come to
\* u, it is led from there along the ready list, where there is nothing to count,
\* and misses the rest of the blocked list; otherwise it only misses u.
NotifyFromISR(u) ==
    /\ Notified(u)
    /\ ticking' \in IF Awaits(u) /\ u \in ticking THEN {ticking \ {u}, {}} ELSE {ticking}
    /\ pendsv' = (pendsv \/ Awaits(u))
    /\ UNCHANGED unlinked
    /\ UNCHANGED <<priority, current, pc, target>>

\* os_task_notify_wait with a notification pending.
NotifyWaitNow(t) ==
    /\ Calls(t)
    /\ notify_pending[t]
    /\ notify_pending' = [notify_pending EXCEPT ![t] = FALSE]
    /\ news' = [news EXCEPT ![t] = FALSE]
    /\ UNCHANGED <<dispatcher, calls, target>>

\* Mutant: the flag is not looked at.
NotifyWaitBlocksAnyway(t, ticks) ==
    /\ Calls(t)
    /\ blocked_reason' = [blocked_reason EXCEPT ![t] = "notify"]
    /\ Block(t)
    /\ delay' = [delay EXCEPT ![t] = ticks]
    /\ Goto(t, "notify")
    /\ UNCHANGED <<priority, current, pendsv, signalled, notification>>

\* os_task_notify_wait that blocks; no ticks for OS_WAIT_FOREVER.
NotifyWaitBlocks(t, ticks) ==
    /\ Calls(t)
    /\ ~notify_pending[t]
    /\ blocked_reason' = [blocked_reason EXCEPT ![t] = "notify"]
    /\ Block(t)
    /\ delay' = [delay EXCEPT ![t] = ticks]
    /\ Goto(t, "notify")
    /\ UNCHANGED <<priority, current, pendsv, signalled, notification>>

\* The test after the wait: OS_ERR_TIMEOUT, or the value is read.
Resumed(t) ==
    /\ Runs(t)
    /\ pc[t] = "resumed"
    /\ Goto(t, IF notify_pending[t] THEN "collect" ELSE "run")
    /\ UNCHANGED <<dispatcher, delay, blocked_reason, signalled, notification>>

\* notify_pending = 0 and OS_OK, outside a critical section: a notification that
\* came after the value was read is cleared with it, and its value is lost.
Collect(t) ==
    /\ Runs(t)
    /\ pc[t] = "collect"
    /\ notify_pending' = [notify_pending EXCEPT ![t] = FALSE]
    /\ news' = [news EXCEPT ![t] = FALSE]
    /\ Goto(t, "run")
    /\ UNCHANGED <<dispatcher, delay, blocked_reason, signalled, target>>

\* os_task_notify_clear, by any task
NotifyClear(t, u) ==
    /\ Calls(t)
    /\ notify_pending[u]
    /\ notify_pending' = [notify_pending EXCEPT ![u] = FALSE]
    /\ UNCHANGED <<dispatcher, calls, target, news>>

os_task_notify(t) == Compare(t) \/ \E u \in Tasks \ {Idle} : Notify(t, u)

os_task_notify_wait(t) ==
    \/ NotifyWaitNow(t)
    \/ \E ticks \in 0 .. MaxDelay : NotifyWaitBlocks(t, ticks)
    \/ Resumed(t)
    \/ Collect(t)

NotificationNext ==
    \/ /\ \E t \in Tasks \ {Idle} :
             \/ os_task_notify(t)
             \/ os_task_notify_wait(t)
             \/ \E u \in Tasks \ {Idle} : NotifyClear(t, u)
       /\ UNCHANGED tick_walk
    \/ \E u \in Tasks \ {Idle} : NotifyFromISR(u)

-----------------------------------------------------------------------------
\* Properties.

\* A notification that arrives between the test of the flag and the yield, or
\* while the timeout is handled, still ends the wait: no task is blocked in
\* os_task_notify_wait with a notification pending, and one that is blocked there
\* can be reached by the next (notify.c:29-36, 81-107).
NotificationEndsWait ==
    \A t \in Tasks :
        pc[t] \in {"notify", "resumed"} /\ state[t] = "BLOCKED" =>
            ~notify_pending[t] /\ blocked_reason[t] = "notify"

\* A wait returns OS_OK only when the task was notified since its last OS_OK, and
\* the flag is set only then (notify.c:83-90, 113-119).
DeliveredOnce ==
    \A t \in Tasks : notify_pending[t] \/ pc[t] = "collect" => news[t]

\* No wait sleeps through a notification and none is ended with OS_OK by an old
\* one, in whatever order notifications, the steps of the tick,
\* os_task_notify_clear and the yield come: NotificationEndsWait and DeliveredOnce
\* (notify.c:17-124, task.c:603-640).  Not that every notification is received:
\* see Collect; and blocked_reason outlives a wait that timed out, so that a
\* notification may also cut a later os_task_delay short, and stays pending.
NotificationKept == NotificationEndsWait /\ DeliveredOnce
=============================================================================
