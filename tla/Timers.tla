------------------------------- MODULE Timers -------------------------------
(***************************************************************************)
(* The software timers of kernel/timer.c: the list of active timers, each  *)
(* with its delay relative to the one before it, the list of expired       *)
(* timers, and the service task that calls their callbacks.                *)
(*                                                                         *)
(* All three lists are threaded through the one field next of a timer, and *)
(* a reloaded timer is in two of them at once: the lists may run into each *)
(* other, lose their ends or become circular, and the model follows the    *)
(* links wherever they lead.  A walk that never ends stops the program.    *)
(* os_timer_tick has no critical section: handlers of higher priority may  *)
(* call the _from_isr functions between its statements.  The insertion it  *)
(* makes is taken as one step.                                             *)
(***************************************************************************)
EXTENDS Integers, Sequences, FiniteSets

CONSTANTS
    Timers,
    NoTimer,         \* NULL
    AutoReload,      \* the timers created with OS_TIMER_AUTO_RELOAD
    TimerPeriods,    \* bound: the periods in use, in ticks
    TimerModulus     \* 2^w: the width of os_tick_t

ASSUME TimersAssumption ==
    /\ IsFiniteSet(Timers) /\ NoTimer \notin Timers
    /\ AutoReload \subseteq Timers
    /\ TimerModulus \in Nat \ {0}
    /\ TimerPeriods \subseteq 1 .. TimerModulus - 1
    /\ TimerPeriods # {}

VARIABLES
    active_timer_list,
    next,
    remaining,
    period,
    active,
    expired_list,
    timer_sem,       \* count of the binary semaphore
    tick,            \* os_timer_tick: where it is, and its locals
    service          \* timer_service_task: where it is, and its locals

timers == <<active_timer_list, next, remaining, period, active, expired_list,
            timer_sem, tick, service>>

Links == Timers \cup {NoTimer}
Ticks == 0 .. TimerModulus - 1

\* The local timer of both is NoTimer where it is not used.
TickStages == {"none", "test", "unlink", "reload", "push"}
ServiceStages == {"take", "grab", "next", "clear"}

TimersTypeOK ==
    /\ active_timer_list \in Links
    /\ next \in [Timers -> Links]
    /\ remaining \in [Timers -> Ticks]
    /\ period \in [Timers -> TimerPeriods]
    /\ active \in [Timers -> BOOLEAN]
    /\ expired_list \in Links
    /\ timer_sem \in {0, 1}
    /\ tick \in [at : TickStages, timer : Links, need_signal : BOOLEAN]
    /\ tick.at \in {"unlink", "reload", "push"} => tick.timer \in Timers
    /\ service \in [at : ServiceStages, timer : Links, list : Links]
    /\ service.at = "clear" => service.timer \in Timers

\* os_timer_init, and os_timer_create for every timer, with some period;
\* ChangePeriod makes it any other one.
TimersInit ==
    /\ active_timer_list = NoTimer
    /\ next = [t \in Timers |-> NoTimer]
    /\ remaining = [t \in Timers |-> 0]
    /\ period = [t \in Timers |-> CHOOSE p \in TimerPeriods : TRUE]
    /\ active = [t \in Timers |-> FALSE]
    /\ expired_list = NoTimer
    /\ timer_sem = 0
    /\ tick = [at |-> "none", timer |-> NoTimer, need_signal |-> FALSE]
    /\ service = [at |-> "take", timer |-> NoTimer, list |-> NoTimer]

-----------------------------------------------------------------------------
\* The active list is a record q of its head, the links and the delays.

Active == [head |-> active_timer_list, next |-> next, rem |-> remaining]

\* The timers a loop over the list has passed, in order; one that passes more
\* timers than there are is in a circle.
Paths == UNION {[1 .. n -> Timers] : n \in 0 .. Cardinality(Timers)}

\* Where a loop is that has passed the first i timers of p.
At(q, p, i) == IF i = 0 THEN q.head ELSE q.next[p[i]]

\* The walk that passes the timers of a set, up to the first that is not in it
\* or the end of the list; there is none if the loop does not end.
Walks(q, passed) ==
    {p \in Paths : /\ \A i \in 1 .. Len(p) : p[i] = At(q, p, i - 1) /\ p[i] \in passed
                   /\ At(q, p, Len(p)) \notin passed}

\* What prv_timer_insert_sorted does to the list when its loop has passed p.
Linked(q, t, p) ==
    LET prev == p[Len(p)]
        iter == At(q, p, Len(p))
        mine == IF p = << >> THEN q.rem ELSE [q.rem EXCEPT ![t] = (@ - q.rem[prev]) % TimerModulus]
        rem  == IF iter = NoTimer THEN mine
                ELSE [mine EXCEPT ![iter] = (@ - mine[t]) % TimerModulus]
        link == [q.next EXCEPT ![t] = iter]
    IN  IF p = << >> THEN [head |-> t, next |-> link, rem |-> rem]
        ELSE [head |-> q.head, next |-> [link EXCEPT ![prev] = t], rem |-> rem]

\* prv_timer_insert_sorted for a timer that has to wait these ticks.  The code
\* compares them with the delays in the list, which are relative, and subtracts
\* the last one only.
InsertSorted(q, t, ticks) ==
    LET new == [q EXCEPT !.next[t] = NoTimer, !.rem[t] = ticks]
    IN  {Linked(new, t, p) : p \in Walks(new, {u \in Timers : new.rem[u] <= ticks})}

\* What prv_timer_remove_from_active does when its loop has passed p: if it has
\* come to t, that is unlinked and its delay passed on to the next one.
Unlinked(q, t, p) ==
    LET after == q.next[t]
        rem   == IF after = NoTimer THEN q.rem
                 ELSE [q.rem EXCEPT ![after] = (@ + q.rem[t]) % TimerModulus]
    IN  IF At(q, p, Len(p)) # t THEN q
        ELSE IF p = << >> THEN [head |-> after, next |-> q.next, rem |-> rem]
        ELSE [head |-> q.head, next |-> [q.next EXCEPT ![p[Len(p)]] = after], rem |-> rem]

\* prv_timer_remove_from_active
RemoveFromActive(q, t) == {Unlinked(q, t, p) : p \in Walks(q, Timers \ {t})}

\* Remove it if it is active, and insert it again with a delay of ticks.
Rescheduled(t, ticks) ==
    UNION {InsertSorted(q, t, ticks) :
             q \in IF active[t] THEN RemoveFromActive(Active, t) ELSE {Active}}

\* The list becomes one of the results of a loop, which has only one; if it has
\* none the program does not go on.
SetActive(results) ==
    \E q \in results : /\ active_timer_list' = q.head
                       /\ next' = q.next
                       /\ remaining' = q.rem

-----------------------------------------------------------------------------
\* Calls of tasks, callbacks and interrupt handlers; each is one critical
\* section.  While the tick is handled only the _from_isr forms are called.

\* os_timer_start and os_timer_start_from_isr
Start(t) ==
    /\ SetActive(Rescheduled(t, period[t]))
    /\ active' = [active EXCEPT ![t] = TRUE]
    /\ UNCHANGED <<period, expired_list, timer_sem, tick, service>>

\* os_timer_stop, os_timer_stop_from_isr and os_timer_delete: the memory is the
\* application's, so deleting only stops the timer, which may still be on the
\* list of expired ones.
Stop(t) ==
    /\ active[t]
    /\ SetActive(RemoveFromActive(Active, t))
    /\ active' = [active EXCEPT ![t] = FALSE]
    /\ UNCHANGED <<period, expired_list, timer_sem, tick, service>>

\* os_timer_reset and os_timer_reset_from_isr
Reset(t) ==
    /\ active[t]
    /\ SetActive(Rescheduled(t, period[t]))
    /\ UNCHANGED <<period, active, expired_list, timer_sem, tick, service>>

\* os_timer_change_period and os_timer_change_period_from_isr
ChangePeriod(t, new) ==
    /\ period' = [period EXCEPT ![t] = new]
    /\ IF active[t]
       THEN SetActive(Rescheduled(t, new))
       ELSE UNCHANGED <<active_timer_list, next, remaining>>
    /\ UNCHANGED <<active, expired_list, timer_sem, tick, service>>

\* A task or a callback makes the call, or a handler its _from_isr form.
TimerCall(t) ==
    \/ Start(t)
    \/ Stop(t)
    \/ Reset(t)
    \/ \E new \in TimerPeriods : ChangePeriod(t, new)

-----------------------------------------------------------------------------
\* os_timer_tick.

\* The head's delay is counted down, at 0 to the largest number there is.
TickBegin ==
    /\ tick.at = "none"
    /\ active_timer_list # NoTimer
    /\ remaining' = [remaining EXCEPT ![active_timer_list] = (@ - 1) % TimerModulus]
    /\ tick' = [tick EXCEPT !.at = "test", !.need_signal = FALSE]
    /\ UNCHANGED <<active_timer_list, next, period, active, expired_list, timer_sem, service>>

\* The condition of the loop.  At its end the semaphore is given, which leaves a
\* binary one that is given as it is.
TickTest ==
    /\ tick.at = "test"
    /\ IF active_timer_list # NoTimer /\ remaining[active_timer_list] = 0
       THEN /\ tick' = [tick EXCEPT !.at = "unlink", !.timer = active_timer_list]
            /\ UNCHANGED timer_sem
       ELSE /\ tick' = [tick EXCEPT !.at = "none", !.need_signal = FALSE]
            /\ timer_sem' = IF tick.need_signal THEN 1 ELSE timer_sem
    /\ UNCHANGED <<active_timer_list, next, remaining, period, active, expired_list, service>>

\* active_timer_list = timer->next
TickUnlink ==
    /\ tick.at = "unlink"
    /\ active_timer_list' = next[tick.timer]
    /\ tick' = [tick EXCEPT !.at = "reload"]
    /\ UNCHANGED <<next, remaining, period, active, expired_list, timer_sem, service>>

\* A timer that reloads is inserted again, another one is no longer active.
TickReload ==
    LET t == tick.timer
    IN  /\ tick.at = "reload"
        /\ IF t \in AutoReload
           THEN /\ SetActive(InsertSorted(Active, t, period[t]))
                /\ UNCHANGED active
           ELSE /\ active' = [active EXCEPT ![t] = FALSE]
                /\ UNCHANGED <<active_timer_list, next, remaining>>
        /\ tick' = [tick EXCEPT !.at = "push"]
        /\ UNCHANGED <<period, expired_list, timer_sem, service>>

\* It is put in front of the expired ones, through the link it has just been
\* inserted with.
TickPush ==
    /\ tick.at = "push"
    /\ next' = [next EXCEPT ![tick.timer] = expired_list]
    /\ expired_list' = tick.timer
    /\ tick' = [at |-> "test", timer |-> NoTimer, need_signal |-> TRUE]
    /\ UNCHANGED <<active_timer_list, remaining, period, active, timer_sem, service>>

TimerTick == TickBegin \/ TickTest \/ TickUnlink \/ TickReload \/ TickPush

-----------------------------------------------------------------------------
\* timer_service_task.  Between any two of its steps other tasks, handlers and
\* the tick may run; a callback may call any of the operations above.

Take ==
    /\ service.at = "take"
    /\ timer_sem = 1
    /\ timer_sem' = 0
    /\ service' = [service EXCEPT !.at = "grab"]
    /\ UNCHANGED <<active_timer_list, next, remaining, period, active, expired_list, tick>>

Grab ==
    /\ service.at = "grab"
    /\ service' = [service EXCEPT !.at = "next", !.list = expired_list]
    /\ expired_list' = NoTimer
    /\ UNCHANGED <<active_timer_list, next, remaining, period, active, timer_sem, tick>>

\* Mutant: the semaphore is emptied when all callbacks have been called.
NextAndDrain ==
    /\ service.at = "next"
    /\ service' = IF service.list = NoTimer THEN [service EXCEPT !.at = "take"]
                  ELSE [at |-> "clear", timer |-> service.list, list |-> next[service.list]]
    /\ timer_sem' = IF service.list = NoTimer THEN 0 ELSE timer_sem
    /\ UNCHANGED <<active_timer_list, next, remaining, period, active, expired_list, tick>>

\* The next timer is taken off the list, or the task is done.
NextExpired ==
    /\ service.at = "next"
    /\ service' = IF service.list = NoTimer THEN [service EXCEPT !.at = "take"]
                  ELSE [at |-> "clear", timer |-> service.list, list |-> next[service.list]]
    /\ UNCHANGED <<active_timer_list, next, remaining, period, active, expired_list,
                   timer_sem, tick>>

\* timer->next = NULL, whatever list it is in by now, and the callback is called.
CallBack ==
    /\ service.at = "clear"
    /\ next' = [next EXCEPT ![service.timer] = NoTimer]
    /\ service' = [service EXCEPT !.at = "next", !.timer = NoTimer]
    /\ UNCHANGED <<active_timer_list, remaining, period, active, expired_list, timer_sem,
                   tick>>

timer_service_task == Take \/ Grab \/ NextExpired \/ CallBack

TimersNext ==
    \/ \E t \in Timers : TimerCall(t)
    \/ TimerTick
    \/ tick.at = "none" /\ timer_service_task

-----------------------------------------------------------------------------
\* Properties.

\* No expired timer is forgotten.  Whatever has become of the links, as long as
\* the list of expired timers is not empty the service task is on its way to it
\* or will be woken: the semaphore is binary, so that several expirations share
\* one wake-up, and a tick may put timers on the list at any point of the task's
\* round (timer.c:113-133, 377-400).
ServiceSignalled ==
    expired_list # NoTimer =>
        timer_sem = 1 \/ service.at = "grab" \/ (tick.at # "none" /\ tick.need_signal)
=============================================================================
