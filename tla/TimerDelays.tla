----------------------------- MODULE TimerDelays -----------------------------
(***************************************************************************)
(* The timers of Timers with a history variable that counts, for each, the *)
(* ticks until it has to expire.  No handler calls while the tick is       *)
(* handled: the failure shown needs none.                                  *)
(***************************************************************************)
EXTENDS Timers

VARIABLE due         \* history: ticks left; 0 when there are none or it is not active

delayed == <<active_timer_list, next, remaining, period, active, expired_list,
             timer_sem, tick, service, due>>

DelaysInit == TimersInit /\ due = [t \in Timers |-> 0]

Due(t, ticks) == due' = [due EXCEPT ![t] = ticks]

DelaysNext ==
    \/ \E t \in Timers :
       /\ tick.at = "none"
       /\ \/ (Start(t) \/ Reset(t)) /\ Due(t, period[t])
          \/ Stop(t) /\ Due(t, 0)
          \/ \E new \in TimerPeriods :
                ChangePeriod(t, new) /\ Due(t, IF active[t] THEN new ELSE 0)
    \/ TickBegin /\ due' = [t \in Timers |-> IF due[t] > 0 THEN due[t] - 1 ELSE 0]
    \/ TickReload /\ Due(tick.timer, IF tick.timer \in AutoReload THEN period[tick.timer] ELSE 0)
    \/ (TickTest \/ TickUnlink \/ TickPush) /\ UNCHANGED due
    \/ tick.at = "none" /\ timer_service_task /\ UNCHANGED due

DelaysSpec == DelaysInit /\ [][DelaysNext]_delayed

-----------------------------------------------------------------------------

\* What a list with delays relative to one another is for: after each tick every
\* active timer that is due has expired.  "timers are in ascending order of
\* remaining, each remaining is the difference to the timer before it, so that
\* only the head has to be counted down" (miniRTOS_technical_design.md:1741,
\* timer.c:31 and 43).  The code does not keep it: it subtracts only the delay
\* of the timer in front, and a reloaded timer is in two lists at once, one of
\* which cuts the other off behind it (timer.c:60-62, 127-129, 391-393).
TimersOnTime == tick.at = "none" => \A t \in Timers : active[t] => due[t] > 0
=============================================================================
