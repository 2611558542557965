------------------------------ MODULE Signals ------------------------------
(***************************************************************************)
(* Tasks that use an event group, notifications and delays together: the   *)
(* three meet in the state, blocked_reason and delay_ticks of a TCB.       *)
(***************************************************************************)
EXTENDS EventGroup, Notification

vars == <<state, priority, current, pendsv, pc, delay, blocked_reason,
          signalled, bits, wait_list, want, event_return_bits, notify_pending,
          target, news, ticking, unlinked>>

TypeOK ==
    /\ DispatcherTypeOK
    /\ CallsTypeOK
    /\ EventGroupTypeOK
    /\ NotificationTypeOK

Init == DispatcherInit /\ CallsInit /\ EventGroupInit /\ NotificationInit

\* The calls of tasks that neither component makes, and the interrupts.
KernelNext ==
    \/ /\ \/ \E t \in Tasks \ {Idle} :
                Yield(t) \/ \E ticks \in 1 .. MaxDelay : Delay(t, ticks)
          \/ RequestSwitch /\ UNCHANGED calls
          \/ Dispatch
       /\ UNCHANGED tick_walk
    \/ Tick

Next ==
    \/ /\ ~Torn
       /\ \/ EventGroupNext /\ UNCHANGED <<notification, tick_walk>>
          \/ NotificationNext /\ UNCHANGED eventgroup
          \/ KernelNext /\ UNCHANGED <<eventgroup, notification>>
    \/ Torn /\ UNCHANGED vars

Spec == Init /\ [][Next]_vars
=============================================================================
