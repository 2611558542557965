------------------------------ MODULE Services ------------------------------
(***************************************************************************)
(* What is beside the tasks: software timers, the watchdog, the heap,      *)
(* memory pools, a periodic task and the port.  They have no variable in   *)
(* common, so a property of one does not depend on the steps of the        *)
(* others: a behaviour of this specification uses one of them, the focus,  *)
(* and leaves the others in their initial state.                           *)
(***************************************************************************)
EXTENDS Timers, Watchdog, Heap, MemPool, DelayUntil, Ports

VARIABLE focus       \* the service that is used

Parts == {"timers", "watchdog", "heap", "pool", "periodic", "port"}

vars == <<focus, active_timer_list, next, remaining, period, active, expired_list,
          timer_sem, tick, service, wdt_table, wdt_count, calling, registered,
          px_block_list, free_bytes_remaining, min_free_bytes_ever, asked, pool,
          free_list, free_count, min_free_count, buffer, held, masked,
          critical_nesting, saved_mask, irq_nesting_depth, yield_pending, pending,
          handlers, nested, sections, owed, system_tick, previous_wake_tick,
          ticks_to_delay, delay_ticks, gap, slip>>

TypeOK ==
    /\ focus \in Parts
    /\ TimersTypeOK
    /\ WatchdogTypeOK
    /\ HeapTypeOK
    /\ MemPoolTypeOK
    /\ DelayUntilTypeOK
    /\ PortsTypeOK

Init ==
    /\ focus \in Parts
    /\ TimersInit
    /\ WatchdogInit
    /\ HeapInit
    /\ MemPoolInit
    /\ DelayUntilInit
    /\ focus # "periodic" => system_tick = 0
    /\ PortsInit

Next ==
    \/ /\ focus = "timers" /\ TimersNext
       /\ UNCHANGED <<focus, watchdog, heap, mempool, periodic, ports>>
    \/ /\ focus = "watchdog" /\ WatchdogNext
       /\ UNCHANGED <<focus, timers, heap, mempool, periodic, ports>>
    \/ /\ focus = "heap" /\ HeapNext
       /\ UNCHANGED <<focus, timers, watchdog, mempool, periodic, ports>>
    \/ /\ focus = "pool" /\ MemPoolNext
       /\ UNCHANGED <<focus, timers, watchdog, heap, periodic, ports>>
    \/ /\ focus = "periodic" /\ DelayUntilNext
       /\ UNCHANGED <<focus, timers, watchdog, heap, mempool, ports>>
    \/ /\ focus = "port" /\ PortsNext
       /\ UNCHANGED <<focus, timers, watchdog, heap, mempool, periodic>>

Spec == Init /\ [][Next]_vars

-----------------------------------------------------------------------------

\* Both allocators account for every byte they were given: Heap's HeapTiled and
\* MemPool's PoolExact (heap4.c:75-291, mempool.c:56-153).
AllocatorsExact == HeapTiled /\ PoolExact
=============================================================================
