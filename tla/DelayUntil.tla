----------------------------- MODULE DelayUntil -----------------------------
(***************************************************************************)
(* A periodic task, os_task_delay_until of kernel/task.c, and the tick     *)
(* counter of kernel/kernel.c, which wraps at TickModulus.  The counter is *)
(* read outside any critical section and os_task_delay enters one of its   *)
(* own later: ticks, and other tasks, may come in between.                 *)
(* The task may be kept from running for up to MaxLate ticks after it is   *)
(* due; more than half the range of the counter could not be told from     *)
(* being early.                                                            *)
(***************************************************************************)
EXTENDS Integers

CONSTANTS
    HalfRange,       \* 2^31: INT32_MAX is one less
    Periods,         \* periods the task asks for
    MaxLate          \* bound: ticks the task may be kept from running

ASSUME DelayUntilAssumption ==
    /\ HalfRange \in Nat \ {0}
    /\ Periods \subseteq 1 .. HalfRange - 1
    /\ MaxLate \in 0 .. HalfRange

TickModulus == 2 * HalfRange

VARIABLES
    system_tick,
    previous_wake_tick,
    ticks_to_delay,  \* local, until os_task_delay's section; 0 outside the call
    delay_ticks,     \* of the task; 0 when it is not delayed
    gap,             \* history: ticks until the schedule wants the task to run
    slip             \* history: ticks between the reading and the section

periodic == <<system_tick, previous_wake_tick, ticks_to_delay, delay_ticks, gap, slip>>

DelayUntilTypeOK ==
    /\ system_tick \in 0 .. TickModulus - 1
    /\ previous_wake_tick \in 0 .. TickModulus - 1
    /\ ticks_to_delay \in 0 .. HalfRange - 1
    /\ delay_ticks \in 0 .. HalfRange - 1
    /\ gap \in -MaxLate .. HalfRange - 1
    /\ slip \in 0 .. MaxLate

\* The task takes the current tick, close to the wrap or not, as its first.
DelayUntilInit ==
    /\ system_tick \in 0 .. TickModulus - 1
    /\ previous_wake_tick = system_tick
    /\ ticks_to_delay = 0
    /\ delay_ticks = 0
    /\ gap = 0
    /\ slip = 0

\* The bound on how long the task may be kept from running.
MayWait ==
    IF ticks_to_delay > 0 THEN slip < MaxLate
    ELSE delay_ticks > 0 \/ gap > -MaxLate

\* os_kernel_tick_increment and os_task_tick for this task.
CountTick ==
    /\ MayWait
    /\ system_tick' = (system_tick + 1) % TickModulus
    /\ delay_ticks' = IF delay_ticks > 0 THEN delay_ticks - 1 ELSE 0
    /\ gap' = gap - 1
    /\ slip' = IF ticks_to_delay > 0 THEN slip + 1 ELSE slip
    /\ UNCHANGED <<previous_wake_tick, ticks_to_delay>>

\* Mutant: the difference is compared without its sign.
DelayUntilUnsigned(period) ==
    LET next == (previous_wake_tick + period) % TickModulus
    IN  /\ ticks_to_delay = 0 /\ delay_ticks = 0
        /\ previous_wake_tick' = next
        /\ ticks_to_delay' = (next - system_tick) % TickModulus
        /\ gap' = gap + period
        /\ slip' = 0
        /\ UNCHANGED <<system_tick, delay_ticks>>

\* os_task_delay_until up to the call of os_task_delay, the cast to int32_t
\* included.  A task that is late goes on at once; its next period starts where
\* the schedule says.
DelayUntil(period) ==
    LET next == (previous_wake_tick + period) % TickModulus
        ticks == (next - system_tick) % TickModulus
    IN  /\ ticks_to_delay = 0 /\ delay_ticks = 0
        /\ previous_wake_tick' = next
        /\ ticks_to_delay' = IF ticks < HalfRange THEN ticks ELSE 0
        /\ gap' = gap + period
        /\ slip' = 0
        /\ UNCHANGED <<system_tick, delay_ticks>>

\* The critical section of os_task_delay.
DelayBegins ==
    /\ ticks_to_delay > 0
    /\ delay_ticks' = ticks_to_delay
    /\ ticks_to_delay' = 0
    /\ UNCHANGED <<system_tick, previous_wake_tick, gap, slip>>

DelayUntilNext ==
    \/ CountTick
    \/ \E period \in Periods : DelayUntil(period)
    \/ DelayBegins

-----------------------------------------------------------------------------

\* The schedule neither drifts nor breaks at the wrap, whatever periods the task
\* has asked for and however late it was: the tick it names next is the one the
\* periods add up to, and the task is released never before it, and after it by
\* exactly the ticks that came between the reading of the counter and the
\* section in which the task blocks.  These are not carried over to the next
\* period, and a task that is late is not delayed at all (task.c:517-541).
PeriodKept ==
    /\ previous_wake_tick = (system_tick + gap) % TickModulus
    /\ IF ticks_to_delay > 0 THEN ticks_to_delay = gap + slip
       ELSE IF delay_ticks > 0 THEN delay_ticks = gap + slip
       ELSE gap <= 0
=============================================================================
