----------------------------- MODULE TaskKernel -----------------------------
(***************************************************************************)
(* The task API of kernel/task.c, the scheduler of kernel/scheduler.c, the *)
(* tick of kernel/kernel.c and the SysTick and PendSV exceptions of        *)
(* port/port.c, interleaved as the hardware interleaves them.              *)
(*                                                                         *)
(* A step is a stretch of code no interrupt can split: an API call up to   *)
(* the end of its critical section, the call of os_sched_yield that        *)
(* follows it, the PendSV exception, or one iteration of a loop of the     *)
(* SysTick exception.  SysTick may come between any two steps of a task,   *)
(* in particular after a task has taken itself off the ready list and      *)
(* before it yields.  Handlers of other devices, which may interrupt the   *)
(* SysTick exception and wake tasks there, are in TaskCalls.               *)
(*                                                                         *)
(* The processor executes one context at a time, cpu; saved[t] says whose  *)
(* context the stack pointer stored in TCB t leads to.  They are kept      *)
(* apart from current_task_ptr (k.current) because the code does: PendSV   *)
(* stores through whatever current_task_ptr is at that moment.             *)
(***************************************************************************)
EXTENDS TaskLists

CONSTANTS
    Main,       \* the context that runs main() until the scheduler starts
    MaxTasks,   \* OS_CONFIG_MAX_TASKS
    MaxDelay,   \* bound: longest os_task_delay an application asks for
    Nesting,    \* OS_CONFIG_USE_INTERRUPT_NESTING
    Usage       \* calling patterns the application may use, of Patterns

\* Calls that the API accepts and that this model makes only on request.
Patterns == {"delete_blocked",       \* os_task_delete of a delayed task
             "reprioritise_running", \* os_task_set_priority of oneself
             "fill_table"}           \* MaxTasks tasks created before the start

ASSUME ContextsAssumption == Main \notin Pointers
ASSUME BoundsAssumption == MaxTasks \in Nat \ {0} /\ MaxDelay \in Nat
ASSUME BuildAssumption == Nesting \in BOOLEAN /\ Usage \subseteq Patterns

VARIABLES
    k,              \* the kernel record of TaskLists
    alive,          \* TCBs that are allocated
    task_count,
    running,        \* scheduler_running
    cpu,            \* the context the processor executes
    saved,          \* whose context each TCB's stack_ptr leads to
    pc, arg,        \* where each context continues, and the handle it holds
    pendsv,         \* the PendSV pending bit
    yield_pending,
    isr, walk,      \* phase of the SysTick exception and its loop pointer
    due             \* history: delays when the tick began

vars == <<k, alive, task_count, running, cpu, saved, pc, arg, pendsv,
          yield_pending, isr, walk, due>>

Contexts == Tasks \cup {Main}
NotDue == [t \in Tasks |-> 0]

TypeOK ==
    /\ k \in KernelRecord
    /\ alive \subseteq Tasks
    /\ task_count \in 0 .. MaxTasks
    /\ running \in BOOLEAN
    /\ cpu \in Contexts \cup {NULL}
    /\ saved \in [Tasks -> Contexts \cup {NULL}]
    /\ pc \in [Contexts -> {"run", "yield", "suspend"}]
    /\ arg \in [Contexts -> Pointers]
    /\ pendsv \in BOOLEAN
    /\ yield_pending \in BOOLEAN
    /\ isr \in {"none", "walk", "reap"}
    /\ walk \in Pointers
    /\ due \in [Tasks -> Nat]

Init ==
    /\ k = EmptyKernel
    /\ alive = {}
    /\ task_count = 0
    /\ running = FALSE
    /\ cpu = Main
    /\ saved = [t \in Tasks |-> NULL]
    /\ pc = [c \in Contexts |-> "run"]
    /\ arg = [c \in Contexts |-> NULL]
    /\ pendsv = FALSE
    /\ yield_pending = FALSE
    /\ isr = "none"
    /\ walk = NULL
    /\ due = NotDue

machine == <<running, cpu, saved, pendsv, yield_pending, isr, walk, due>>

-----------------------------------------------------------------------------
\* What a context may do.

\* Interrupts are served before the next instruction of a task.
Executing == isr = "none" /\ ~pendsv /\ cpu \in Contexts

\* A context about to make an API call.  The idle task makes none.
Calling == Executing /\ cpu # Idle /\ pc[cpu] = "run"

\* Handles an application holds: os_task_create_idle keeps none of the idle
\* task's, and the handle of a deleted task is no longer used.
Handles == {t \in alive \ {Idle} : k.state[t] # "DELETED"}

\* Slots of the task table that a call leaves for the idle task.
Reserve == IF running \/ "fill_table" \in Usage THEN 0 ELSE 1

\* os_task_create: the TCB is filled in and appended to its ready list.
Created(kk, t, p) ==
    AddToReady([kk EXCEPT !.priority[t] = p, !.delay[t] = 0,
                          !.next[t] = NULL, !.prev[t] = NULL], t)

\* Mutant: the table is full one task too late.
AllocateOneMore(t, p) ==
    /\ t \in Tasks \ (alive \cup {Idle})
    /\ task_count + Reserve <= MaxTasks
    /\ k' = Created(k, t, p)
    /\ alive' = alive \cup {t}
    /\ task_count' = task_count + 1
    /\ saved' = [saved EXCEPT ![t] = t]
    /\ UNCHANGED <<running, cpu, pendsv, yield_pending, isr, walk, due>>

\* The table slot is never given back: task_count only grows.  A heap address
\* freed by an earlier deletion may be handed out again.  The call is made
\* before the scheduler starts or inside a critical section of the caller.
Allocate(t, p) ==
    /\ t \in Tasks \ (alive \cup {Idle})
    /\ task_count + Reserve < MaxTasks
    /\ k' = Created(k, t, p)
    /\ alive' = alive \cup {t}
    /\ task_count' = task_count + 1
    /\ saved' = [saved EXCEPT ![t] = t]
    /\ UNCHANGED <<running, cpu, pendsv, yield_pending, isr, walk, due>>

Create(t, p) ==
    /\ Calling
    /\ Allocate(t, p)
    /\ pc' = [pc EXCEPT ![t] = "run"]
    /\ arg' = [arg EXCEPT ![t] = NULL]

\* os_task_create_suspended: os_task_create, then a separate os_task_suspend.
CreateSuspended(t, p) ==
    /\ Calling
    /\ Allocate(t, p)
    /\ pc' = [pc EXCEPT ![t] = "run", ![cpu] = "suspend"]
    /\ arg' = [arg EXCEPT ![t] = NULL, ![cpu] = t]

\* os_task_suspend inside its critical section.
Suspended(kk, t) ==
    IF kk.state[t] \in {"READY", "RUNNING"}
    THEN [RemoveFromReady(kk, t) EXCEPT !.state[t] = "SUSPENDED"]
    ELSE kk

\* The suspension of a task that is not the caller, or the first half of the
\* caller's own: it still has to yield.
SuspendStep(t) ==
    /\ k' = Suspended(k, t)
    /\ pc' = [pc EXCEPT ![cpu] = IF t = k.current THEN "yield" ELSE "run"]
    /\ arg' = [arg EXCEPT ![cpu] = NULL]
    /\ UNCHANGED <<alive, task_count, machine>>

Suspend(t) == Calling /\ t \in Handles /\ SuspendStep(t)

FinishCreateSuspended ==
    /\ Executing
    /\ pc[cpu] = "suspend"
    /\ SuspendStep(arg[cpu])

\* os_task_resume: no preemption, even by a higher priority.
Resume(t) ==
    /\ Calling
    /\ t \in Handles
    /\ k.state[t] = "SUSPENDED"
    /\ k' = AddToReady(k, t)
    /\ UNCHANGED <<alive, task_count, pc, arg, machine>>

\* os_task_delete of oneself: freed later, by the tick.
DeleteSelf ==
    /\ Calling
    /\ k.current # NULL
    /\ k' = DeferDelete(k, k.current)
    /\ pc' = [pc EXCEPT ![cpu] = "yield"]
    /\ UNCHANGED <<alive, task_count, arg, machine>>

\* Mutant: the freed task is not marked.
DeletedUnmarked(kk, t) ==
    IF kk.state[t] = "READY" THEN RemoveFromReady(kk, t) ELSE kk

\* os_task_delete of another task: only a READY task is unlinked.
Deleted(kk, t) ==
    [(IF kk.state[t] = "READY" THEN RemoveFromReady(kk, t) ELSE kk)
        EXCEPT !.state[t] = "DELETED"]

\* It is freed at once.
DeleteOther(t) ==
    /\ Calling
    /\ t \in Handles
    /\ t # k.current
    /\ k.state[t] = "BLOCKED" => "delete_blocked" \in Usage
    /\ k' = Deleted(k, t)
    /\ alive' = alive \ {t}
    /\ UNCHANGED <<task_count, pc, arg, machine>>

\* os_task_set_priority: only a READY task changes list.
Reprioritised(kk, t, p) ==
    IF kk.state[t] = "READY"
    THEN AddToReady([RemoveFromReady(kk, t) EXCEPT !.priority[t] = p], t)
    ELSE [kk EXCEPT !.priority[t] = p]

SetPriority(t, p) ==
    /\ Calling
    /\ t \in Handles
    /\ k.state[t] = "RUNNING" => "reprioritise_running" \in Usage
    /\ k' = Reprioritised(k, t, p)
    /\ UNCHANGED <<alive, task_count, pc, arg, machine>>

\* os_task_delay: blocked, and then it still has to yield.
Delay(ticks) ==
    /\ Calling
    /\ k.current # NULL
    /\ ticks > 0
    /\ k' = AddToBlocked(k, k.current, ticks)
    /\ pc' = [pc EXCEPT ![cpu] = "yield"]
    /\ UNCHANGED <<alive, task_count, arg, machine>>

\* os_sched_yield: called directly, by os_task_delay(0), or at the end of a
\* call that took its caller off the ready list.
Yield ==
    /\ Executing
    /\ running
    /\ cpu # Idle
    /\ pc[cpu] \in {"run", "yield"}
    /\ pc' = [pc EXCEPT ![cpu] = "run"]
    /\ yield_pending' = TRUE
    /\ pendsv' = TRUE
    /\ UNCHANGED <<k, alive, task_count, running, cpu, saved, arg, isr, walk, due>>

-----------------------------------------------------------------------------
\* Starting the scheduler, and the two exceptions.

\* os_sched_start: the idle task if a table slot is left, the first selection,
\* os_port_start_first_task.
Start ==
    /\ Calling
    /\ ~running
    /\ LET full == task_count >= MaxTasks
           kk == SelectNext(IF full THEN k ELSE Created(k, Idle, Lowest))
           ss == IF full THEN saved ELSE [saved EXCEPT ![Idle] = Idle]
       IN  /\ k' = kk
           /\ alive' = IF full THEN alive ELSE alive \cup {Idle}
           /\ task_count' = IF full THEN task_count ELSE task_count + 1
           /\ cpu' = IF kk.current = NULL THEN Main ELSE ss[kk.current]
           /\ saved' = Store(ss, kk.current, NULL)
    /\ running' = TRUE
    /\ UNCHANGED <<pc, arg, pendsv, yield_pending, isr, walk, due>>

\* Mutant: the context is stored after the selection.
PendSVSelectsFirst ==
    /\ pendsv
    /\ isr = "none"
    /\ k.current # NULL
    /\ LET kk == SelectNext(k)
           stored == [saved EXCEPT ![kk.current] = cpu]
       IN  /\ k' = kk
           /\ cpu' = stored[kk.current]
           /\ saved' = [stored EXCEPT ![kk.current] = NULL]
    /\ pendsv' = FALSE
    /\ UNCHANGED <<alive, task_count, running, pc, arg, yield_pending, isr, walk, due>>

\* PendSV_Handler: the executing context is stored in the TCB current_task_ptr
\* points to, the scheduler selects, and the context found in the selected
\* task's TCB is loaded.
PendSV ==
    /\ pendsv
    /\ isr = "none"
    /\ k.current # NULL
    /\ LET stored == [saved EXCEPT ![k.current] = cpu]
           kk == SelectNext(k)
       IN  /\ k' = kk
           /\ cpu' = stored[kk.current]
           /\ saved' = [stored EXCEPT ![kk.current] = NULL]
    /\ pendsv' = FALSE
    /\ UNCHANGED <<alive, task_count, running, pc, arg, yield_pending, isr, walk, due>>

\* SysTick_Handler: os_kernel_tick_increment calls os_task_tick, which walks
\* the blocked list.  A pending PendSV may or may not be taken first: the
\* exception priorities of the port decide.
TickBegin ==
    /\ running
    /\ isr = "none"
    /\ isr' = "walk"
    /\ walk' = k.blocked
    /\ due' = [t \in Tasks |-> IF k.state[t] = "BLOCKED" THEN k.delay[t] ELSE 0]
    /\ UNCHANGED <<k, alive, task_count, running, cpu, saved, pc, arg, pendsv,
                   yield_pending>>

\* One delayed task: its count goes down and at zero it becomes READY.
Ticked(kk, t) ==
    LET d == kk.delay[t] - 1
        counted == [kk EXCEPT !.delay[t] = d]
    IN  IF kk.delay[t] = 0 THEN kk
        ELSE IF d = 0 THEN AddToReady(RemoveFromBlocked(counted, t), t)
        ELSE counted

\* Mutant: the successor is read after the unlinking.
TickWalkReadsLate ==
    /\ isr = "walk"
    /\ walk # NULL
    /\ k' = Ticked(k, walk)
    /\ walk' = k'.next[walk]
    /\ UNCHANGED <<alive, task_count, running, cpu, saved, pc, arg, pendsv,
                   yield_pending, isr, due>>

\* One iteration of the loop; the successor is read before the unlinking.
TickWalk ==
    /\ isr = "walk"
    /\ walk # NULL
    /\ k' = Ticked(k, walk)
    /\ walk' = k.next[walk]
    /\ UNCHANGED <<alive, task_count, running, cpu, saved, pc, arg, pendsv,
                   yield_pending, isr, due>>

\* os_task_process_deferred_delete takes the whole list.
TickDetach ==
    /\ isr = "walk"
    /\ walk = NULL
    /\ isr' = "reap"
    /\ walk' = k.deferred
    /\ k' = [k EXCEPT !.deferred = NULL]
    /\ UNCHANGED <<alive, task_count, running, cpu, saved, pc, arg, pendsv,
                   yield_pending, due>>

\* One TCB and its stack are freed; the link was read first.
TickReap ==
    /\ isr = "reap"
    /\ walk # NULL
    /\ alive' = alive \ {walk}
    /\ walk' = k.next[walk]
    /\ UNCHANGED <<k, task_count, running, cpu, saved, pc, arg, pendsv,
                   yield_pending, isr, due>>

\* The end of the exception.  With interrupt nesting os_sched_isr_exit pends
\* PendSV when a yield is pending; without it the tick itself selects the next
\* task and always pends PendSV.
TickEnd ==
    /\ isr = "reap"
    /\ walk = NULL
    /\ isr' = "none"
    /\ k' = IF Nesting THEN k ELSE SelectNext(k)
    /\ pendsv' = (pendsv \/ ~Nesting \/ yield_pending)
    /\ yield_pending' = IF Nesting THEN FALSE ELSE yield_pending
    /\ due' = NotDue
    /\ UNCHANGED <<alive, task_count, running, cpu, saved, pc, arg, walk>>

-----------------------------------------------------------------------------
os_task_tick == TickWalk \/ TickDetach \/ TickReap

SysTick == TickBegin \/ os_task_tick \/ TickEnd

os_task_create_suspended ==
    \/ \E t \in Tasks, p \in Priorities : CreateSuspended(t, p)
    \/ FinishCreateSuspended

os_task_delete == DeleteSelf \/ \E t \in Tasks : DeleteOther(t)

Call ==
    \/ \E t \in Tasks, p \in Priorities : Create(t, p) \/ SetPriority(t, p)
    \/ os_task_create_suspended
    \/ \E t \in Tasks : Suspend(t) \/ Resume(t)
    \/ \E ticks \in 1 .. MaxDelay : Delay(ticks)
    \/ os_task_delete
    \/ Yield
    \/ Start

Next == Call \/ PendSV \/ SysTick

Spec == Init /\ [][Next]_vars

\* An exception that has begun goes on.  The pending bits of SysTick and PendSV
\* stay set until the exceptions are taken, so each comes even if tasks keep
\* yielding and ticks keep coming (strong fairness).  A task off the ready list
\* executes its os_sched_yield; otherwise nothing is assumed of tasks.
Fairness ==
    /\ SF_vars(PendSV)
    /\ SF_vars(TickBegin)
    /\ WF_vars(TickWalk \/ TickDetach \/ TickReap \/ TickEnd)
    /\ WF_vars(pc[cpu] = "yield" /\ Yield)

FairSpec == Spec /\ Fairness

-----------------------------------------------------------------------------
\* Safety.

\* The ready lists are exact: at every instant an interrupt could look at them,
\* following next from the head of priority p meets each task that is READY or
\* RUNNING at p exactly once and ends at the tail, prev leads back, count is the
\* length and the bitmap bit says whether the list is empty (task.c:190-237,
\* under every order of calls, ticks and switches).
ReadyListsExact ==
    \A p \in Priorities :
        \E f \in [1 .. k.count[p] -> ReadyAt(k, p)] : IsReadyList(k, p, f)

\* The blocked list is exact: it threads every delayed task once, so that a
\* tick reaches all of them, and no task that was woken, suspended or deleted
\* is still on it (task.c:574-641).
BlockedListExact ==
    LET n == Cardinality(Delayed(k))
    IN  \E f \in [1 .. n -> Delayed(k)] : IsBlockedList(k, f, n)

\* The TCBs waiting to be freed: deleted by themselves, memory not yet returned.
Doomed == {t \in alive : k.state[t] = "DELETED"}

\* Deletion neither leaks nor frees twice: the deferred delete list (what is
\* left of it, while the tick frees it) threads exactly the allocated TCBs of
\* tasks that deleted themselves (task.c:401-403, 668-692).
DeferredListExact ==
    LET n == Cardinality(Doomed)
    IN  \E f \in [1 .. n -> Doomed] :
            /\ Enumerates(f, n, Doomed)
            /\ NextThreads(k.next, f, n)
            /\ First(f, n) = IF isr = "reap" THEN walk ELSE k.deferred

\* No list leads to freed memory: a task that is anything but deleted has its
\* TCB allocated.
OnlyAllocatedTasks == \A t \in Tasks : k.state[t] # "DELETED" => t \in alive

\* Only the current task is RUNNING, and the executing context is: whenever it
\* is not between leaving the ready list and yielding, it is RUNNING and
\* current_task_ptr points to it (scheduler.c:171-183).
RunningIsCurrent ==
    /\ \A t \in Tasks : k.state[t] = "RUNNING" => t = k.current
    /\ running /\ isr = "none" /\ ~pendsv /\ cpu \in Tasks /\ pc[cpu] # "yield"
          => k.current = cpu /\ k.state[cpu] = "RUNNING"

\* Every context survives: the processor executes the task current_task_ptr
\* points to, and every other task's stack pointer leads to its own context
\* (port.c:342-373).
ContextsIntact ==
    running /\ ~pendsv /\ isr = "none" =>
        /\ cpu = k.current
        /\ \A t \in alive \ {cpu} : saved[t] = t

\* A tick serves every delayed task exactly once: when the walk is over each
\* task that was delayed has one tick less to wait, and is READY if that was
\* the last one (task.c:611-641).
TickServesAll ==
    isr = "reap" =>
        \A t \in Tasks :
            /\ due[t] = 1 => k.state[t] = "READY"
            /\ due[t] > 1 => k.state[t] = "BLOCKED" /\ k.delay[t] = due[t] - 1
            /\ k.state[t] = "BLOCKED" => due[t] > 1

-----------------------------------------------------------------------------
\* Action properties.

Switched == pendsv /\ ~pendsv'

\* A context switch goes to a ready task of the highest priority that has one
\* (scheduler.c:133-184), whatever happened to the lists before it.
DispatchHighest ==
    [][Switched => /\ k'.state[k'.current] = "RUNNING"
                   /\ \A t \in Ready(k') : k'.priority[k'.current] <= k'.priority[t]
      ]_vars

\* A context switch takes turns: a task that was running does not keep the
\* processor while another one of its priority is ready (time slicing,
\* scheduler.c:145-153).
TakesTurns ==
    [][Switched /\ k.state[k.current] = "RUNNING"
            /\ ReadyAt(k, k.priority[k.current]) # {k.current}
          => k'.current # k.current]_vars

-----------------------------------------------------------------------------
\* Liveness.

\* A delay ends: a task that called os_task_delay is taken off the blocked list
\* whatever the other tasks do (task.c:603-641).
DelayExpires ==
    \A t \in Tasks : k.state[t] = "BLOCKED" ~> k.state[t] # "BLOCKED"

\* The memory of a task that deleted itself is returned (task.c:668-692).
DeletedIsFreed == \A t \in Tasks : t \in Doomed ~> t \notin alive

-----------------------------------------------------------------------------
\* What the design document says and the code does not do.

\* "The memory is released in os_task_tick, when the scheduler has already
\* switched to another task" (the design document, 6.6): the current task's TCB
\* and stack are never freed.
FreedIsNotCurrent == running => k.current \in alive
=============================================================================
