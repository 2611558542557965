----------------------------- MODULE Dispatcher -----------------------------
(***************************************************************************)
(* What the blocking objects (semaphores and the like) rely on from tasks, *)
(* scheduler and port in the interrupt-nesting build: TaskKernel without   *)
(* its lists.  A pending PendSV switches to a ready task of the highest    *)
(* priority before the running task executes anything else.                *)
(*                                                                         *)
(* Which of several tasks of that priority is chosen is left open here;    *)
(* the kernel takes turns.  Priorities are those the tasks were created    *)
(* with: any, and the lowest for the idle task.                            *)
(***************************************************************************)
EXTENDS Integers, FiniteSets

CONSTANTS
    Tasks,
    Idle,            \* the idle task: always ready, calls nothing
    NumPriorities    \* OS_CONFIG_NUM_PRIORITIES; priority 0 is the highest

ASSUME DispatcherAssumption ==
    IsFiniteSet(Tasks) /\ Idle \in Tasks /\ NumPriorities \in Nat \ {0}

VARIABLES
    state, priority, \* TCB fields
    current,         \* current_task_ptr
    pendsv           \* the PendSV pending bit

dispatcher == <<state, priority, current, pendsv>>

Priorities == 0 .. (NumPriorities - 1)

DispatcherTypeOK ==
    /\ state \in [Tasks -> {"READY", "RUNNING", "BLOCKED"}]
    /\ priority \in [Tasks -> Priorities]
    /\ current \in Tasks
    /\ pendsv \in BOOLEAN

\* The tasks a switch may choose.
Candidates(st) ==
    {t \in Tasks : st[t] # "BLOCKED" /\
        \A u \in Tasks : st[u] # "BLOCKED" => priority[t] <= priority[u]}

\* os_sched_start has dispatched the first task.
DispatcherInit ==
    /\ priority \in {p \in [Tasks -> Priorities] : p[Idle] = NumPriorities - 1}
    /\ current \in Candidates([t \in Tasks |-> "READY"])
    /\ state = [t \in Tasks |-> IF t = current THEN "RUNNING" ELSE "READY"]
    /\ pendsv = FALSE

\* The application task that executes, unless an exception comes first.
Executes(t) == t = current /\ t # Idle /\ ~pendsv

\* PendSV_Handler and os_sched_select_next.
Switch ==
    /\ pendsv
    /\ \E t \in Candidates(state) :
          /\ current' = t
          /\ state' = [u \in Tasks |-> IF u = t THEN "RUNNING"
                                       ELSE IF u = current /\ state[u] = "RUNNING"
                                       THEN "READY" ELSE state[u]]
    /\ pendsv' = FALSE
    /\ UNCHANGED priority

\* An interrupt of another part of the system asks for a switch:
\* os_sched_request_switch_from_isr and os_sched_isr_exit.
RequestSwitch ==
    /\ ~pendsv
    /\ pendsv' = TRUE
    /\ UNCHANGED <<state, priority, current>>

\* os_task_remove_from_ready and state = OS_TASK_BLOCKED.
Block(t) == state' = [state EXCEPT ![t] = "BLOCKED"]

\* os_task_add_to_ready
MakeReady(T) == state' = [t \in Tasks |-> IF t \in T THEN "READY" ELSE state[t]]
=============================================================================
