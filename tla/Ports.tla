------------------------------- MODULE Ports -------------------------------
(***************************************************************************)
(* Below the scheduler: critical sections, nested interrupt handlers and   *)
(* the flag and the exception by which a handler has a task switched, of   *)
(* kernel/scheduler.c and the ports.                                       *)
(*                                                                         *)
(* A handler is interrupted by others between any two of its steps, and by *)
(* PendSV_Handler too: os_port_nvic_set_priority_init writes the priority  *)
(* of exception 10 instead of PendSV's, 14, which so keeps the highest     *)
(* one, and is not masked by BASEPRI either.  What a context switch does   *)
(* to the registers is not modelled.                                       *)
(***************************************************************************)
EXTENDS Integers, FiniteSets

CONSTANTS
    MaskDepth,       \* CRITICAL_NESTING_MAX
    MaxSections,     \* bound: how deep critical sections are nested
    MaxHandlers      \* bound: how deep interrupt handlers are nested

ASSUME PortsAssumption ==
    /\ MaskDepth \in Nat \ {0}
    /\ MaxSections \in Nat /\ MaxHandlers \in Nat

VARIABLES
    masked,          \* PRIMASK or BASEPRI keeps interrupts out
    critical_nesting,
    saved_mask,
    irq_nesting_depth,
    yield_pending,
    pending,         \* PENDSVSET
    handlers,        \* where each handler is, the outermost first
    nested,          \* how many there are
    sections,        \* history: sections opened and not closed
    owed             \* history: a handler has asked for a switch not made yet

ports == <<masked, critical_nesting, saved_mask, irq_nesting_depth, yield_pending,
           pending, handlers, nested, sections, owed>>

HandlerStages == {"none", "enter", "body", "test", "yield"}

PortsTypeOK ==
    /\ masked \in BOOLEAN
    /\ critical_nesting \in 0 .. MaxSections
    /\ saved_mask \in [0 .. MaskDepth - 1 -> BOOLEAN]
    /\ irq_nesting_depth \in 0 .. MaxHandlers
    /\ yield_pending \in BOOLEAN /\ pending \in BOOLEAN
    /\ handlers \in [1 .. MaxHandlers -> HandlerStages]
    /\ nested \in 0 .. MaxHandlers
    /\ sections \in 0 .. MaxSections
    /\ owed \in BOOLEAN

\* os_sched_init; the first task is running.
PortsInit ==
    /\ masked = FALSE
    /\ critical_nesting = 0
    /\ saved_mask = [i \in 0 .. MaskDepth - 1 |-> FALSE]
    /\ irq_nesting_depth = 0
    /\ yield_pending = FALSE
    /\ pending = FALSE
    /\ handlers = [i \in 1 .. MaxHandlers |-> "none"]
    /\ nested = 0
    /\ sections = 0
    /\ owed = FALSE

-----------------------------------------------------------------------------
\* Switches.

\* PendSV_Handler, which selects the next task.
PendSV ==
    /\ pending
    /\ pending' = FALSE
    /\ owed' = FALSE
    /\ UNCHANGED <<masked, critical_nesting, saved_mask, irq_nesting_depth, yield_pending,
                   handlers, nested, sections>>

\* PENDSVSET is set.
os_port_yield == pending' = TRUE

\* os_sched_yield, of the task or of the innermost handler
PortYield ==
    /\ yield_pending' = TRUE
    /\ os_port_yield
    /\ UNCHANGED <<masked, critical_nesting, saved_mask, irq_nesting_depth,
                   handlers, nested, sections, owed>>

\* os_sched_request_switch_from_isr, of the innermost handler
RequestFromISR ==
    /\ nested > 0 /\ handlers[nested] = "body"
    /\ yield_pending' = TRUE
    /\ owed' = TRUE
    /\ UNCHANGED <<masked, critical_nesting, saved_mask, irq_nesting_depth, pending,
                   handlers, nested, sections>>

-----------------------------------------------------------------------------
\* Handlers.  Each begins with os_sched_isr_enter, ends with os_sched_isr_exit
\* and closes the sections it opens.

Handler(stage) == nested > 0 /\ handlers[nested] = stage /\ sections = 0
Becomes(stage) == handlers' = [handlers EXCEPT ![nested] = stage]
Returns        == Becomes("none") /\ nested' = nested - 1

\* An interrupt is taken.
Interrupt ==
    /\ ~masked
    /\ nested < MaxHandlers
    /\ nested' = nested + 1
    /\ handlers' = [handlers EXCEPT ![nested + 1] = "enter"]
    /\ UNCHANGED <<masked, critical_nesting, saved_mask, irq_nesting_depth, yield_pending,
                   pending, sections, owed>>

\* os_sched_isr_enter
IsrEnter ==
    /\ Handler("enter")
    /\ irq_nesting_depth' = irq_nesting_depth + 1
    /\ Becomes("body")
    /\ UNCHANGED <<masked, critical_nesting, saved_mask, yield_pending, pending, nested,
                   sections, owed>>

\* Mutant: a nested handler drops the request it leaves to the outer one.
IsrLeaveDrops ==
    /\ Handler("body")
    /\ irq_nesting_depth > 0
    /\ irq_nesting_depth' = irq_nesting_depth - 1
    /\ IF irq_nesting_depth = 1
       THEN Becomes("test") /\ UNCHANGED <<nested, yield_pending>>
       ELSE Returns /\ yield_pending' = FALSE
    /\ UNCHANGED <<masked, critical_nesting, saved_mask, pending, sections, owed>>

\* os_sched_isr_exit as far as the test of the depth: one that is not the
\* outermost handler returns.
IsrLeave ==
    /\ Handler("body")
    /\ irq_nesting_depth > 0
    /\ irq_nesting_depth' = irq_nesting_depth - 1
    /\ IF irq_nesting_depth = 1 THEN Becomes("test") /\ UNCHANGED nested ELSE Returns
    /\ UNCHANGED <<masked, critical_nesting, saved_mask, yield_pending, pending, sections, owed>>

\* os_sched_consume_yield_pending
IsrConsume ==
    /\ Handler("test")
    /\ IF yield_pending
       THEN yield_pending' = FALSE /\ Becomes("yield") /\ UNCHANGED nested
       ELSE Returns /\ UNCHANGED yield_pending
    /\ UNCHANGED <<masked, critical_nesting, saved_mask, irq_nesting_depth, pending,
                   sections, owed>>

IsrYield ==
    /\ Handler("yield")
    /\ os_port_yield
    /\ Returns
    /\ UNCHANGED <<masked, critical_nesting, saved_mask, irq_nesting_depth, yield_pending,
                   sections, owed>>

-----------------------------------------------------------------------------
\* Critical sections, of the task or of the innermost handler.

\* Interrupts are masked, and the old mask is returned.
os_port_enter_critical == masked' = TRUE
os_port_exit_critical(mask) == masked' = mask

\* os_sched_enter_critical.  Deeper than the array nothing is saved.
EnterCritical ==
    /\ sections < MaxSections
    /\ sections' = sections + 1
    /\ os_port_enter_critical
    /\ saved_mask' = IF critical_nesting < MaskDepth
                     THEN [saved_mask EXCEPT ![critical_nesting] = masked]
                     ELSE saved_mask
    /\ critical_nesting' = critical_nesting + 1
    /\ UNCHANGED <<irq_nesting_depth, yield_pending, pending, handlers, nested, owed>>

\* Mutant: each level restores the mask it saved, and the deepest saved none.
ExitCriticalEachLevel ==
    /\ sections > 0
    /\ sections' = sections - 1
    /\ critical_nesting' = critical_nesting - 1
    /\ masked' = IF critical_nesting <= MaskDepth THEN saved_mask[critical_nesting - 1]
                 ELSE saved_mask[0]
    /\ UNCHANGED <<saved_mask, irq_nesting_depth, yield_pending, pending, handlers, nested, owed>>

\* os_sched_exit_critical
ExitCritical ==
    /\ sections > 0
    /\ sections' = sections - 1
    /\ critical_nesting > 0
    /\ critical_nesting' = critical_nesting - 1
    /\ IF critical_nesting = 1 THEN os_port_exit_critical(saved_mask[0]) ELSE UNCHANGED masked
    /\ UNCHANGED <<saved_mask, irq_nesting_depth, yield_pending, pending, handlers, nested, owed>>

PortsNext ==
    \/ PendSV
    \/ PortYield
    \/ RequestFromISR
    \/ Interrupt
    \/ IsrEnter
    \/ IsrLeave
    \/ IsrConsume
    \/ IsrYield
    \/ EnterCritical
    \/ ExitCritical

-----------------------------------------------------------------------------
\* Properties.

\* A switch that any handler has asked for is not lost, wherever the others were
\* interrupted: until it is made PendSV is pending, or a handler is about to pend
\* it, or the flag is set and some handler has still to test it.  The counter
\* and the flag are read and written outside any section (scheduler.c:98-130).
SwitchOwed ==
    owed => \/ pending
            \/ \E i \in 1 .. nested : handlers[i] = "yield"
            \/ yield_pending /\ \E i \in 1 .. nested : handlers[i] \in {"enter", "body", "test"}

\* However deep sections are nested, also deeper than saved_mask has room for,
\* interrupts stay out until the outermost one is closed and come back then
\* (scheduler.c:75-96).
SectionsHold ==
    /\ critical_nesting = sections
    /\ masked <=> sections > 0
=============================================================================
