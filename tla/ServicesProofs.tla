--------------------------- MODULE ServicesProofs ---------------------------
(***************************************************************************)
(* Theorems about the services, for every value of the constants: critical *)
(* sections of any depth, the switches that nested interrupt handlers ask  *)
(* for, the schedule of a periodic task across the wrap of the tick        *)
(* counter, the table of the watchdog, the pool and the heap, the wake-up  *)
(* of the timers' service task, and the types.                             *)
(***************************************************************************)
EXTENDS Services, SequenceTheorems, FiniteSetTheorems, TLAPS

-----------------------------------------------------------------------------
\* Critical sections.

\* The inductive invariant: while a section is open the outermost mask that was
\* saved is the one of a processor that lets interrupts in.
SectionsInv ==
    /\ sections \in 0 .. MaxSections
    /\ critical_nesting = sections
    /\ masked \in BOOLEAN
    /\ masked <=> sections > 0
    /\ saved_mask \in [0 .. MaskDepth - 1 -> BOOLEAN]
    /\ sections > 0 => ~saved_mask[0]

LEMMA SectionsInit == Init => SectionsInv
<1> SUFFICES ASSUME Init PROVE SectionsInv
    OBVIOUS
<1>1. 0 \in 0 .. MaskDepth - 1
    BY PortsAssumption
<1>2. saved_mask \in [0 .. MaskDepth - 1 -> BOOLEAN]
    BY Zenon DEF Init, PortsInit
<1>3. sections = 0 /\ critical_nesting = 0 /\ masked = FALSE
    BY DEF Init, PortsInit
<1>4. sections \in 0 .. MaxSections /\ critical_nesting = sections /\ ~(sections > 0)
    BY <1>3, PortsAssumption
<1>5. masked \in BOOLEAN /\ ~masked
    BY <1>3
<1> QED BY <1>2, <1>4, <1>5 DEF SectionsInv

\* Entering and leaving, one step each; everything else leaves the counters alone.
LEMMA EnterKeeps == SectionsInv /\ EnterCritical => SectionsInv'
<1> SUFFICES ASSUME SectionsInv, EnterCritical PROVE SectionsInv'
    OBVIOUS
<1>1. sections' \in 0 .. MaxSections /\ critical_nesting' = sections' /\ sections' > 0
    BY PortsAssumption DEF SectionsInv, EnterCritical, os_port_enter_critical
<1>2. saved_mask' \in [0 .. MaskDepth - 1 -> BOOLEAN]
    BY Zenon DEF SectionsInv, EnterCritical, os_port_enter_critical
<1>3. ~saved_mask'[0]
    <2>1. 0 \in 0 .. MaskDepth - 1
        BY PortsAssumption
    <2>2. CASE sections = 0
        <3>1. critical_nesting = 0 /\ masked = FALSE /\ 0 < MaskDepth
            BY <2>2, PortsAssumption DEF SectionsInv
        <3> QED BY <3>1, <2>1 DEF SectionsInv, EnterCritical, os_port_enter_critical
    <2>3. CASE sections > 0
        <3>1. critical_nesting # 0 /\ saved_mask[0] = FALSE
            BY <2>1, <2>3 DEF SectionsInv
        <3> QED BY <3>1, <2>1 DEF SectionsInv, EnterCritical, os_port_enter_critical
    <2> QED BY <2>2, <2>3 DEF SectionsInv
<1>4. masked' = TRUE
    BY DEF EnterCritical, os_port_enter_critical
<1> QED BY <1>1, <1>2, <1>3, <1>4 DEF SectionsInv

LEMMA ExitKeeps == SectionsInv /\ ExitCritical => SectionsInv'
<1> SUFFICES ASSUME SectionsInv, ExitCritical PROVE SectionsInv'
    OBVIOUS
<1>1. sections' \in 0 .. MaxSections /\ critical_nesting' = sections' /\ sections' = sections - 1
    BY PortsAssumption DEF SectionsInv, ExitCritical, os_port_exit_critical
<1>2. saved_mask' = saved_mask /\ saved_mask[0] = FALSE
    <2>1. 0 \in 0 .. MaskDepth - 1
        BY PortsAssumption
    <2> QED BY <2>1 DEF SectionsInv, ExitCritical, os_port_exit_critical
<1>3. CASE sections = 1
    <2>1. critical_nesting = 1
        BY <1>3 DEF SectionsInv
    <2>2. masked' = FALSE
        BY <2>1, <1>2 DEF ExitCritical, os_port_exit_critical
    <2>3. ~(sections' > 0)
        BY <1>1, <1>3
    <2> QED BY <1>1, <1>2, <2>2, <2>3 DEF SectionsInv
<1>4. CASE sections > 1
    <2>1. critical_nesting # 1
        BY <1>4 DEF SectionsInv
    <2>2. masked' = masked
        BY <2>1 DEF ExitCritical, os_port_exit_critical
    <2>3. sections' > 0 /\ sections > 0
        BY <1>1, <1>4 DEF SectionsInv
    <2> QED BY <1>1, <1>2, <2>2, <2>3 DEF SectionsInv
<1> QED BY <1>3, <1>4 DEF SectionsInv, ExitCritical, os_port_exit_critical

\* The variables SectionsInv speaks of.
sectionVars == <<sections, critical_nesting, masked, saved_mask>>

LEMMA SectionsStep == SectionsInv /\ [Next]_vars => SectionsInv'
<1> SUFFICES ASSUME SectionsInv, [Next]_vars PROVE SectionsInv'
    OBVIOUS
<1>1. ASSUME UNCHANGED sectionVars PROVE SectionsInv'
    BY <1>1 DEF SectionsInv, sectionVars
<1>2. CASE PortsNext
    <2>1. CASE EnterCritical
        BY <2>1, EnterKeeps
    <2>2. CASE ExitCritical
        BY <2>2, ExitKeeps
    <2>3. CASE PendSV \/ PortYield \/ RequestFromISR
        BY <2>3, <1>1 DEF PendSV, PortYield, os_port_yield, RequestFromISR, sectionVars
    <2>4. CASE Interrupt \/ IsrEnter \/ IsrLeave \/ IsrConsume \/ IsrYield
        BY <2>4, <1>1 DEF Interrupt, IsrEnter, IsrLeave, IsrConsume, IsrYield, os_port_yield, sectionVars
    <2> QED BY <1>2, <2>1, <2>2, <2>3, <2>4 DEF PortsNext
<1>3. CASE UNCHANGED ports
    BY <1>1, <1>3 DEF ports, sectionVars
<1>4. CASE UNCHANGED vars
    BY <1>1, <1>4 DEF vars, sectionVars
<1> QED BY <1>2, <1>3, <1>4 DEF Next

\* However deep critical sections are nested, beyond the array of saved masks
\* too, interrupts are kept out exactly while one is open
\* (scheduler.c:79-96, port.c:137-174).
THEOREM SectionsCorrect == Spec => []SectionsHold
<1>1. SectionsInv => SectionsHold
    BY DEF SectionsInv, SectionsHold
<1> QED BY <1>1, SectionsInit, SectionsStep, PTL DEF Spec

-----------------------------------------------------------------------------
\* Switches asked for by interrupt handlers.

\* The handlers that os_sched_isr_enter has counted and os_sched_isr_exit not.
Bodies(stages) == {i \in 1 .. MaxHandlers : stages[i] = "body"}

\* The inductive invariant: the depth is the number of handlers in their bodies,
\* so that one that finds it above 1 leaves the request to another.
HandlersInv ==
    /\ nested \in 0 .. MaxHandlers
    /\ handlers \in [1 .. MaxHandlers -> HandlerStages]
    /\ irq_nesting_depth = Cardinality(Bodies(handlers))
    /\ \A i \in Bodies(handlers) : i <= nested
    /\ yield_pending \in BOOLEAN /\ pending \in BOOLEAN /\ owed \in BOOLEAN
    /\ SwitchOwed

LEMMA BodiesFinite ==
    ASSUME NEW stages
    PROVE  /\ IsFiniteSet(Bodies(stages))
           /\ Cardinality(Bodies(stages)) \in 0 .. MaxHandlers
<1>1. IsFiniteSet(1 .. MaxHandlers) /\ Cardinality(1 .. MaxHandlers) = MaxHandlers
    BY PortsAssumption, FS_Interval
<1>2. Bodies(stages) \subseteq 1 .. MaxHandlers
    BY DEF Bodies
<1>3. /\ IsFiniteSet(Bodies(stages))
      /\ Cardinality(Bodies(stages)) <= Cardinality(1 .. MaxHandlers)
    BY <1>1, <1>2, FS_Subset
<1>4. Cardinality(Bodies(stages)) \in Nat
    BY <1>3, FS_CardinalityType
<1> QED BY <1>1, <1>3, <1>4, PortsAssumption

\* What a handler's move from one stage to another does to the number of bodies.
LEMMA MovedTo ==
    ASSUME NEW stages \in [1 .. MaxHandlers -> HandlerStages], NEW n \in 1 .. MaxHandlers,
           NEW stage \in HandlerStages
    PROVE  LET moved == [stages EXCEPT ![n] = stage]
           IN  /\ moved \in [1 .. MaxHandlers -> HandlerStages]
               /\ \A i \in 1 .. MaxHandlers : moved[i] = IF i = n THEN stage ELSE stages[i]
               /\ Cardinality(Bodies(moved)) =
                     Cardinality(Bodies(stages)) + (IF stage = "body" THEN 1 ELSE 0)
                                                 - (IF stages[n] = "body" THEN 1 ELSE 0)
<1> DEFINE moved == [stages EXCEPT ![n] = stage]
           B == Bodies(stages)
<1>1. /\ moved \in [1 .. MaxHandlers -> HandlerStages]
      /\ \A i \in 1 .. MaxHandlers : moved[i] = IF i = n THEN stage ELSE stages[i]
    OBVIOUS
<1>2. Bodies(moved) = IF stage = "body" THEN B \cup {n} ELSE B \ {n}
    BY <1>1 DEF Bodies
<1>3. n \in B <=> stages[n] = "body"
    BY DEF Bodies
<1>4. IsFiniteSet(B) /\ Cardinality(B) \in Nat
    BY BodiesFinite
<1> HIDE DEF B
<1>5. Cardinality(B \cup {n}) = IF n \in B THEN Cardinality(B) ELSE Cardinality(B) + 1
    BY <1>4, FS_AddElement
<1>6. Cardinality(B \ {n}) = IF n \in B THEN Cardinality(B) - 1 ELSE Cardinality(B)
    BY <1>4, FS_RemoveElement
<1>7. Cardinality(Bodies(moved)) = Cardinality(B) + (IF stage = "body" THEN 1 ELSE 0)
                                                  - (IF stages[n] = "body" THEN 1 ELSE 0)
    BY <1>2, <1>3, <1>4, <1>5, <1>6
<1> QED BY <1>1, <1>7 DEF B

LEMMA HandlersInit == Init => HandlersInv
<1> SUFFICES ASSUME Init PROVE HandlersInv
    OBVIOUS
<1>1. /\ handlers = [i \in 1 .. MaxHandlers |-> "none"] /\ nested = 0
      /\ irq_nesting_depth = 0
      /\ yield_pending = FALSE /\ pending = FALSE /\ owed = FALSE
    BY DEF Init, PortsInit
<1>2. Bodies(handlers) = {}
    BY <1>1 DEF Bodies
<1>3. Cardinality(Bodies(handlers)) = 0
    BY <1>2, FS_EmptySet
<1>4. handlers \in [1 .. MaxHandlers -> HandlerStages] /\ nested \in 0 .. MaxHandlers
    BY <1>1, PortsAssumption DEF HandlerStages
<1> QED BY <1>1, <1>2, <1>3, <1>4 DEF HandlersInv, SwitchOwed

\* The innermost handler, and where the others are after it has moved.
LEMMA InnermostMoves ==
    ASSUME HandlersInv, nested > 0, NEW stage \in HandlerStages, Becomes(stage)
    PROVE  /\ nested \in 1 .. MaxHandlers
           /\ handlers' \in [1 .. MaxHandlers -> HandlerStages]
           /\ \A i \in 1 .. MaxHandlers : handlers'[i] = IF i = nested THEN stage ELSE handlers[i]
           /\ \A i \in Bodies(handlers') : i <= nested /\ (stage # "body" => i <= nested - 1)
           /\ Cardinality(Bodies(handlers')) =
                 irq_nesting_depth + (IF stage = "body" THEN 1 ELSE 0)
                                   - (IF handlers[nested] = "body" THEN 1 ELSE 0)
<1>1. nested \in 1 .. MaxHandlers
    BY PortsAssumption DEF HandlersInv
<1>2. handlers' = [handlers EXCEPT ![nested] = stage]
    BY DEF Becomes
<1>3. /\ handlers' \in [1 .. MaxHandlers -> HandlerStages]
      /\ \A i \in 1 .. MaxHandlers : handlers'[i] = IF i = nested THEN stage ELSE handlers[i]
      /\ Cardinality(Bodies(handlers')) =
            irq_nesting_depth + (IF stage = "body" THEN 1 ELSE 0)
                              - (IF handlers[nested] = "body" THEN 1 ELSE 0)
    BY <1>1, <1>2, MovedTo DEF HandlersInv
<1>4. \A i \in Bodies(handlers') : i <= nested /\ (stage # "body" => i <= nested - 1)
    BY <1>1, <1>3 DEF HandlersInv, Bodies
<1> QED BY <1>1, <1>3, <1>4

LEMMA InterruptKeeps == HandlersInv /\ Interrupt => HandlersInv'
<1> SUFFICES ASSUME HandlersInv, Interrupt PROVE HandlersInv'
    OBVIOUS
<1> DEFINE n == nested + 1
<1>1. /\ nested \in Nat /\ n \in 1 .. MaxHandlers
      /\ nested' = n /\ nested' \in 0 .. MaxHandlers
      /\ handlers' = [handlers EXCEPT ![n] = "enter"]
    BY PortsAssumption DEF HandlersInv, Interrupt
<1>2. "enter" \in HandlerStages /\ n \notin Bodies(handlers)
    BY <1>1 DEF HandlersInv, HandlerStages
<1>3. handlers[n] # "body"
    BY <1>1, <1>2 DEF Bodies
<1> HIDE DEF n
<1>4. /\ handlers' \in [1 .. MaxHandlers -> HandlerStages]
      /\ \A i \in 1 .. MaxHandlers : handlers'[i] = IF i = n THEN "enter" ELSE handlers[i]
      /\ Cardinality(Bodies(handlers')) = Cardinality(Bodies(handlers)) + 0 - 0
    BY <1>1, <1>2, <1>3, MovedTo DEF HandlersInv
<1>5. irq_nesting_depth' = Cardinality(Bodies(handlers'))
    BY <1>4, BodiesFinite DEF HandlersInv, Interrupt
<1>6. \A i \in Bodies(handlers') : i <= nested'
    BY <1>1, <1>4 DEF HandlersInv, Bodies, n
<1>7. \A i \in 1 .. nested : i \in 1 .. nested' /\ handlers'[i] = handlers[i]
    BY <1>1, <1>4 DEF n
<1>8. SwitchOwed'
    BY <1>7 DEF HandlersInv, SwitchOwed, Interrupt
<1> QED BY <1>1, <1>4, <1>5, <1>6, <1>8, PortsAssumption DEF HandlersInv, Interrupt

LEMMA IsrEnterKeeps == HandlersInv /\ IsrEnter => HandlersInv'
<1> SUFFICES ASSUME HandlersInv, IsrEnter PROVE HandlersInv'
    OBVIOUS
<1>1. nested > 0 /\ handlers[nested] = "enter" /\ Becomes("body") /\ "body" \in HandlerStages
    BY DEF IsrEnter, Handler, HandlerStages
<1>2. /\ nested \in 1 .. MaxHandlers
      /\ handlers' \in [1 .. MaxHandlers -> HandlerStages]
      /\ \A i \in 1 .. MaxHandlers : handlers'[i] = IF i = nested THEN "body" ELSE handlers[i]
      /\ \A i \in Bodies(handlers') : i <= nested
      /\ Cardinality(Bodies(handlers')) = irq_nesting_depth + 1 - 0
    BY <1>1, InnermostMoves
<1>3. irq_nesting_depth' = Cardinality(Bodies(handlers'))
    BY <1>2, BodiesFinite DEF HandlersInv, IsrEnter
<1>4. \A i \in 1 .. nested : /\ handlers[i] = "yield" => handlers'[i] = "yield"
                             /\ handlers[i] \in {"enter", "body", "test"} =>
                                   handlers'[i] \in {"enter", "body", "test"}
    BY <1>1, <1>2, PortsAssumption
<1>5. SwitchOwed'
    BY <1>4 DEF HandlersInv, SwitchOwed, IsrEnter
<1> QED BY <1>2, <1>3, <1>5 DEF HandlersInv, IsrEnter

LEMMA IsrLeaveKeeps == HandlersInv /\ IsrLeave => HandlersInv'
<1> SUFFICES ASSUME HandlersInv, IsrLeave PROVE HandlersInv'
    OBVIOUS
<1>1. nested > 0 /\ handlers[nested] = "body"
    BY DEF IsrLeave, Handler
<1>2. /\ irq_nesting_depth' = irq_nesting_depth - 1
      /\ UNCHANGED <<yield_pending, pending, owed>>
    BY DEF IsrLeave
<1>3. CASE irq_nesting_depth = 1
    <2>1. Becomes("test") /\ nested' = nested /\ "test" \in HandlerStages
        BY <1>3 DEF IsrLeave, HandlerStages
    <2>2. /\ nested \in 1 .. MaxHandlers
          /\ handlers' \in [1 .. MaxHandlers -> HandlerStages]
          /\ \A i \in 1 .. MaxHandlers : handlers'[i] = IF i = nested THEN "test" ELSE handlers[i]
          /\ \A i \in Bodies(handlers') : i <= nested
          /\ Cardinality(Bodies(handlers')) = irq_nesting_depth + 0 - 1
        BY <1>1, <2>1, InnermostMoves
    <2>3. irq_nesting_depth' = Cardinality(Bodies(handlers'))
        BY <1>2, <1>3, <2>2
    <2>4. \A i \in 1 .. nested : /\ handlers[i] = "yield" => handlers'[i] = "yield"
                                 /\ handlers[i] \in {"enter", "body", "test"} =>
                                       handlers'[i] \in {"enter", "body", "test"}
        BY <1>1, <2>2, PortsAssumption
    <2>5. SwitchOwed'
        BY <1>2, <2>1, <2>4 DEF HandlersInv, SwitchOwed
    <2> QED BY <1>2, <2>1, <2>2, <2>3, <2>5 DEF HandlersInv
<1>4. CASE irq_nesting_depth # 1
    <2>1. Becomes("none") /\ nested' = nested - 1 /\ "none" \in HandlerStages
        BY <1>4 DEF IsrLeave, Returns, HandlerStages
    <2>2. /\ nested \in 1 .. MaxHandlers
          /\ handlers' \in [1 .. MaxHandlers -> HandlerStages]
          /\ \A i \in 1 .. MaxHandlers : handlers'[i] = IF i = nested THEN "none" ELSE handlers[i]
          /\ \A i \in Bodies(handlers') : i <= nested - 1
          /\ Cardinality(Bodies(handlers')) = irq_nesting_depth + 0 - 1
        BY <1>1, <2>1, InnermostMoves
    <2>3. irq_nesting_depth' = Cardinality(Bodies(handlers')) /\ irq_nesting_depth \in Nat
        BY <1>2, <2>2, BodiesFinite DEF HandlersInv
    <2>4. PICK other \in Bodies(handlers') : TRUE
        <3>1. irq_nesting_depth' # 0
            BY <1>2, <1>4, <2>3
        <3> QED BY <3>1, <2>3, FS_EmptySet
    <2>5. other \in 1 .. nested' /\ handlers'[other] = "body"
        BY <2>1, <2>2, <2>4 DEF Bodies
    <2>6. \A i \in 1 .. nested : handlers[i] = "yield" => i \in 1 .. nested' /\ handlers'[i] = "yield"
        BY <1>1, <2>1, <2>2, PortsAssumption
    <2>7. SwitchOwed'
        BY <1>2, <2>5, <2>6 DEF HandlersInv, SwitchOwed
    <2>8. nested' \in 0 .. MaxHandlers /\ \A i \in Bodies(handlers') : i <= nested'
        BY <2>1, <2>2, PortsAssumption
    <2> QED BY <1>2, <2>2, <2>3, <2>7, <2>8 DEF HandlersInv
<1> QED BY <1>3, <1>4

LEMMA IsrConsumeKeeps == HandlersInv /\ IsrConsume => HandlersInv'
<1> SUFFICES ASSUME HandlersInv, IsrConsume PROVE HandlersInv'
    OBVIOUS
<1>1. nested > 0 /\ handlers[nested] = "test"
    BY DEF IsrConsume, Handler
<1>2. UNCHANGED <<irq_nesting_depth, pending, owed>> /\ yield_pending' \in BOOLEAN
    BY DEF HandlersInv, IsrConsume
<1>3. CASE yield_pending
    <2>1. Becomes("yield") /\ nested' = nested /\ "yield" \in HandlerStages
        BY <1>3 DEF IsrConsume, HandlerStages
    <2>2. /\ nested \in 1 .. MaxHandlers
          /\ handlers' \in [1 .. MaxHandlers -> HandlerStages]
          /\ \A i \in 1 .. MaxHandlers : handlers'[i] = IF i = nested THEN "yield" ELSE handlers[i]
          /\ \A i \in Bodies(handlers') : i <= nested
          /\ Cardinality(Bodies(handlers')) = irq_nesting_depth + 0 - 0
        BY <1>1, <2>1, InnermostMoves
    <2>3. irq_nesting_depth' = Cardinality(Bodies(handlers'))
        BY <1>2, <2>2, BodiesFinite DEF HandlersInv
    <2>4. nested \in 1 .. nested' /\ handlers'[nested] = "yield"
        BY <2>1, <2>2
    <2>5. SwitchOwed'
        BY <2>4 DEF SwitchOwed
    <2> QED BY <1>2, <2>1, <2>2, <2>3, <2>5 DEF HandlersInv
<1>4. CASE ~yield_pending
    <2>1. /\ Becomes("none") /\ nested' = nested - 1 /\ "none" \in HandlerStages
          /\ yield_pending' = yield_pending
        BY <1>4 DEF IsrConsume, Returns, HandlerStages
    <2>2. /\ nested \in 1 .. MaxHandlers
          /\ handlers' \in [1 .. MaxHandlers -> HandlerStages]
          /\ \A i \in 1 .. MaxHandlers : handlers'[i] = IF i = nested THEN "none" ELSE handlers[i]
          /\ \A i \in Bodies(handlers') : i <= nested - 1
          /\ Cardinality(Bodies(handlers')) = irq_nesting_depth + 0 - 0
        BY <1>1, <2>1, InnermostMoves
    <2>3. irq_nesting_depth' = Cardinality(Bodies(handlers'))
        BY <1>2, <2>2, BodiesFinite DEF HandlersInv
    <2>4. \A i \in 1 .. nested : handlers[i] = "yield" => i \in 1 .. nested' /\ handlers'[i] = "yield"
        BY <1>1, <2>1, <2>2, PortsAssumption
    <2>5. SwitchOwed'
        BY <1>2, <1>4, <2>4 DEF HandlersInv, SwitchOwed
    <2>6. nested' \in 0 .. MaxHandlers /\ \A i \in Bodies(handlers') : i <= nested'
        BY <2>1, <2>2, PortsAssumption
    <2> QED BY <1>2, <2>2, <2>3, <2>5, <2>6 DEF HandlersInv
<1> QED BY <1>3, <1>4

LEMMA IsrYieldKeeps == HandlersInv /\ IsrYield => HandlersInv'
<1> SUFFICES ASSUME HandlersInv, IsrYield PROVE HandlersInv'
    OBVIOUS
<1>1. /\ nested > 0 /\ handlers[nested] = "yield"
      /\ Becomes("none") /\ nested' = nested - 1 /\ "none" \in HandlerStages
      /\ pending' = TRUE
    BY DEF IsrYield, os_port_yield, Handler, Returns, HandlerStages
<1>2. /\ nested \in 1 .. MaxHandlers
      /\ handlers' \in [1 .. MaxHandlers -> HandlerStages]
      /\ \A i \in Bodies(handlers') : i <= nested - 1
      /\ Cardinality(Bodies(handlers')) = irq_nesting_depth + 0 - 0
    BY <1>1, InnermostMoves
<1>3. irq_nesting_depth' = Cardinality(Bodies(handlers'))
    BY <1>2, BodiesFinite DEF HandlersInv, IsrYield, os_port_yield
<1>4. nested' \in 0 .. MaxHandlers /\ \A i \in Bodies(handlers') : i <= nested'
    BY <1>1, <1>2, PortsAssumption
<1> QED BY <1>1, <1>2, <1>3, <1>4 DEF HandlersInv, SwitchOwed, IsrYield, os_port_yield

LEMMA RequestKeeps == HandlersInv /\ RequestFromISR => HandlersInv'
<1> SUFFICES ASSUME HandlersInv, RequestFromISR PROVE HandlersInv'
    OBVIOUS
<1>1. nested \in 1 .. nested /\ handlers[nested] \in {"enter", "body", "test"}
    BY DEF HandlersInv, RequestFromISR
<1>2. SwitchOwed'
    BY <1>1 DEF SwitchOwed, RequestFromISR
<1> QED BY <1>2 DEF HandlersInv, RequestFromISR

\* The variables HandlersInv speaks of.
handlerVars == <<nested, handlers, irq_nesting_depth, yield_pending, pending, owed>>

LEMMA HandlersStep == HandlersInv /\ [Next]_vars => HandlersInv'
<1> SUFFICES ASSUME HandlersInv, [Next]_vars PROVE HandlersInv'
    OBVIOUS
<1>1. ASSUME UNCHANGED handlerVars PROVE HandlersInv'
    BY <1>1 DEF HandlersInv, SwitchOwed, handlerVars
<1>2. CASE PortsNext
    <2>1. CASE PendSV
        BY <2>1 DEF PendSV, HandlersInv, SwitchOwed
    <2>2. CASE PortYield
        BY <2>2 DEF PortYield, os_port_yield, HandlersInv, SwitchOwed
    <2>3. CASE EnterCritical \/ ExitCritical
        BY <2>3, <1>1 DEF EnterCritical, os_port_enter_critical, ExitCritical, os_port_exit_critical, handlerVars
    <2> QED BY <1>2, <2>1, <2>2, <2>3, RequestKeeps, InterruptKeeps, IsrEnterKeeps,
               IsrLeaveKeeps, IsrConsumeKeeps, IsrYieldKeeps DEF PortsNext
<1>3. CASE UNCHANGED ports
    BY <1>1, <1>3 DEF ports, handlerVars
<1>4. CASE UNCHANGED vars
    BY <1>1, <1>4 DEF vars, handlerVars
<1> QED BY <1>2, <1>3, <1>4 DEF Next

\* However deep handlers are nested and wherever each was interrupted, by PendSV
\* too, a switch that one of them has asked for is made or still to come
\* (scheduler.c:98-130).
THEOREM SwitchCorrect == Spec => []SwitchOwed
<1>1. HandlersInv => SwitchOwed
    BY DEF HandlersInv
<1> QED BY <1>1, HandlersInit, HandlersStep, PTL DEF Spec

-----------------------------------------------------------------------------
\* The periodic task: arithmetic modulo any number first.

LEMMA Quotient ==
    ASSUME NEW n \in Nat \ {0}, NEW x \in Int
    PROVE  x = n * (x \div n) + (x % n) /\ x % n \in 0 .. n - 1 /\ x \div n \in Int
OBVIOUS

LEMMA RemainderUnique ==
    ASSUME NEW n \in Nat \ {0}, NEW q \in Int, NEW p \in Int,
           NEW r \in 0 .. n - 1, NEW s \in 0 .. n - 1, n * q + r = n * p + s
    PROVE  r = s
<1>1. n * (q - p) = s - r
    OBVIOUS
<1>2. CASE q - p >= 1
    <2>1. n * (q - p) >= n
        BY <1>2
    <2> QED BY <1>1, <2>1
<1>3. CASE q - p <= -1
    <2>1. n * (q - p) <= -n
        BY <1>3
    <2> QED BY <1>1, <2>1
<1>4. CASE q - p = 0
    BY <1>1, <1>4
<1> QED BY <1>2, <1>3, <1>4

LEMMA Remainder ==
    ASSUME NEW n \in Nat \ {0}, NEW x \in Int, NEW q \in Int, NEW r \in 0 .. n - 1,
           x = n * q + r
    PROVE  x % n = r
BY Quotient, RemainderUnique

\* A counter that wraps may be added to as if it did not.
LEMMA WrapThenAdd ==
    ASSUME NEW n \in Nat \ {0}, NEW x \in Int, NEW y \in Int
    PROVE  ((x % n) + y) % n = (x + y) % n
<1> DEFINE q == x \div n
           z == x + y
           p == z \div n
           r == z % n
<1>1. x = n * q + (x % n) /\ q \in Int /\ x % n \in Int
    BY Quotient
<1>2. z \in Int
    OBVIOUS
<1> HIDE DEF z
<1>3. z = n * p + r /\ p \in Int /\ r \in 0 .. n - 1
    BY <1>2, Quotient
<1> HIDE DEF q, p, r
<1>4. (x % n) + y = n * p + r - n * q
    BY <1>1, <1>3 DEF z
<1>5. n * p + r - n * q = n * (p - q) + r
    BY <1>1, <1>3
<1>6. (x % n) + y = n * (p - q) + r /\ (x % n) + y \in Int /\ p - q \in Int
    BY <1>1, <1>3, <1>4, <1>5
<1>7. ((x % n) + y) % n = r
    BY <1>3, <1>6, Remainder
<1> QED BY <1>7 DEF r, z

\* The signed difference of two counts, as the cast to int32_t gives it.
LEMMA SignedDifference ==
    ASSUME NEW d \in Int, d >= -HalfRange, d < HalfRange
    PROVE  d % TickModulus = IF d >= 0 THEN d ELSE d + TickModulus
<1> DEFINE n == 2 * HalfRange
<1>1. HalfRange \in Nat \ {0} /\ n \in Nat \ {0}
    BY DelayUntilAssumption
<1>2. CASE d >= 0
    <2>1. d \in 0 .. n - 1 /\ d = n * 0 + d
        BY <1>1, <1>2
    <2>2. d % n = d
        BY <1>1, <2>1, Remainder
    <2> QED BY <1>2, <2>2 DEF TickModulus
<1>3. CASE d < 0
    <2>1. d + n \in 0 .. n - 1 /\ d = n * (-1) + (d + n)
        BY <1>1, <1>3
    <2>2. d % n = d + n
        BY <1>1, <2>1, Remainder
    <2> QED BY <1>3, <2>2 DEF TickModulus
<1> QED BY <1>2, <1>3
\* The inductive invariant: the property and how late the task may be.
PeriodInv ==
    /\ system_tick \in 0 .. TickModulus - 1
    /\ ticks_to_delay \in 0 .. HalfRange - 1
    /\ delay_ticks \in 0 .. HalfRange - 1
    /\ ticks_to_delay > 0 => delay_ticks = 0
    /\ gap \in -MaxLate .. HalfRange - 1
    /\ slip \in 0 .. MaxLate
    /\ PeriodKept

LEMMA TickRange == TickModulus \in Nat \ {0} /\ MaxLate <= HalfRange
    /\ MaxLate \in Nat /\ HalfRange \in Nat \ {0}
BY DelayUntilAssumption DEF TickModulus

LEMMA PeriodInit == Init => PeriodInv
<1> SUFFICES ASSUME Init PROVE PeriodInv
    OBVIOUS
<1>1. /\ system_tick \in 0 .. TickModulus - 1 /\ previous_wake_tick = system_tick
      /\ ticks_to_delay = 0 /\ delay_ticks = 0 /\ gap = 0 /\ slip = 0
    BY DEF Init, DelayUntilInit
<1>2. system_tick = TickModulus * 0 + system_tick
    BY <1>1, TickRange
<1>3. system_tick % TickModulus = system_tick
    BY <1>1, <1>2, TickRange, Remainder
<1>4. system_tick + gap = system_tick
    BY <1>1, TickRange
<1> QED BY <1>1, <1>3, <1>4, TickRange DEF PeriodInv, PeriodKept

\* What PeriodInv says of the counters only.
Counters(wait, left, until, late) ==
    /\ wait \in 0 .. HalfRange - 1
    /\ left \in 0 .. HalfRange - 1
    /\ wait > 0 => left = 0
    /\ until \in -MaxLate .. HalfRange - 1
    /\ late \in 0 .. MaxLate
    /\ IF wait > 0 THEN wait = until + late
       ELSE IF left > 0 THEN left = until + late
       ELSE until <= 0

\* A tick shortens the delay and brings the task closer to its time alike; it
\* may make a task late that has not been delayed yet.
LEMMA CounterTick ==
    ASSUME NEW wait, NEW left, NEW until, NEW late, Counters(wait, left, until, late),
           IF wait > 0 THEN late < MaxLate ELSE left > 0 \/ until > -MaxLate
    PROVE  Counters(wait, IF left > 0 THEN left - 1 ELSE 0, until - 1,
                    IF wait > 0 THEN late + 1 ELSE late)
BY TickRange DEF Counters

LEMMA TickKeeps == PeriodInv /\ CountTick => PeriodInv'
<1> SUFFICES ASSUME PeriodInv, CountTick PROVE PeriodInv'
    OBVIOUS
<1>1. system_tick' = (system_tick + 1) % TickModulus /\ system_tick' \in 0 .. TickModulus - 1
    <2> DEFINE x == system_tick + 1
    <2>1. x \in Int /\ system_tick' = x % TickModulus
        BY TickRange DEF PeriodInv, CountTick
    <2> HIDE DEF x
    <2>2. x % TickModulus \in 0 .. TickModulus - 1
        BY <2>1, TickRange, Quotient
    <2> QED BY <2>1, <2>2 DEF x
<1>2. (system_tick' + gap') % TickModulus = ((system_tick + 1) + gap') % TickModulus
    <2> DEFINE x == system_tick + 1
               y == gap'
    <2>1. x \in Int /\ y \in Int
        BY TickRange DEF PeriodInv, CountTick
    <2>2. system_tick' = x % TickModulus
        BY <1>1
    <2> HIDE DEF x, y
    <2>3. ((x % TickModulus) + y) % TickModulus = (x + y) % TickModulus
        BY <2>1, TickRange, WrapThenAdd
    <2> QED BY <2>2, <2>3 DEF x, y
<1>3. (system_tick + 1) + gap' = system_tick + gap
    BY TickRange DEF PeriodInv, CountTick
<1>4. previous_wake_tick' = (system_tick' + gap') % TickModulus
    BY <1>2, <1>3 DEF PeriodInv, PeriodKept, CountTick
<1>5. Counters(ticks_to_delay, delay_ticks, gap, slip)
    BY DEF PeriodInv, PeriodKept, Counters
<1>6. Counters(ticks_to_delay', delay_ticks', gap', slip')
    BY <1>5, CounterTick DEF CountTick, MayWait
<1> QED BY <1>1, <1>4, <1>6 DEF PeriodInv, PeriodKept, Counters

LEMMA CallKeeps ==
    ASSUME PeriodInv, NEW wait \in Periods, DelayUntil(wait)
    PROVE  PeriodInv'
<1> DEFINE n == TickModulus
           then == (previous_wake_tick + wait) % n
           ticks == (then - system_tick) % n
<1>1. wait \in 1 .. HalfRange - 1 /\ wait \in Int
    BY DelayUntilAssumption
<1>2. gap' = gap + wait /\ system_tick' = system_tick /\ previous_wake_tick' = then
    BY DEF DelayUntil
<1>3. gap <= 0 /\ gap >= -HalfRange /\ gap \in Int /\ system_tick \in Int
    BY TickRange DEF PeriodInv, PeriodKept, DelayUntil
<1>4. gap' \in Int /\ gap' > -HalfRange /\ gap' < HalfRange /\ gap' >= -MaxLate
    BY <1>1, <1>2, <1>3, TickRange DEF PeriodInv
<1>5. then = (system_tick + gap') % n
    <2> DEFINE x == system_tick + gap
    <2>1. then = ((x % n) + wait) % n
        BY DEF PeriodInv, PeriodKept
    <2>2. x \in Int /\ x + wait = system_tick + gap'
        BY <1>1, <1>2, <1>3
    <2> HIDE DEF x
    <2>3. ((x % n) + wait) % n = (x + wait) % n
        BY <1>1, <2>2, TickRange, WrapThenAdd
    <2> QED BY <2>1, <2>2, <2>3
<1>6. ticks = gap' % n
    <2> DEFINE sum == system_tick + gap'
               back == -system_tick
    <2>1. sum \in Int /\ back \in Int /\ sum + back = gap'
        <3> DEFINE g == gap'
        <3>1. g \in Int
            BY <1>4
        <3> HIDE DEF g
        <3>2. system_tick + g \in Int /\ -system_tick \in Int /\ (system_tick + g) + (-system_tick) = g
            BY <1>3, <3>1
        <3> QED BY <3>2 DEF g
    <2>2. ((sum % n) + back) % n = (sum + back) % n
        BY <2>1, TickRange, WrapThenAdd
    <2>3. then \in Int /\ then - system_tick = then + back
        BY <1>3, <1>5, <2>1, TickRange
    <2>4. ticks = ((sum % n) + back) % n
        BY <2>3, <1>5
    <2> QED BY <2>1, <2>2, <2>4
<1>7. ticks = IF gap' >= 0 THEN gap' ELSE gap' + n
    <2> DEFINE g == gap'
    <2>1. g \in Int /\ g >= -HalfRange /\ g < HalfRange
        BY <1>4, TickRange
    <2> HIDE DEF g
    <2>2. g % n = IF g >= 0 THEN g ELSE g + n
        BY <2>1, SignedDifference
    <2> QED BY <1>6, <2>2 DEF g
<1>8. /\ ticks_to_delay' = IF ticks < HalfRange THEN ticks ELSE 0
      /\ delay_ticks' = 0 /\ slip' = 0
    BY DEF DelayUntil
<1> HIDE DEF ticks
<1>9. n = 2 * HalfRange
    BY DEF TickModulus
<1>10. Counters(ticks_to_delay', delay_ticks', gap', slip')
    <2> DEFINE g == gap'
               d == ticks_to_delay'
    <2>1. g \in Int /\ g > -HalfRange /\ g < HalfRange /\ g >= -MaxLate
        BY <1>4
    <2>2. ticks = IF g >= 0 THEN g ELSE g + 2 * HalfRange
        BY <1>7, <1>9
    <2>3. d = IF ticks < HalfRange THEN ticks ELSE 0
        BY <1>8
    <2> HIDE DEF g, d
    <2>4. Counters(d, 0, g, 0)
        BY <2>1, <2>2, <2>3, TickRange DEF Counters
    <2> QED BY <1>8, <2>4 DEF g, d
<1>11. previous_wake_tick' = (system_tick' + gap') % n
    BY <1>2, <1>5
<1> HIDE DEF n, then
<1> QED BY <1>2, <1>10, <1>11 DEF PeriodInv, PeriodKept, Counters, n

LEMMA BeginsKeeps == PeriodInv /\ DelayBegins => PeriodInv'
BY TickRange DEF PeriodInv, PeriodKept, DelayBegins

LEMMA PeriodStep == PeriodInv /\ [Next]_vars => PeriodInv'
<1> SUFFICES ASSUME PeriodInv, [Next]_vars PROVE PeriodInv'
    OBVIOUS
<1>1. CASE DelayUntilNext
    BY <1>1, TickKeeps, CallKeeps, BeginsKeeps DEF DelayUntilNext
<1>2. CASE UNCHANGED periodic
    BY <1>2 DEF periodic, PeriodInv, PeriodKept
<1>3. CASE UNCHANGED vars
    BY <1>3 DEF vars, PeriodInv, PeriodKept
<1> QED BY <1>1, <1>2, <1>3 DEF Next

\* For every width of the tick counter, every choice of periods and a task that
\* is up to half the range of the counter late, os_task_delay_until releases the
\* task at the ticks of its schedule, across the wrap too, or after them by the
\* ticks that came between its reading of the counter and its blocking
\* (task.c:500-541).
THEOREM PeriodCorrect == Spec => []PeriodKept
<1>1. PeriodInv => PeriodKept
    BY DEF PeriodInv
<1> QED BY <1>1, PeriodInit, PeriodStep, PTL DEF Spec

-----------------------------------------------------------------------------
\* The watchdog.

\* A countdown that is running.
Running(e) == e.deadline > 0 /\ e.remaining > 0

\* The inductive invariant: the property, and that a slot which a caller has
\* looked up keeps a deadline although it may no longer be in use.
WatchdogInv ==
    /\ WatchdogTypeOK
    /\ TableExact
    /\ \A c \in Callers : calling[c].next # "none" => Running(wdt_table[calling[c].slot])

LEMMA EntryRecord ==
    ASSUME NEW e \in Entries
    PROVE  /\ e = [tcb |-> e.tcb, deadline |-> e.deadline, remaining |-> e.remaining,
                   paused |-> e.paused]
           /\ e.tcb \in Watched \cup {NoTask} /\ e.paused \in BOOLEAN
           /\ e.deadline \in 0 .. MaxDeadline /\ e.remaining \in 0 .. MaxDeadline
BY DEF Entries

LEMMA CallRecord ==
    ASSUME NEW c \in WatchdogCalls
    PROVE  /\ c.next \in WatchdogSteps \cup {"none"}
           /\ c.slot \in 1 .. MaxEntries /\ c.ticks \in 1 .. MaxDeadline
BY DEF WatchdogCalls

LEMMA NoCallIs == NoCall \in WatchdogCalls /\ NoCall.next = "none"
BY WatchdogAssumption DEF NoCall, WatchdogCalls

LEMMA WatchdogInitially == Init => WatchdogInv
<1> SUFFICES ASSUME Init PROVE WatchdogInv
    OBVIOUS
<1>1. /\ wdt_table = [i \in 1 .. MaxEntries |-> NoEntry] /\ wdt_count = 0
      /\ calling = [c \in Callers |-> NoCall] /\ registered = {}
    BY DEF Init, WatchdogInit
<1>2. NoEntry \in Entries /\ NoEntry.tcb = NoTask
    BY WatchdogAssumption DEF NoEntry, Entries
<1>3. WatchdogTypeOK
    BY <1>1, <1>2, NoCallIs, WatchdogAssumption DEF WatchdogTypeOK
<1>4. 1 .. wdt_count = {} /\ wdt_count + 1 .. MaxEntries = 1 .. MaxEntries
    BY <1>1, WatchdogAssumption
<1>5. TableExact
    BY <1>1, <1>2, <1>4 DEF TableExact
<1>6. \A c \in Callers : calling[c].next = "none"
    BY <1>1, NoCallIs
<1> QED BY <1>3, <1>5, <1>6 DEF WatchdogInv

\* TableExact is kept by a change of the fields other than tcb that leaves every
\* countdown running.
LEMMA SameTasks ==
    ASSUME WatchdogTypeOK, TableExact,
           NEW table \in [1 .. MaxEntries -> Entries],
           \A i \in 1 .. MaxEntries :
              /\ table[i].tcb = wdt_table[i].tcb
              /\ Running(wdt_table[i]) => Running(table[i]),
           wdt_table' = table, wdt_count' = wdt_count, registered' = registered
    PROVE  TableExact'
<1>1. 1 .. wdt_count \subseteq 1 .. MaxEntries /\ wdt_count + 1 .. MaxEntries \subseteq 1 .. MaxEntries
    BY WatchdogAssumption DEF WatchdogTypeOK
<1>2. \A i \in 1 .. wdt_count : Running(wdt_table'[i])
    BY <1>1 DEF TableExact, Running
<1>3. {wdt_table'[i].tcb : i \in 1 .. wdt_count} = {wdt_table[i].tcb : i \in 1 .. wdt_count}
    BY <1>1
<1>4. {wdt_table'[i].tcb : i \in 1 .. wdt_count'} = registered'
    BY <1>3 DEF TableExact
<1>5. \A i, j \in 1 .. wdt_count' : wdt_table'[i].tcb = wdt_table'[j].tcb => i = j
    BY <1>1 DEF TableExact
<1>6. \A i \in wdt_count' + 1 .. MaxEntries : wdt_table'[i].tcb = NoTask
    BY <1>1 DEF TableExact
<1> QED BY <1>2, <1>4, <1>5, <1>6 DEF TableExact, Running

LEMMA RegisterKeeps ==
    ASSUME WatchdogInv, NEW t \in Watched, NEW ticks \in 1 .. MaxDeadline, Register(t, ticks)
    PROVE  WatchdogInv'
<1> DEFINE n == wdt_count + 1
           e == [tcb |-> t, deadline |-> ticks, remaining |-> ticks, paused |-> FALSE]
<1>1. /\ wdt_count \in Nat /\ n \in 1 .. MaxEntries /\ wdt_count' = n /\ MaxEntries \in Nat
      /\ wdt_table' = [wdt_table EXCEPT ![n] = e]
      /\ registered' = registered \cup {t} /\ calling' = calling
    BY WatchdogAssumption DEF Register, WatchdogInv, WatchdogTypeOK
<1>2. e \in Entries /\ e.tcb = t /\ Running(e)
    BY WatchdogAssumption DEF Entries, Running
<1> HIDE DEF e
<1>3. /\ wdt_table' \in [1 .. MaxEntries -> Entries]
      /\ \A i \in 1 .. MaxEntries : wdt_table'[i] = IF i = n THEN e ELSE wdt_table[i]
    BY <1>1, <1>2 DEF WatchdogInv, WatchdogTypeOK
<1>4. WatchdogTypeOK'
    BY <1>1, <1>3 DEF WatchdogInv, WatchdogTypeOK
<1>5. \A i \in 1 .. n : i # n => i \in 1 .. wdt_count /\ i \in 1 .. MaxEntries
    BY <1>1
<1>6. \A i \in 1 .. wdt_count : i \in 1 .. n /\ i # n /\ wdt_table[i].tcb # t
    BY <1>1 DEF Register, Slots
<1>7. {wdt_table'[i].tcb : i \in 1 .. n} = {wdt_table[i].tcb : i \in 1 .. wdt_count} \cup {t}
    BY <1>1, <1>2, <1>3, <1>5, <1>6
<1>8. \A i, j \in 1 .. n : wdt_table'[i].tcb = wdt_table'[j].tcb => i = j
    BY <1>1, <1>2, <1>3, <1>5, <1>6 DEF WatchdogInv, TableExact
<1>9. \A i \in 1 .. n : Running(wdt_table'[i])
    BY <1>1, <1>2, <1>3, <1>5 DEF WatchdogInv, TableExact, Running
<1>10. \A i \in n + 1 .. MaxEntries : wdt_table'[i].tcb = NoTask
    BY <1>1, <1>3 DEF WatchdogInv, TableExact
<1> HIDE DEF n
<1>11. TableExact'
    BY <1>1, <1>7, <1>8, <1>9, <1>10 DEF WatchdogInv, TableExact, Running
<1>12. ASSUME NEW c \in Callers, calling'[c].next # "none"
       PROVE  Running(wdt_table'[calling'[c].slot])
    <2>1. calling[c].slot \in 1 .. MaxEntries
        BY CallRecord DEF WatchdogInv, WatchdogTypeOK
    <2> QED BY <1>1, <1>2, <1>3, <1>12, <2>1 DEF WatchdogInv
<1> QED BY <1>4, <1>11, <1>12 DEF WatchdogInv

LEMMA UnregisterKeeps ==
    ASSUME WatchdogInv, NEW t \in Watched, Unregister(t)
    PROVE  WatchdogInv'
<1>1. PICK k \in Slots(t) : wdt_table' = Compacted(k)
    BY DEF Unregister
<1> DEFINE n == wdt_count
           last == wdt_table[n]
           moved == [wdt_table EXCEPT ![k] = last]
<1>2. /\ n \in 1 .. MaxEntries /\ k \in 1 .. n /\ k \in 1 .. MaxEntries
      /\ MaxEntries \in Nat /\ wdt_table[k].tcb = t
    BY <1>1, WatchdogAssumption DEF Slots, WatchdogInv, WatchdogTypeOK
<1>3. /\ wdt_count' = n - 1 /\ n - 1 \in 0 .. MaxEntries
      /\ registered' = registered \ {t} /\ calling' = calling
    BY <1>2 DEF Unregister
<1>4. /\ moved \in [1 .. MaxEntries -> Entries]
      /\ \A i \in 1 .. MaxEntries : moved[i] = IF i = k THEN last ELSE wdt_table[i]
    BY <1>2 DEF WatchdogInv, WatchdogTypeOK
<1>5. moved[n] = last
    BY <1>2, <1>4
<1>6. wdt_table' = [moved EXCEPT ![n] = [last EXCEPT !.tcb = NoTask]]
    BY <1>1, <1>5 DEF Compacted
<1> DEFINE cleared == [last EXCEPT !.tcb = NoTask]
<1>7. /\ cleared \in Entries /\ cleared.tcb = NoTask
      /\ cleared.deadline = last.deadline /\ cleared.remaining = last.remaining
    <2>1. last \in Entries
        BY <1>2 DEF WatchdogInv, WatchdogTypeOK
    <2> QED BY <2>1 DEF Entries
<1>8. Running(last)
    BY <1>2 DEF WatchdogInv, TableExact, Running
<1>9. /\ wdt_table' \in [1 .. MaxEntries -> Entries]
      /\ \A i \in 1 .. MaxEntries :
            wdt_table'[i] = IF i = n THEN cleared ELSE IF i = k THEN last ELSE wdt_table[i]
    BY <1>2, <1>4, <1>6, <1>7
<1> HIDE DEF moved, cleared
<1>10. WatchdogTypeOK'
    BY <1>3, <1>9 DEF WatchdogInv, WatchdogTypeOK
<1>11. \A i \in 1 .. n - 1 : /\ i \in 1 .. MaxEntries /\ i \in 1 .. n /\ i # n
                             /\ wdt_table'[i] = IF i = k THEN last ELSE wdt_table[i]
    BY <1>2, <1>9
<1>12. /\ \A i, j \in 1 .. n : wdt_table[i].tcb = wdt_table[j].tcb => i = j
       /\ n \in 1 .. n
       /\ {wdt_table[i].tcb : i \in 1 .. n} = registered
    BY <1>2 DEF WatchdogInv, TableExact
<1>13. {wdt_table'[i].tcb : i \in 1 .. n - 1} = {wdt_table[i].tcb : i \in 1 .. n} \ {t}
    <2>1. ASSUME NEW i \in 1 .. n - 1
          PROVE  wdt_table'[i].tcb \in {wdt_table[j].tcb : j \in 1 .. n} \ {t}
        <3>1. CASE i = k
            BY <1>2, <1>11, <1>12, <3>1
        <3>2. CASE i # k
            BY <1>2, <1>11, <1>12, <3>2
        <3> QED BY <3>1, <3>2
    <2>2. ASSUME NEW j \in 1 .. n, wdt_table[j].tcb # t
          PROVE  \E i \in 1 .. n - 1 : wdt_table'[i].tcb = wdt_table[j].tcb
        <3>1. j # k
            BY <1>2, <2>2
        <3>2. CASE j = n
            <4>1. k \in 1 .. n - 1
                BY <1>2, <3>1, <3>2
            <4>2. wdt_table'[k].tcb = wdt_table[j].tcb
                BY <1>11, <3>2, <4>1
            <4> QED BY <4>1, <4>2
        <3>3. CASE j # n
            <4>1. j \in 1 .. n - 1
                BY <1>2, <3>3
            <4>2. wdt_table'[j].tcb = wdt_table[j].tcb
                BY <1>11, <3>1, <4>1
            <4> QED BY <4>1, <4>2
        <3> QED BY <3>2, <3>3
    <2> QED BY <2>1, <2>2
<1>14. \A i, j \in 1 .. n - 1 : wdt_table'[i].tcb = wdt_table'[j].tcb => i = j
    BY <1>2, <1>11, <1>12
<1>15. \A i \in 1 .. n - 1 : Running(wdt_table'[i])
    BY <1>8, <1>11 DEF WatchdogInv, TableExact, Running
<1>16. \A i \in (n - 1) + 1 .. MaxEntries : wdt_table'[i].tcb = NoTask
    <2>1. ASSUME NEW i \in (n - 1) + 1 .. MaxEntries PROVE wdt_table'[i].tcb = NoTask
        <3>1. i \in 1 .. MaxEntries /\ (i = n \/ (i # n /\ i # k /\ i \in n + 1 .. MaxEntries))
            BY <1>2
        <3> QED BY <3>1, <1>7, <1>9 DEF WatchdogInv, TableExact
    <2> QED BY <2>1
<1>17. TableExact'
    <2> DEFINE m == n - 1
    <2>1. wdt_count' = m
        BY <1>3
    <2> HIDE DEF m
    <2>2. {wdt_table'[i].tcb : i \in 1 .. m} = registered'
        BY <1>3, <1>12, <1>13 DEF m
    <2>3. /\ \A i, j \in 1 .. m : wdt_table'[i].tcb = wdt_table'[j].tcb => i = j
          /\ \A i \in 1 .. m : Running(wdt_table'[i])
          /\ \A i \in m + 1 .. MaxEntries : wdt_table'[i].tcb = NoTask
        BY <1>14, <1>15, <1>16 DEF m
    <2> QED BY <2>1, <2>2, <2>3 DEF TableExact, Running
<1>18. ASSUME NEW c \in Callers, calling'[c].next # "none"
       PROVE  Running(wdt_table'[calling'[c].slot])
    <2>1. calling[c].slot \in 1 .. MaxEntries /\ Running(wdt_table[calling[c].slot])
        BY <1>3, <1>18, CallRecord DEF WatchdogInv, WatchdogTypeOK
    <2> QED BY <1>3, <1>7, <1>8, <1>9, <2>1 DEF Running
<1> QED BY <1>10, <1>17, <1>18 DEF WatchdogInv

LEMMA LookUpKeeps ==
    ASSUME WatchdogInv, NEW c \in Callers, NEW t \in Watched, NEW step \in WatchdogSteps,
           NEW ticks \in 1 .. MaxDeadline, LookUp(c, t, step, ticks)
    PROVE  WatchdogInv'
<1>1. PICK i \in Slots(t) :
         calling' = [calling EXCEPT ![c] = [next |-> step, slot |-> i, ticks |-> ticks]]
    BY DEF LookUp
<1> DEFINE call == [next |-> step, slot |-> i, ticks |-> ticks]
<1>2. i \in 1 .. MaxEntries /\ Running(wdt_table[i])
    BY WatchdogAssumption DEF Slots, WatchdogInv, WatchdogTypeOK, TableExact, Running
<1>3. call \in WatchdogCalls /\ call.slot = i
    BY <1>2 DEF WatchdogCalls
<1> HIDE DEF call
<1>4. /\ calling' \in [Callers -> WatchdogCalls]
      /\ \A d \in Callers : calling'[d] = IF d = c THEN call ELSE calling[d]
    BY <1>1, <1>3 DEF WatchdogInv, WatchdogTypeOK, call
<1>5. UNCHANGED <<wdt_table, wdt_count, registered>>
    BY DEF LookUp
<1>6. WatchdogTypeOK' /\ TableExact'
    BY <1>4, <1>5 DEF WatchdogInv, WatchdogTypeOK, TableExact
<1>7. \A d \in Callers : calling'[d].next # "none" => Running(wdt_table'[calling'[d].slot])
    BY <1>2, <1>3, <1>4, <1>5 DEF WatchdogInv
<1> QED BY <1>6, <1>7 DEF WatchdogInv

\* A write to the entry that was looked up.
LEMMA WriteKeeps ==
    ASSUME WatchdogInv, NEW c \in Callers, NEW e \in Entries, NEW call \in WatchdogCalls,
           calling[c].next # "none", e.tcb = Entry(c).tcb, Running(e),
           call.next # "none" => call.slot = calling[c].slot,
           WriteEntry(c, e, call)
    PROVE  WatchdogInv'
<1> DEFINE s == calling[c].slot
<1>1. s \in 1 .. MaxEntries
    BY CallRecord DEF WatchdogInv, WatchdogTypeOK
<1>2. /\ wdt_table' = [wdt_table EXCEPT ![s] = e] /\ calling' = [calling EXCEPT ![c] = call]
      /\ wdt_count' = wdt_count /\ registered' = registered
    BY DEF WriteEntry
<1>3. e.tcb = wdt_table[s].tcb
    BY DEF Entry
<1> HIDE DEF s
<1>4. /\ wdt_table' \in [1 .. MaxEntries -> Entries]
      /\ \A i \in 1 .. MaxEntries : wdt_table'[i] = IF i = s THEN e ELSE wdt_table[i]
    BY <1>1, <1>2 DEF WatchdogInv, WatchdogTypeOK
<1>5. /\ calling' \in [Callers -> WatchdogCalls]
      /\ \A d \in Callers : calling'[d] = IF d = c THEN call ELSE calling[d]
    BY <1>2 DEF WatchdogInv, WatchdogTypeOK
<1>6. WatchdogTypeOK'
    BY <1>2, <1>4, <1>5 DEF WatchdogInv, WatchdogTypeOK
<1>7. TableExact'
    <2>1. \A i \in 1 .. MaxEntries : /\ wdt_table'[i].tcb = wdt_table[i].tcb
                                     /\ Running(wdt_table[i]) => Running(wdt_table'[i])
        BY <1>3, <1>4
    <2> DEFINE table == wdt_table'
    <2>2. table \in [1 .. MaxEntries -> Entries] /\ wdt_table' = table
        BY <1>4
    <2>3. \A i \in 1 .. MaxEntries : /\ table[i].tcb = wdt_table[i].tcb
                                     /\ Running(wdt_table[i]) => Running(table[i])
        BY <2>1
    <2> HIDE DEF table
    <2> QED BY <1>2, <2>2, <2>3, SameTasks DEF WatchdogInv
<1>8. ASSUME NEW d \in Callers, calling'[d].next # "none"
      PROVE  Running(wdt_table'[calling'[d].slot])
    <2>1. CASE d = c
        BY <1>1, <1>4, <1>5, <1>8, <2>1 DEF s
    <2>2. CASE d # c
        <3>1. calling[d].slot \in 1 .. MaxEntries
            BY CallRecord DEF WatchdogInv, WatchdogTypeOK
        <3> QED BY <1>4, <1>5, <1>8, <2>2, <3>1 DEF WatchdogInv
    <2> QED BY <2>1, <2>2
<1> QED BY <1>6, <1>7, <1>8 DEF WatchdogInv

\* The entry a caller has looked up, and the steps of the caller.
LEMMA CallerKeeps ==
    ASSUME WatchdogInv, NEW c \in Callers,
           Load(c) \/ Store(c) \/ Pause(c) \/ Unpause(c) \/ SetDeadline(c)
    PROVE  WatchdogInv'
<1> DEFINE e == Entry(c)
           call == calling[c]
<1>1. call \in WatchdogCalls /\ call.slot \in 1 .. MaxEntries /\ call.ticks \in 1 .. MaxDeadline
    BY CallRecord DEF WatchdogInv, WatchdogTypeOK
<1>2. e \in Entries
    BY <1>1 DEF Entry, WatchdogInv, WatchdogTypeOK
<1>3. call.next # "none"
    BY DEF Load, Store, Pause, Unpause, SetDeadline
<1>4. Running(e)
    BY <1>3 DEF WatchdogInv, Entry
<1>5. MaxDeadline \in Nat /\ call.ticks \in 0 .. MaxDeadline /\ call.ticks > 0
    BY <1>1, WatchdogAssumption
<1>6. CASE Load(c)
    <2> DEFINE new == [call EXCEPT !.next = "store", !.ticks = e.deadline]
    <2>1. calling' = [calling EXCEPT ![c] = new] /\ UNCHANGED <<wdt_table, wdt_count, registered>>
        BY <1>6 DEF Load
    <2>2. e.deadline \in 1 .. MaxDeadline
        BY <1>2, <1>4, <1>5, EntryRecord DEF Running
    <2>3. new \in WatchdogCalls /\ new.slot = call.slot
        BY <1>1, <2>2 DEF WatchdogCalls, WatchdogSteps
    <2> HIDE DEF new
    <2>4. /\ calling' \in [Callers -> WatchdogCalls]
          /\ \A d \in Callers : calling'[d] = IF d = c THEN new ELSE calling[d]
        BY <2>1, <2>3 DEF WatchdogInv, WatchdogTypeOK
    <2>5. WatchdogTypeOK' /\ TableExact'
        BY <2>1, <2>4 DEF WatchdogInv, WatchdogTypeOK, TableExact
    <2>6. \A d \in Callers : calling'[d].next # "none" => Running(wdt_table'[calling'[d].slot])
        BY <1>3, <2>1, <2>3, <2>4 DEF WatchdogInv
    <2> QED BY <2>5, <2>6 DEF WatchdogInv
<1>7. CASE Store(c)
    <2> DEFINE new == [e EXCEPT !.remaining = call.ticks]
    <2>1. new \in Entries /\ new.tcb = e.tcb /\ Running(new)
        BY <1>2, <1>4, <1>5 DEF Entries, Running
    <2>2. WriteEntry(c, new, NoCall)
        BY <1>7 DEF Store
    <2> HIDE DEF new
    <2> QED BY <1>3, <2>1, <2>2, NoCallIs, WriteKeeps
<1>8. CASE Pause(c)
    <2> DEFINE new == [e EXCEPT !.paused = TRUE]
    <2>1. new \in Entries /\ new.tcb = e.tcb /\ Running(new)
        BY <1>2, <1>4 DEF Entries, Running
    <2>2. WriteEntry(c, new, NoCall)
        BY <1>8 DEF Pause
    <2> HIDE DEF new
    <2> QED BY <1>3, <2>1, <2>2, NoCallIs, WriteKeeps
<1>9. CASE Unpause(c)
    <2> DEFINE new == [e EXCEPT !.paused = FALSE]
               then == [call EXCEPT !.next = "load"]
    <2>1. new \in Entries /\ new.tcb = e.tcb /\ Running(new)
        BY <1>2, <1>4 DEF Entries, Running
    <2>2. then \in WatchdogCalls /\ then.slot = call.slot
        BY <1>1 DEF WatchdogCalls, WatchdogSteps
    <2>3. WriteEntry(c, new, then)
        BY <1>9 DEF Unpause
    <2> HIDE DEF new, then
    <2> QED BY <1>3, <2>1, <2>2, <2>3, WriteKeeps
<1>10. CASE SetDeadline(c)
    <2> DEFINE new == [e EXCEPT !.deadline = call.ticks, !.remaining = call.ticks]
    <2>1. new \in Entries /\ new.tcb = e.tcb /\ Running(new)
        BY <1>2, <1>5 DEF Entries, Running
    <2>2. WriteEntry(c, new, NoCall)
        BY <1>10 DEF SetDeadline
    <2> HIDE DEF new
    <2> QED BY <1>3, <2>1, <2>2, NoCallIs, WriteKeeps
<1> QED BY <1>6, <1>7, <1>8, <1>9, <1>10

LEMMA CountedIs ==
    ASSUME NEW e \in Entries
    PROVE  Counted(e) \in Entries /\ Counted(e).tcb = e.tcb /\ (Running(e) => Running(Counted(e)))
<1>1. e.remaining \in 0 .. MaxDeadline /\ e.deadline \in 0 .. MaxDeadline
    BY EntryRecord
<1> DEFINE left == IF e.remaining > 1 THEN e.remaining - 1 ELSE e.deadline
           new == [e EXCEPT !.remaining = left]
<1>2. left \in 0 .. MaxDeadline /\ (e.deadline > 0 => left > 0)
    BY <1>1, WatchdogAssumption
<1> HIDE DEF left
<1>3. new \in Entries /\ new.tcb = e.tcb /\ new.deadline = e.deadline /\ new.remaining = left
    BY <1>2 DEF Entries
<1>4. Running(e) => Running(new)
    BY <1>2, <1>3 DEF Running
<1>5. Counted(e) = IF e.paused \/ e.tcb = NoTask THEN e ELSE new
    BY DEF Counted, left
<1> HIDE DEF new
<1> QED BY <1>3, <1>4, <1>5

LEMMA WatchdogTickKeeps == WatchdogInv /\ WatchdogTick => WatchdogInv'
<1> SUFFICES ASSUME WatchdogInv, WatchdogTick PROVE WatchdogInv'
    OBVIOUS
<1> DEFINE table == [i \in 1 .. MaxEntries |-> IF i <= wdt_count THEN Counted(wdt_table[i])
                                               ELSE wdt_table[i]]
<1>1. wdt_table' = table /\ UNCHANGED <<wdt_count, calling, registered>>
    BY DEF WatchdogTick
<1>2. \A i \in 1 .. MaxEntries : /\ table[i] \in Entries /\ table[i].tcb = wdt_table[i].tcb
                                 /\ Running(wdt_table[i]) => Running(table[i])
    <2>1. ASSUME NEW i \in 1 .. MaxEntries
          PROVE  /\ table[i] \in Entries /\ table[i].tcb = wdt_table[i].tcb
                 /\ Running(wdt_table[i]) => Running(table[i])
        <3>1. wdt_table[i] \in Entries
            BY DEF WatchdogInv, WatchdogTypeOK
        <3>2. table[i] = IF i <= wdt_count THEN Counted(wdt_table[i]) ELSE wdt_table[i]
            OBVIOUS
        <3> QED BY <3>1, <3>2, CountedIs
    <2> QED BY <2>1
<1>3. table \in [1 .. MaxEntries -> Entries]
    BY <1>2
<1> HIDE DEF table
<1>4. WatchdogTypeOK'
    BY <1>1, <1>3 DEF WatchdogInv, WatchdogTypeOK
<1>5. TableExact'
    BY <1>1, <1>2, <1>3, SameTasks DEF WatchdogInv
<1>6. ASSUME NEW c \in Callers, calling'[c].next # "none"
      PROVE  Running(wdt_table'[calling'[c].slot])
    <2>1. calling[c].slot \in 1 .. MaxEntries
        BY CallRecord DEF WatchdogInv, WatchdogTypeOK
    <2> QED BY <1>1, <1>2, <1>6, <2>1 DEF WatchdogInv
<1> QED BY <1>4, <1>5, <1>6 DEF WatchdogInv

LEMMA WatchdogStep == WatchdogInv /\ [Next]_vars => WatchdogInv'
<1> SUFFICES ASSUME WatchdogInv, [Next]_vars PROVE WatchdogInv'
    OBVIOUS
<1>1. CASE WatchdogNext
    <2>1. /\ "set" \in WatchdogSteps /\ {"load", "pause", "unpause"} \subseteq WatchdogSteps
          /\ 1 \in 1 .. MaxDeadline
        BY WatchdogAssumption DEF WatchdogSteps
    <2>2. ASSUME NEW t \in Watched, NEW ticks \in 1 .. MaxDeadline, NEW c \in Callers,
                 LookUp(c, t, "set", ticks)
          PROVE  WatchdogInv'
        BY <2>1, <2>2, LookUpKeeps
    <2>3. ASSUME NEW t \in Watched, NEW c \in Callers, NEW step \in {"load", "pause", "unpause"},
                 LookUp(c, t, step, 1)
          PROVE  WatchdogInv'
        BY <2>1, <2>3, LookUpKeeps
    <2> QED BY <1>1, <2>2, <2>3, RegisterKeeps, UnregisterKeeps, CallerKeeps,
               WatchdogTickKeeps DEF WatchdogNext
<1>2. CASE UNCHANGED watchdog
    BY <1>2 DEF watchdog, WatchdogInv, WatchdogTypeOK, TableExact
<1>3. CASE UNCHANGED vars
    BY <1>3 DEF vars, WatchdogInv, WatchdogTypeOK, TableExact
<1> QED BY <1>1, <1>2, <1>3 DEF Next

\* For any number of tasks, entries and callers, the writes that feeding,
\* pausing, resuming and changing deadlines make outside critical sections never
\* damage the table, whatever was moved since the look-up (watchdog.c:80-240).
THEOREM TableCorrect == Spec => []TableExact
<1>1. WatchdogInv => TableExact
    BY DEF WatchdogInv
<1> QED BY <1>1, WatchdogInitially, WatchdogStep, PTL DEF Spec

-----------------------------------------------------------------------------
\* Memory pools.

LEMMA Multiple ==
    ASSUME NEW n \in Nat \ {0}, NEW x \in Int, x % n = 0
    PROVE  x = n * (x \div n) /\ x \div n \in Int
<1>1. x = n * (x \div n) + (x % n) /\ x \div n \in Int /\ n * (x \div n) \in Int
    BY Quotient
<1> QED BY <1>1

\* A multiple of n lies below n * m exactly if its quotient is below m.
LEMMA BelowMultiple ==
    ASSUME NEW n \in Nat \ {0}, NEW q \in Int, NEW m \in Int
    PROVE  /\ n * q < n * m <=> q < m
           /\ n * q <= n * m <=> q <= m
           /\ q < m => n * q + n <= n * m
<1>1. n * q \in Int /\ n * m \in Int
    OBVIOUS
<1>2. CASE q < m
    <2>1. n * (m - q) >= n
        BY <1>2
    <2>2. n * (m - q) = n * m - n * q
        OBVIOUS
    <2> QED BY <1>1, <1>2, <2>1, <2>2
<1>3. CASE q > m
    <2>1. n * (q - m) >= n
        BY <1>3
    <2>2. n * (q - m) = n * q - n * m
        OBVIOUS
    <2> QED BY <1>1, <1>3, <2>1, <2>2
<1>4. CASE q = m
    BY <1>1, <1>4
<1> QED BY <1>2, <1>3, <1>4

\* Rounding up to a multiple of n: POOL_ALIGN_SIZE and ALIGN_UP.
LEMMA RoundUp ==
    ASSUME NEW n \in Nat \ {0}, NEW s \in Nat
    PROVE  LET r == ((s + n - 1) \div n) * n
           IN  r \in Nat /\ r >= s /\ r < s + n /\ r % n = 0
<1> DEFINE x == s + n - 1
           q == x \div n
           r == q * n
<1>1. x \in Int
    OBVIOUS
<1> HIDE DEF x
<1>2. x = n * q + (x % n) /\ x % n \in 0 .. n - 1 /\ q \in Int
    BY <1>1, Quotient
<1>3. r = n * q /\ n * q \in Int
    BY <1>2
<1> HIDE DEF q, r
<1>4. r \in Int /\ r >= s /\ r < s + n
    BY <1>1, <1>2, <1>3 DEF x
<1>5. r = n * q + 0 /\ 0 \in 0 .. n - 1
    BY <1>3
<1>6. r % n = 0
    BY <1>2, <1>4, <1>5, Remainder
<1> QED BY <1>4, <1>6 DEF r, q, x

\* Remainders of numbers that are less than the modulus apart differ.
LEMMA RemaindersDiffer ==
    ASSUME NEW n \in Nat \ {0}, NEW x \in Int, NEW y \in Int, x < y, y - x < n
    PROVE  x % n # y % n
<1> SUFFICES ASSUME x % n = y % n PROVE FALSE
    OBVIOUS
<1> DEFINE a == x \div n
           b == y \div n
           r == x % n
<1>1. x = n * a + r /\ y = n * b + r /\ a \in Int /\ b \in Int /\ r \in Int
    BY Quotient
<1> HIDE DEF a, b, r
<1>2. n * a < n * b /\ n * b < n * a + n
    BY <1>1
<1>3. a < b
    BY <1>1, <1>2, BelowMultiple
<1>4. n * a + n <= n * b
    BY <1>1, <1>3, BelowMultiple
<1>5. n * a \in Int /\ n * b \in Int
    BY <1>1
<1> QED BY <1>2, <1>4, <1>5

\* Wrapping at a multiple of n does not change whether n divides a number.
LEMMA WrapAligned ==
    ASSUME NEW n \in Nat \ {0}, NEW m \in Nat \ {0}, m % n = 0, NEW x \in Int, x % n = 0
    PROVE  (x % m) % n = 0
<1> DEFINE k == m \div n
           a == x \div n
           q == x \div m
           r == x % m
<1>1. m = n * k /\ k \in Int
    BY Multiple
<1>2. x = n * a /\ a \in Int
    BY Multiple
<1>3. x = m * q + r /\ q \in Int /\ r \in Int
    BY Quotient
<1> HIDE DEF k, a, q, r
<1>4. (n * k) * q = n * (k * q) /\ n * a - n * (k * q) = n * (a - k * q)
    BY <1>1, <1>2, <1>3
<1>5. r = n * a - (n * k) * q
    BY <1>1, <1>2, <1>3
<1>6. r = n * (a - k * q) + 0 /\ a - k * q \in Int /\ 0 \in 0 .. n - 1
    BY <1>1, <1>2, <1>3, <1>4, <1>5
<1>7. r % n = 0
    BY <1>3, <1>6, Remainder
<1> QED BY <1>7 DEF r

LEMMA PointerFits == Pointer \in Nat \ {0} /\ SizeModulus \in Nat \ {0} /\ Pointer <= SizeModulus
<1>1. Pointer \in Nat \ {0} /\ SizeModulus \in Nat \ {0} /\ SizeModulus % Pointer = 0
    BY PoolAssumption
<1> DEFINE k == SizeModulus \div Pointer
<1>2. SizeModulus = Pointer * k /\ k \in Int
    BY <1>1, Multiple
<1> HIDE DEF k
<1>3. Pointer * 0 < Pointer * k
    BY <1>1, <1>2
<1>4. 0 < k
    BY <1>1, <1>2, <1>3, BelowMultiple
<1>5. Pointer * 0 + Pointer <= Pointer * k
    BY <1>1, <1>2, <1>4, BelowMultiple
<1> QED BY <1>1, <1>2, <1>5

\* POOL_ALIGN_SIZE rounds up, or wraps and gives 0.
LEMMA PoolAlignIs ==
    ASSUME NEW s \in 0 .. SizeModulus - 1
    PROVE  /\ PoolAlign(s) \in Nat /\ PoolAlign(s) % Pointer = 0
           /\ PoolAlign(s) = 0 \/ (PoolAlign(s) >= s /\ PoolAlign(s) < s + Pointer /\ PoolAlign(s) <= SizeModulus)
           /\ s <= SizeModulus - Pointer => PoolAlign(s) >= s
<1> DEFINE x == s + Pointer - 1
           r == (x \div Pointer) * Pointer
<1>1. /\ Pointer \in Nat \ {0} /\ SizeModulus \in Nat \ {0} /\ Pointer <= SizeModulus
      /\ s \in Nat /\ x \in Nat
    BY PointerFits
<1>2. r \in Nat /\ r >= s /\ r < s + Pointer /\ r % Pointer = 0
    BY <1>1, RoundUp
<1> HIDE DEF r
<1>3. CASE x < SizeModulus
    <2>1. x % SizeModulus = x
        <3>1. x = SizeModulus * 0 + x /\ x \in 0 .. SizeModulus - 1
            BY <1>1, <1>3
        <3> HIDE DEF x
        <3> QED BY <1>1, <3>1, Remainder
    <2>2. PoolAlign(s) = r
        BY <2>1 DEF PoolAlign, r
    <2>3. r <= SizeModulus
        BY <1>1, <1>2, <1>3
    <2> QED BY <1>2, <2>2, <2>3
<1>4. CASE x >= SizeModulus
    <2> DEFINE y == x - SizeModulus
    <2>1. y \in 0 .. Pointer - 1 /\ y \in 0 .. SizeModulus - 1 /\ x = SizeModulus * 1 + y
        BY <1>1, <1>4
    <2>2. x \in Int
        BY <1>1
    <2> HIDE DEF x, y
    <2>3. x % SizeModulus = y
        BY <1>1, <2>1, <2>2, Remainder
    <2>4. y \div Pointer = 0
        <3>1. y = Pointer * (y \div Pointer) + (y % Pointer) /\ y % Pointer \in 0 .. Pointer - 1
              /\ y \div Pointer \in Int
            BY <1>1, <2>1, Quotient
        <3> DEFINE q == y \div Pointer
                   t == y % Pointer
        <3> HIDE DEF q, t
        <3>2. y = Pointer * q + t /\ t \in 0 .. Pointer - 1 /\ q \in Int /\ Pointer * q \in Int
            BY <1>1, <3>1 DEF q, t
        <3>3. Pointer * q < Pointer * 1 /\ Pointer * (-1) < Pointer * q
            BY <1>1, <2>1, <3>2
        <3>4. q < 1 /\ -1 < q
            BY <1>1, <3>2, <3>3, BelowMultiple
        <3>5. q = 0
            BY <3>2, <3>4
        <3> QED BY <3>5 DEF q
    <2>5. PoolAlign(s) = 0
        BY <1>1, <2>3, <2>4 DEF PoolAlign, x
    <2>6. 0 % Pointer = 0
        <3>1. 0 = Pointer * 0 + 0 /\ 0 \in 0 .. Pointer - 1
            BY <1>1
        <3> QED BY <1>1, <3>1, Remainder
    <2>7. ~(s <= SizeModulus - Pointer)
        BY <1>1, <1>4 DEF x
    <2> QED BY <2>5, <2>6, <2>7
<1> QED BY <1>1, <1>3, <1>4

LEMMA PointerAligned == Pointer % Pointer = 0
<1>1. Pointer \in Nat \ {0} /\ Pointer = Pointer * 1 + 0 /\ 0 \in 0 .. Pointer - 1
    BY PointerFits
<1> QED BY <1>1, Remainder

LEMMA StrideIs ==
    ASSUME NEW b \in 0 .. SizeModulus - 1
    PROVE  /\ Stride(b) \in Nat \ {0} /\ Stride(b) % Pointer = 0
           /\ b <= SizeModulus - Pointer => Stride(b) >= b
BY PoolAlignIs, PointerFits, PointerAligned DEF Stride

LEMMA AlignedIs ==
    ASSUME NEW s \in 1 .. SizeModulus - 1
    PROVE  Aligned(s) \in Nat /\ Aligned(s) <= SizeModulus /\ Aligned(s) % Pointer = 0
<1>1. s \in 0 .. SizeModulus - 1 /\ s \in Nat /\ s > 0
    BY PointerFits
<1>2. /\ PoolAlign(s) \in Nat /\ PoolAlign(s) % Pointer = 0
      /\ PoolAlign(s) = 0 \/ (PoolAlign(s) >= s /\ PoolAlign(s) <= SizeModulus)
    BY <1>1, PoolAlignIs
<1>3. CASE PoolAlign(s) < s
    <2>1. PoolAlign(s) = 0
        BY <1>1, <1>2, <1>3
    <2>2. Aligned(s) = Pointer
        BY <1>3, <2>1, PointerFits DEF Aligned
    <2> QED BY <2>2, PointerFits, PointerAligned
<1>4. CASE ~(PoolAlign(s) < s)
    <2>1. Aligned(s) = PoolAlign(s)
        BY <1>4 DEF Aligned
    <2> QED BY <1>1, <1>2, <1>4, <2>1
<1> QED BY <1>3, <1>4

\* A sequence without repetition has as many elements as its length says.
LEMMA DistinctLength ==
    ASSUME NEW S, NEW s \in Seq(S), \A i, j \in 1 .. Len(s) : s[i] = s[j] => i = j
    PROVE  /\ IsFiniteSet({s[i] : i \in 1 .. Len(s)})
           /\ Cardinality({s[i] : i \in 1 .. Len(s)}) = Len(s)
<1> DEFINE n == Len(s)
           T == {s[i] : i \in 1 .. n}
           f == [i \in 1 .. n |-> s[i]]
<1>1. n \in Nat
    OBVIOUS
<1>2. \A i, j \in 1 .. n : s[i] = s[j] => i = j
    OBVIOUS
<1> HIDE DEF n
<1>3. f \in [1 .. n -> T]
    OBVIOUS
<1>4. \A i, j \in 1 .. n : f[i] = f[j] => i = j
    BY <1>2
<1>5. \A t \in T : \E i \in 1 .. n : f[i] = t
    OBVIOUS
<1> HIDE DEF f, T
<1>6. f \in Bijection(1 .. n, T)
    BY <1>3, <1>4, <1>5 DEF Bijection, Injection, Surjection, IsInjective
<1>7. ExistsBijection(1 .. n, T)
    BY <1>6 DEF ExistsBijection
<1>8. Cardinality(T) = n /\ IsFiniteSet(T)
    BY <1>1, <1>7, FS_CountingElements, FS_NatBijection
<1> QED BY <1>8 DEF T, n

FreeBlocks == {free_list[i] : i \in 1 .. Len(free_list)}

\* The addresses of the n blocks of a pool.
Grid(start, n, stride) == {(start + stride * i) % SizeModulus : i \in 0 .. n - 1}

\* The inductive invariant: the free blocks and those in use are the grid.
PoolInv ==
    LET stride == Stride(pool.block_size)
    IN  /\ pool \in [start : Nat, end : Nat, block_size : 0 .. SizeModulus - 1, total : Nat]
        /\ buffer \in [from : Nat, to : 0 .. SizeModulus]
        /\ stride * pool.total < SizeModulus
        /\ pool.end = (pool.start + stride * pool.total) % SizeModulus
        /\ pool.start % Pointer = 0 /\ pool.start <= SizeModulus
        /\ pool.start \in buffer.from .. buffer.to =>
              pool.start + stride * pool.total <= buffer.to
        /\ free_list \in Seq(Nat)
        /\ \A i, j \in 1 .. Len(free_list) : free_list[i] = free_list[j] => i = j
        /\ Len(free_list) = free_count
        /\ FreeBlocks \cap held = {}
        /\ FreeBlocks \cup held = Grid(pool.start, pool.total, stride)
        /\ min_free_count \in Nat /\ min_free_count <= free_count

\* Blocks as many as fit below the modulus are different, also if they wrap.
LEMMA BlocksDiffer ==
    ASSUME NEW start \in Nat, NEW n \in Nat, NEW stride \in Nat \ {0}, stride * n < SizeModulus,
           NEW i \in 0 .. n - 1, NEW j \in 0 .. n - 1,
           (start + stride * i) % SizeModulus = (start + stride * j) % SizeModulus
    PROVE  i = j
<1>1. \A a, b \in 0 .. n - 1 : a < b =>
         (start + stride * a) % SizeModulus # (start + stride * b) % SizeModulus
    <2> SUFFICES ASSUME NEW a \in 0 .. n - 1, NEW b \in 0 .. n - 1, a < b
                 PROVE  (start + stride * a) % SizeModulus # (start + stride * b) % SizeModulus
        OBVIOUS
    <2>1. stride * a \in Nat /\ stride * b \in Nat /\ stride * n \in Nat
        OBVIOUS
    <2>2. stride * a < stride * b /\ stride * b < stride * n
        BY BelowMultiple
    <2> DEFINE x == start + stride * a
               y == start + stride * b
    <2>3. x \in Int /\ y \in Int /\ x < y /\ y - x < SizeModulus
        BY <2>1, <2>2, PointerFits
    <2> HIDE DEF x, y
    <2>4. x % SizeModulus # y % SizeModulus
        BY <2>3, RemaindersDiffer, PointerFits
    <2> QED BY <2>4 DEF x, y
<1> QED BY <1>1

LEMMA GridIs ==
    ASSUME NEW start \in Nat, NEW n \in Nat, NEW stride \in Nat \ {0}, stride * n < SizeModulus
    PROVE  /\ IsFiniteSet(Grid(start, n, stride))
           /\ Cardinality(Grid(start, n, stride)) = n
           /\ Grid(start, n, stride) \subseteq Nat
<1> DEFINE s == [i \in 1 .. n |-> (start + stride * (i - 1)) % SizeModulus]
           G == Grid(start, n, stride)
<1>1. \A i \in Int : (start + stride * i) % SizeModulus \in Nat
    <2>1. ASSUME NEW i \in Int PROVE (start + stride * i) % SizeModulus \in Nat
        <3> DEFINE x == start + stride * i
        <3>1. x \in Int
            OBVIOUS
        <3> HIDE DEF x
        <3>2. x % SizeModulus \in 0 .. SizeModulus - 1
            BY <3>1, Quotient, PointerFits
        <3> QED BY <3>2, PointerFits DEF x
    <2> QED BY <2>1
<1>2. s \in Seq(Nat) /\ Len(s) = n
    <2>1. \A i \in 1 .. n : i - 1 \in Int
        OBVIOUS
    <2>2. s \in [1 .. n -> Nat]
        BY <1>1, <2>1
    <2> QED BY <2>2
<1>3. \A i, j \in 1 .. n : s[i] = s[j] => i = j
    <2> SUFFICES ASSUME NEW i \in 1 .. n, NEW j \in 1 .. n, s[i] = s[j] PROVE i = j
        OBVIOUS
    <2> DEFINE a == i - 1
               b == j - 1
    <2>1. a \in 0 .. n - 1 /\ b \in 0 .. n - 1 /\ i = a + 1 /\ j = b + 1
        OBVIOUS
    <2>2. (start + stride * a) % SizeModulus = (start + stride * b) % SizeModulus
        OBVIOUS
    <2> HIDE DEF a, b, s
    <2>3. a = b
        BY <2>1, <2>2, BlocksDiffer
    <2> QED BY <2>1, <2>3
<1>4. {s[i] : i \in 1 .. Len(s)} = G
    <2>1. ASSUME NEW p \in G PROVE \E i \in 1 .. n : s[i] = p
        <3>1. PICK i \in 0 .. n - 1 : p = (start + stride * i) % SizeModulus
            BY DEF Grid
        <3>2. i + 1 \in 1 .. n /\ (i + 1) - 1 = i
            OBVIOUS
        <3> QED BY <3>1, <3>2
    <2>2. ASSUME NEW i \in 1 .. n PROVE s[i] \in G
        <3>1. i - 1 \in 0 .. n - 1
            OBVIOUS
        <3> QED BY <3>1 DEF Grid
    <2> HIDE DEF s, G
    <2> QED BY <1>2, <2>1, <2>2
<1> HIDE DEF s, G
<1>5. IsFiniteSet(G) /\ Cardinality(G) = n
    BY <1>2, <1>3, <1>4, DistinctLength
<1>6. G \subseteq Nat
    BY <1>1 DEF G, Grid
<1> QED BY <1>5, <1>6 DEF G

\* A pool that does not reach the modulus does not wrap.
LEMMA GridStraight ==
    ASSUME NEW start \in Nat, NEW n \in Nat, NEW stride \in Nat \ {0},
           start + stride * n <= SizeModulus, NEW i \in 0 .. n - 1
    PROVE  /\ (start + stride * i) % SizeModulus = start + stride * i
           /\ stride * i \in Nat /\ stride * i + stride <= stride * n
<1>1. stride * i \in Nat /\ stride * n \in Nat
    OBVIOUS
<1>2. stride * i + stride <= stride * n
    BY BelowMultiple
<1> DEFINE x == start + stride * i
<1>3. x \in 0 .. SizeModulus - 1 /\ x = SizeModulus * 0 + x
    BY <1>1, <1>2, PointerFits
<1> HIDE DEF x
<1>4. x % SizeModulus = x
    BY <1>3, Remainder, PointerFits
<1> QED BY <1>1, <1>2, <1>4 DEF x

LEMMA GridInside ==
    ASSUME NEW start \in Nat, NEW n \in Nat, NEW stride \in Nat \ {0},
           start + stride * n <= SizeModulus, NEW p \in Grid(start, n, stride)
    PROVE  /\ p \in Nat /\ p >= start /\ p + stride <= start + stride * n
           /\ \A q \in Grid(start, n, stride) : q > p => q >= p + stride
<1>1. PICK i \in 0 .. n - 1 : p = (start + stride * i) % SizeModulus
    BY DEF Grid
<1>2. p = start + stride * i /\ stride * i \in Nat /\ stride * i + stride <= stride * n
    BY <1>1, GridStraight
<1>3. stride * n \in Nat
    OBVIOUS
<1>4. ASSUME NEW q \in Grid(start, n, stride), q > p PROVE q >= p + stride
    <2>1. PICK j \in 0 .. n - 1 : q = (start + stride * j) % SizeModulus
        BY DEF Grid
    <2>2. q = start + stride * j /\ stride * j \in Nat
        BY <2>1, GridStraight
    <2>3. stride * i < stride * j
        BY <1>2, <1>4, <2>2
    <2>4. i < j
        BY <2>3, BelowMultiple
    <2>5. stride * i + stride <= stride * j
        BY <2>4, BelowMultiple
    <2> QED BY <1>2, <2>2, <2>5
<1> QED BY <1>2, <1>3, <1>4

LEMMA PoolFollows == PoolInv => PoolExact /\ MemPoolTypeOK
<1> SUFFICES ASSUME PoolInv PROVE PoolExact /\ MemPoolTypeOK
    OBVIOUS
<1> DEFINE stride == Stride(pool.block_size)
           G == Grid(pool.start, pool.total, stride)
<1>1. /\ pool.start \in Nat /\ pool.total \in Nat /\ pool.block_size \in 0 .. SizeModulus - 1
      /\ pool.block_size \in Nat
      /\ pool.end \in Nat /\ buffer.from \in Nat /\ buffer.to \in 0 .. SizeModulus
      /\ buffer.to \in Nat /\ buffer.to <= SizeModulus
    BY PointerFits DEF PoolInv
<1>2. /\ stride \in Nat \ {0} /\ stride % Pointer = 0
      /\ pool.block_size <= SizeModulus - Pointer => stride >= pool.block_size
    BY <1>1, StrideIs
<1>3. stride * pool.total < SizeModulus
    BY DEF PoolInv
<1>4. FreeBlocks \cup held = G /\ FreeBlocks \cap held = {}
    BY DEF PoolInv
<1>5. IsFiniteSet(FreeBlocks) /\ Cardinality(FreeBlocks) = Len(free_list)
    BY DistinctLength DEF PoolInv, FreeBlocks
<1>6. Len(free_list) = free_count /\ free_count \in Nat /\ min_free_count \in Nat
      /\ min_free_count <= free_count
    BY DEF PoolInv
<1> HIDE DEF stride
<1>7. IsFiniteSet(G) /\ Cardinality(G) = pool.total /\ G \subseteq Nat
    BY <1>1, <1>2, <1>3, GridIs
<1>8. \A p \in G : p % Pointer = 0
    <2> SUFFICES ASSUME NEW i \in 0 .. pool.total - 1
                 PROVE  ((pool.start + stride * i) % SizeModulus) % Pointer = 0
        BY DEF Grid
    <2>1. Pointer \in Nat \ {0} /\ SizeModulus \in Nat \ {0} /\ SizeModulus % Pointer = 0
        BY PoolAssumption
    <2> DEFINE a == pool.start \div Pointer
               b == stride \div Pointer
               x == pool.start + stride * i
    <2>2. pool.start = Pointer * a /\ a \in Int
        <3>1. pool.start % Pointer = 0 /\ pool.start \in Int
            BY <1>1 DEF PoolInv
        <3> QED BY <2>1, <3>1, Multiple
    <2>3. stride = Pointer * b /\ b \in Int
        BY <1>2, <2>1, Multiple
    <2> HIDE DEF a, b
    <2>4. Pointer * a + (Pointer * b) * i = Pointer * (a + b * i) /\ a + b * i \in Int
        BY <2>1, <2>2, <2>3
    <2>5. x = Pointer * (a + b * i) + 0
        BY <2>1, <2>2, <2>3, <2>4
    <2>6. x \in Int /\ 0 \in 0 .. Pointer - 1
        BY <1>1, <1>2, <2>1
    <2> HIDE DEF x
    <2>7. x % Pointer = 0
        BY <2>1, <2>4, <2>5, <2>6, Remainder
    <2>8. (x % SizeModulus) % Pointer = 0
        BY <2>1, <2>6, <2>7, WrapAligned
    <2> QED BY <2>8 DEF x
<1>9. FreeBlocks \subseteq G /\ held \subseteq G
    BY <1>4
<1>10. Cardinality(FreeBlocks) <= Cardinality(G)
    BY <1>7, <1>9, FS_Subset
<1>11. ASSUME NEW p \in G, LargeEnough
       PROVE  /\ p >= buffer.from /\ p + pool.block_size <= buffer.to
              /\ \A q \in G : q > p => q >= p + pool.block_size
    <2>1. /\ pool.start >= buffer.from /\ stride >= pool.block_size
          /\ pool.start + stride * pool.total <= buffer.to
        BY <1>1, <1>2, <1>11 DEF LargeEnough, PoolInv, stride
    <2>2. stride * pool.total \in Nat
        BY <1>1, <1>2
    <2>3. pool.start + stride * pool.total <= SizeModulus
        BY <1>1, <2>1, <2>2, PointerFits
    <2>4. /\ p \in Nat /\ p >= pool.start /\ p + stride <= pool.start + stride * pool.total
          /\ \A q \in G : q > p => q >= p + stride
        BY <1>1, <1>2, <1>11, <2>3, GridInside
    <2>5. p >= buffer.from /\ p + pool.block_size <= buffer.to
        BY <1>1, <1>2, <2>1, <2>2, <2>4
    <2>6. \A q \in G : q > p => q >= p + pool.block_size
        BY <1>1, <1>2, <1>7, <2>1, <2>4
    <2> QED BY <2>5, <2>6
<1> HIDE DEF G
<1>12. MemPoolTypeOK
    <2>1. free_count <= pool.total
        BY <1>5, <1>6, <1>7, <1>10
    <2>2. held \subseteq Nat
        BY <1>7, <1>9
    <2>3. free_list \in Seq(Nat)
        BY DEF PoolInv
    <2> QED BY <1>1, <1>6, <2>1, <2>2, <2>3 DEF MemPoolTypeOK
<1>13. PoolExact
    BY <1>4, <1>5, <1>6, <1>7, <1>8, <1>11 DEF PoolExact, FreeBlocks
<1> QED BY <1>12, <1>13

LEMMA PoolInitially == MemPoolInit => PoolInv
<1> SUFFICES ASSUME MemPoolInit PROVE PoolInv
    OBVIOUS
<1>1. /\ pool = [start |-> 0, end |-> 0, block_size |-> 0, total |-> 0]
      /\ buffer = [from |-> 0, to |-> 0]
      /\ free_list = << >> /\ free_count = 0 /\ min_free_count = 0 /\ held = {}
    BY DEF MemPoolInit, NoPool
<1>2. \A n \in Nat \ {0} : 0 = n * 0 + 0 /\ 0 \in 0 .. n - 1
    OBVIOUS
<1>3. 0 % Pointer = 0 /\ 0 % SizeModulus = 0
    BY <1>2, Remainder, PointerFits
<1>4. Stride(0) \in Nat /\ 0 \in 0 .. SizeModulus - 1
    <2>1. 0 \in 0 .. SizeModulus - 1
        BY PointerFits
    <2> QED BY <2>1, StrideIs
<1>5. FreeBlocks = {}
    BY <1>1 DEF FreeBlocks
<1>6. pool.start + Stride(pool.block_size) * pool.total = 0 /\ Stride(pool.block_size) * pool.total = 0
    BY <1>1, <1>4
<1>7. FreeBlocks \cup held = Grid(pool.start, pool.total, Stride(pool.block_size))
    BY <1>1, <1>5 DEF Grid
<1> QED BY <1>1, <1>3, <1>4, <1>5, <1>6, <1>7, PointerFits DEF PoolInv

\* os_mempool_create: whatever is left of the buffer, below the modulus, holds
\* all the blocks.
LEMMA CreateKeeps ==
    ASSUME PoolInv, NEW start \in BufferStarts, NEW size \in BufferSizes,
           NEW block_size \in BlockSizes, Create(start, size, block_size)
    PROVE  PoolInv'
<1> DEFINE first == Aligned(start)
           room == size - (first - start)
           usable == room % SizeModulus
           stride == Stride(block_size)
           blocks == usable \div stride
<1>1. /\ start \in 1 .. SizeModulus - 1 /\ size \in 1 .. SizeModulus - 1
      /\ block_size \in 0 .. SizeModulus - 1
      /\ start \in Nat /\ size \in Nat /\ size < SizeModulus /\ start + size <= SizeModulus
      /\ Pointer \in Nat \ {0} /\ SizeModulus \in Nat \ {0}
    BY PoolAssumption
<1>2. first \in Nat /\ first <= SizeModulus /\ first % Pointer = 0
    BY <1>1, AlignedIs
<1>3. stride \in Nat \ {0}
    BY <1>1, StrideIs
<1>4. /\ pool = NoPool /\ blocks > 0
      /\ pool' = [start |-> first, end |-> (first + blocks * stride) % SizeModulus,
                  block_size |-> block_size, total |-> blocks]
      /\ free_list' = [i \in 1 .. blocks |-> (first + (blocks - i) * stride) % SizeModulus]
      /\ free_count' = blocks /\ min_free_count' = blocks
      /\ buffer' = [from |-> start, to |-> start + size]
      /\ held' = held
    BY DEF Create
<1>5. room \in Int /\ usable \in 0 .. SizeModulus - 1 /\ usable \in Nat
    <2>1. room \in Int
        BY <1>1, <1>2
    <2> HIDE DEF room
    <2>2. room % SizeModulus \in 0 .. SizeModulus - 1
        BY <1>1, <2>1, Quotient
    <2> QED BY <1>1, <2>1, <2>2
<1>6. first \in start .. start + size => usable = room /\ first + room = start + size
    <2> SUFFICES ASSUME first \in start .. start + size
                 PROVE  usable = room /\ first + room = start + size
        OBVIOUS
    <2>1. /\ room = SizeModulus * 0 + room /\ room \in 0 .. SizeModulus - 1
          /\ first + room = start + size
        BY <1>1, <1>2
    <2> HIDE DEF room, first
    <2> QED BY <1>1, <2>1, Remainder
<1> HIDE DEF first, stride, room, usable
<1>7. usable = stride * blocks + (usable % stride) /\ usable % stride \in Nat /\ blocks \in Int
    <2>1. usable = stride * (usable \div stride) + (usable % stride)
          /\ usable % stride \in 0 .. stride - 1 /\ usable \div stride \in Int
        BY <1>3, <1>5, Quotient
    <2> QED BY <1>3, <2>1
<1> HIDE DEF blocks
<1>8. /\ stride * blocks \in Nat /\ stride * blocks <= usable /\ blocks * stride = stride * blocks
      /\ blocks \in Nat /\ stride * blocks < SizeModulus
    BY <1>1, <1>3, <1>4, <1>5, <1>7
<1>9. first \in start .. start + size => first + stride * blocks <= start + size
    BY <1>1, <1>2, <1>5, <1>6, <1>8
<1>10. held = {}
    <2>1. pool.start = 0 /\ pool.total = 0 /\ pool.block_size = 0
        BY <1>4 DEF NoPool
    <2>2. Grid(pool.start, pool.total, Stride(pool.block_size)) = {}
        BY <2>1 DEF Grid
    <2> QED BY <2>2 DEF PoolInv
<1>11. \A i \in 1 .. blocks :
          /\ blocks - i \in 0 .. blocks - 1
          /\ (blocks - i) * stride = stride * (blocks - i)
          /\ (first + stride * (blocks - i)) % SizeModulus \in Nat
    <2>1. \A i \in 1 .. blocks :
             /\ blocks - i \in 0 .. blocks - 1
             /\ (blocks - i) * stride = stride * (blocks - i)
        BY <1>3, <1>8
    <2>2. ASSUME NEW i \in 1 .. blocks PROVE (first + stride * (blocks - i)) % SizeModulus \in Nat
        <3>1. (first + stride * (blocks - i)) % SizeModulus \in Grid(first, blocks, stride)
            BY <2>1 DEF Grid
        <3> QED BY <1>2, <1>3, <1>8, <3>1, GridIs
    <2> QED BY <2>1, <2>2
<1>12. free_list' \in Seq(Nat) /\ Len(free_list') = blocks
       /\ \A i \in 1 .. blocks : free_list'[i] = (first + stride * (blocks - i)) % SizeModulus
    <2>1. free_list' \in [1 .. blocks -> Nat]
        BY <1>4, <1>11
    <2> QED BY <1>4, <1>8, <1>11, <2>1
<1>13. \A i, j \in 1 .. blocks : free_list'[i] = free_list'[j] => i = j
    <2> SUFFICES ASSUME NEW i \in 1 .. blocks, NEW j \in 1 .. blocks,
                        free_list'[i] = free_list'[j]
                 PROVE  i = j
        OBVIOUS
    <2> DEFINE a == blocks - i
               b == blocks - j
    <2>1. a \in 0 .. blocks - 1 /\ b \in 0 .. blocks - 1
        BY <1>11
    <2>2. (first + stride * a) % SizeModulus = (first + stride * b) % SizeModulus
        BY <1>12
    <2> HIDE DEF a, b
    <2>3. a = b
        BY <1>2, <1>3, <1>8, <2>1, <2>2, BlocksDiffer
    <2> QED BY <1>8, <2>3 DEF a, b
<1>14. FreeBlocks' = Grid(first, blocks, stride)
    <2>1. FreeBlocks' = {free_list'[i] : i \in 1 .. blocks}
        BY <1>12 DEF FreeBlocks
    <2>2. \A i \in 1 .. blocks : free_list'[i] \in Grid(first, blocks, stride)
        BY <1>11, <1>12 DEF Grid
    <2>3. ASSUME NEW p \in Grid(first, blocks, stride)
          PROVE  \E i \in 1 .. blocks : free_list'[i] = p
        <3>1. PICK k \in 0 .. blocks - 1 : p = (first + stride * k) % SizeModulus
            BY DEF Grid
        <3>2. blocks - k \in 1 .. blocks /\ blocks - (blocks - k) = k
            BY <1>8
        <3> QED BY <1>12, <3>1, <3>2
    <2> QED BY <2>1, <2>2, <2>3
<1>15. /\ pool'.start = first /\ pool'.total = blocks /\ pool'.block_size = block_size
       /\ pool'.end = (first + stride * blocks) % SizeModulus
       /\ Stride(pool'.block_size) = stride
       /\ buffer'.from = start /\ buffer'.to = start + size
    BY <1>4, <1>8 DEF stride
<1>16. /\ pool' \in [start : Nat, end : Nat, block_size : 0 .. SizeModulus - 1, total : Nat]
       /\ buffer' \in [from : Nat, to : 0 .. SizeModulus]
    <2> DEFINE end == first + stride * blocks
    <2>1. end \in Int
        BY <1>2, <1>8
    <2> HIDE DEF end
    <2>2. end % SizeModulus \in Nat
        BY <1>1, <2>1, Quotient
    <2> QED BY <1>1, <1>2, <1>4, <1>8, <2>2 DEF end
<1> QED
    BY <1>1, <1>2, <1>4, <1>8, <1>9, <1>10, <1>12, <1>13, <1>14, <1>15, <1>16 DEF PoolInv

\* os_mempool_alloc takes the first free block.
LEMMA PoolAllocKeeps ==
    ASSUME PoolInv, PoolAlloc
    PROVE  PoolInv'
<1> DEFINE n == Len(free_list)
<1>1. /\ free_list \in Seq(Nat) /\ n \in Nat /\ n = free_count /\ free_count > 0
      /\ min_free_count \in Nat
      /\ \A i, j \in 1 .. n : free_list[i] = free_list[j] => i = j
    BY DEF PoolInv, PoolAlloc
<1>2. /\ free_list' \in Seq(Nat) /\ Len(free_list') = n - 1
      /\ \A i \in 1 .. n - 1 : free_list'[i] = free_list[i + 1]
      /\ Head(free_list) = free_list[1]
    BY <1>1 DEF PoolAlloc
<1>3. /\ free_count' = n - 1 /\ min_free_count' \in Nat /\ min_free_count' <= free_count'
      /\ held' = held \cup {free_list[1]} /\ pool' = pool /\ buffer' = buffer
    BY <1>1, <1>2 DEF PoolAlloc
<1> HIDE DEF n
<1>4. \A i \in 1 .. n - 1 : i + 1 \in 1 .. n /\ i + 1 # 1
    BY <1>1
<1>5. \A i, j \in 1 .. n - 1 : free_list'[i] = free_list'[j] => i = j
    BY <1>1, <1>2, <1>4
<1>6. FreeBlocks = {free_list[i] : i \in 1 .. n}
    BY DEF FreeBlocks, n
<1>7. FreeBlocks' = FreeBlocks \ {free_list[1]} /\ free_list[1] \in FreeBlocks
    <2>1. FreeBlocks' = {free_list'[i] : i \in 1 .. n - 1}
        BY <1>2 DEF FreeBlocks
    <2>2. 1 \in 1 .. n
        BY <1>1
    <2>3. \A i \in 1 .. n - 1 : free_list'[i] \in FreeBlocks \ {free_list[1]}
        BY <1>1, <1>2, <1>4, <1>6, <2>2
    <2>4. ASSUME NEW i \in 1 .. n, i # 1 PROVE \E k \in 1 .. n - 1 : free_list'[k] = free_list[i]
        <3>1. i - 1 \in 1 .. n - 1 /\ (i - 1) + 1 = i
            BY <1>1, <2>4
        <3> QED BY <1>2, <3>1
    <2> QED BY <1>6, <2>1, <2>2, <2>3, <2>4
<1>8. FreeBlocks' \cap held' = {} /\ FreeBlocks' \cup held' = FreeBlocks \cup held
    BY <1>3, <1>7 DEF PoolInv
<1> QED BY <1>2, <1>3, <1>5, <1>8 DEF PoolInv

\* os_mempool_free: in a pool that wraps no address passes its checks; in another
\* one an address that does is on the grid, so it is a block, and not a free one.
LEMMA PoolFreeKeeps ==
    ASSUME PoolInv, NEW ptr \in NotFree, PoolFree(ptr), Accepted(ptr)
    PROVE  PoolInv'
<1> DEFINE n == Len(free_list)
           stride == Stride(pool.block_size)
           total == pool.total
           start == pool.start
<1>1. /\ free_list \in Seq(Nat) /\ n \in Nat /\ n = free_count
      /\ min_free_count \in Nat /\ min_free_count <= free_count
      /\ \A i, j \in 1 .. n : free_list[i] = free_list[j] => i = j
      /\ start \in Nat /\ total \in Nat /\ pool.block_size \in 0 .. SizeModulus - 1
      /\ buffer.from \in Nat /\ buffer.to \in Nat
      /\ start <= SizeModulus /\ stride * total < SizeModulus
      /\ pool.end = (start + stride * total) % SizeModulus
    BY PointerFits DEF PoolInv
<1>2. ptr \in Int /\ \A i \in 1 .. n : free_list[i] # ptr
    <2>1. held \subseteq Nat
        BY PoolFollows DEF MemPoolTypeOK
    <2> QED BY <1>1, <2>1 DEF NotFree
<1>3. ptr >= start /\ ptr < pool.end /\ (ptr - start) % stride = 0
    BY DEF Accepted
<1>4. ptr \in Nat /\ ptr - start \in Nat
    BY <1>1, <1>2, <1>3
<1>5. stride \in Nat \ {0}
    BY <1>1, StrideIs
<1> HIDE DEF n, stride, total, start
<1>6. pool.end = start + stride * total /\ start + stride * total < SizeModulus
    <2> DEFINE x == start + stride * total
    <2>1. stride * total \in Nat /\ x \in Nat /\ SizeModulus \in Nat \ {0} /\ pool.end = x % SizeModulus
        BY <1>1, <1>5, PointerFits
    <2>2. CASE x < SizeModulus
        <3>1. x = SizeModulus * 0 + x /\ x \in 0 .. SizeModulus - 1
            BY <2>1, <2>2
        <3> HIDE DEF x
        <3>2. x % SizeModulus = x
            BY <2>1, <3>1, Remainder
        <3> QED BY <2>1, <2>2, <3>2 DEF x
    <2>3. CASE x >= SizeModulus
        <3> DEFINE y == x - SizeModulus
        <3>1. x = SizeModulus * 1 + y /\ y \in 0 .. SizeModulus - 1 /\ y < start
            BY <1>1, <2>1, <2>3
        <3> HIDE DEF x, y
        <3>2. x % SizeModulus = y
            BY <2>1, <3>1, Remainder
        <3>3. pool.end < start
            BY <2>1, <3>1, <3>2
        <3> QED BY <1>1, <1>2, <1>3, <2>1, <3>1, <3>2, <3>3
    <2> QED BY <2>1, <2>2, <2>3
<1>7. ptr \in Grid(start, total, stride)
    <2> DEFINE q == (ptr - start) \div stride
               x == ptr - start
    <2>0. x \in Int /\ x % stride = 0
        BY <1>3, <1>4
    <2> HIDE DEF x
    <2>a. x = stride * (x \div stride) /\ x \div stride \in Int
        BY <1>5, <2>0, Multiple
    <2>1. ptr - start = stride * q /\ q \in Int
        BY <2>a DEF x
    <2> HIDE DEF q
    <2>2. stride * q < stride * total /\ stride * 0 <= stride * q /\ ptr = start + stride * q
        <3>1. stride * q \in Int /\ stride * total \in Int /\ stride * 0 = 0
            BY <1>1, <1>5, <2>1
        <3>2. ptr - start < stride * total
            BY <1>1, <1>2, <1>3, <1>6, <3>1
        <3> QED BY <1>1, <1>4, <2>1, <3>1, <3>2
    <2>3. q < total /\ 0 <= q
        BY <1>1, <1>5, <2>1, <2>2, BelowMultiple
    <2>4. q \in 0 .. total - 1
        BY <1>1, <2>1, <2>3
    <2>5. (start + stride * q) % SizeModulus = start + stride * q
        <3>1. start + stride * total <= SizeModulus
            BY <1>1, <1>5, <1>6, PointerFits
        <3>2. start \in Nat /\ total \in Nat /\ stride \in Nat \ {0}
            BY <1>1, <1>5
        <3> QED BY <2>4, <3>1, <3>2, GridStraight
    <2> QED BY <2>2, <2>4, <2>5 DEF Grid
<1>8. FreeBlocks = {free_list[i] : i \in 1 .. n}
    BY DEF FreeBlocks, n
<1>9. ptr \in held
    <2>1. ptr \notin FreeBlocks
        BY <1>2, <1>8
    <2> QED BY <1>7, <2>1 DEF PoolInv, stride, total, start
<1>10. /\ free_list' = <<ptr>> \o free_list /\ free_count' = n + 1
       /\ held' = held \ {ptr} /\ pool' = pool /\ buffer' = buffer
       /\ min_free_count' = min_free_count
    BY <1>1 DEF PoolFree
<1>11. /\ free_list' \in Seq(Nat) /\ Len(free_list') = n + 1 /\ free_list'[1] = ptr
       /\ \A i \in 2 .. n + 1 : free_list'[i] = free_list[i - 1]
    <2>1. <<ptr>> \in Seq(Nat) /\ Len(<<ptr>>) = 1 /\ <<ptr>>[1] = ptr
        BY <1>4
    <2> DEFINE one == <<ptr>>
    <2> HIDE DEF one
    <2>2. free_list' = one \o free_list /\ one \in Seq(Nat) /\ Len(one) = 1 /\ one[1] = ptr
        BY <1>10, <2>1 DEF one
    <2>3. /\ one \o free_list \in Seq(Nat)
          /\ Len(one \o free_list) = Len(one) + Len(free_list)
          /\ \A i \in 1 .. Len(one) + Len(free_list) :
                (one \o free_list)[i] =
                    IF i <= Len(one) THEN one[i] ELSE free_list[i - Len(one)]
        <3>1. free_list \in Seq(Nat)
            BY <1>1
        <3> QED BY <2>2, <3>1, ConcatProperties
    <2>4. /\ free_list' \in Seq(Nat) /\ Len(free_list') = 1 + n
          /\ \A i \in 1 .. 1 + n :
                free_list'[i] = IF i <= 1 THEN one[i] ELSE free_list[i - 1]
        BY <2>2, <2>3 DEF n
    <2>5. \A i \in 2 .. n + 1 : i \in 1 .. 1 + n /\ ~(i <= 1)
        BY <1>1
    <2>6. 1 \in 1 .. 1 + n /\ 1 + n = n + 1
        BY <1>1
    <2>7. free_list'[1] = one[1]
        BY <2>4, <2>6
    <2>8. \A i \in 2 .. n + 1 : free_list'[i] = free_list[i - 1]
        BY <2>4, <2>5
    <2> QED BY <2>2, <2>4, <2>6, <2>7, <2>8
<1>12. \A i \in 1 .. n + 1 : i = 1 \/ (i \in 2 .. n + 1 /\ i - 1 \in 1 .. n)
    BY <1>1
<1>13. ASSUME NEW i \in 1 .. n + 1, NEW j \in 1 .. n + 1, free_list'[i] = free_list'[j]
       PROVE  i = j
    <2>1. CASE i = 1 /\ j = 1
        BY <2>1
    <2>2. CASE i = 1 /\ j # 1
        BY <1>2, <1>11, <1>12, <1>13, <2>2
    <2>3. CASE i # 1 /\ j = 1
        BY <1>2, <1>11, <1>12, <1>13, <2>3
    <2>4. CASE i # 1 /\ j # 1
        <3>1. free_list[i - 1] = free_list[j - 1] /\ i - 1 \in 1 .. n /\ j - 1 \in 1 .. n
            BY <1>11, <1>12, <1>13, <2>4
        <3>2. i - 1 = j - 1
            BY <1>1, <3>1
        <3> QED BY <3>2
    <2> QED BY <2>1, <2>2, <2>3, <2>4
<1>14. FreeBlocks' = FreeBlocks \cup {ptr}
    <2>1. FreeBlocks' = {free_list'[i] : i \in 1 .. n + 1}
        BY <1>11 DEF FreeBlocks
    <2>2. \A i \in 1 .. n + 1 : free_list'[i] \in FreeBlocks \cup {ptr}
        BY <1>8, <1>11, <1>12
    <2>3. ASSUME NEW i \in 1 .. n PROVE free_list[i] \in FreeBlocks'
        <3>1. i + 1 \in 2 .. n + 1 /\ i + 1 \in 1 .. n + 1 /\ (i + 1) - 1 = i
            BY <1>1
        <3> QED BY <1>11, <2>1, <3>1
    <2>4. ptr \in FreeBlocks'
        <3>1. 1 \in 1 .. n + 1
            BY <1>1
        <3> QED BY <1>11, <2>1, <3>1
    <2> QED BY <1>8, <2>1, <2>2, <2>3, <2>4
<1>15. FreeBlocks' \cap held' = {} /\ FreeBlocks' \cup held' = FreeBlocks \cup held
    BY <1>9, <1>10, <1>14 DEF PoolInv
<1>16. min_free_count' \in Nat /\ min_free_count' <= free_count'
    BY <1>1, <1>10
<1> QED BY <1>10, <1>11, <1>13, <1>15, <1>16 DEF PoolInv

LEMMA PoolUnchanged == PoolInv /\ UNCHANGED mempool => PoolInv'
<1> SUFFICES ASSUME PoolInv, UNCHANGED mempool PROVE PoolInv'
    OBVIOUS
<1>1. /\ pool' = pool /\ free_list' = free_list /\ free_count' = free_count
      /\ min_free_count' = min_free_count /\ buffer' = buffer /\ held' = held
    BY DEF mempool
<1>2. FreeBlocks' = FreeBlocks
    BY <1>1 DEF FreeBlocks
<1> QED BY <1>1, <1>2 DEF PoolInv

LEMMA PoolStep == PoolInv /\ MemPoolNext => PoolInv'
<1>1. ASSUME PoolInv, NEW ptr \in NotFree, PoolFree(ptr) PROVE PoolInv'
    BY <1>1, PoolFreeKeeps, PoolUnchanged DEF PoolFree
<1> QED BY <1>1, CreateKeeps, PoolAllocKeeps DEF MemPoolNext

-----------------------------------------------------------------------------
\* The heap.

\* A block wherever it lies.
AnyBlock == [addr : Nat, size : Nat, allocated : BOOLEAN]

\* Blocks one behind the other; each but the last ends before all that follow.
Chain(bs) ==
    /\ bs \in Seq(AnyBlock) /\ Len(bs) > 0
    /\ \A i \in 1 .. Len(bs) - 1 : End(bs[i]) = bs[i + 1].addr
    /\ \A i, j \in 1 .. Len(bs) : i < j => End(bs[i]) <= bs[j].addr

Coalesced(bs) ==
    \A i \in 1 .. Len(bs) - 1 : bs[i].allocated \/ bs[i + 1].allocated

\* The list of the whole heap.
Tiled(bs) ==
    /\ Chain(bs) /\ Coalesced(bs)
    /\ bs[1].addr = 0 /\ End(bs[Len(bs)]) = HeapSize

Allocs(bs) == {bs[i] : i \in {j \in 1 .. Len(bs) : bs[j].allocated}}

\* The blocks from a to b give way to others.
Splice(bs, a, b, mid) ==
    SubSeq(bs, 1, a - 1) \o mid \o SubSeq(bs, b + 1, Len(bs))

\* Element by element.
LEMMA SpliceIs ==
    ASSUME NEW bs \in Seq(AnyBlock), NEW mid \in Seq(AnyBlock),
           NEW a \in 1 .. Len(bs), NEW b \in a .. Len(bs)
    PROVE  LET new == Splice(bs, a, b, mid)
               m == Len(mid)
           IN  /\ new \in Seq(AnyBlock) /\ Len(new) = a - 1 + m + (Len(bs) - b)
               /\ \A i \in 1 .. a - 1 : new[i] = bs[i]
               /\ \A i \in 1 .. m : new[a - 1 + i] = mid[i]
               /\ \A i \in b + 1 .. Len(bs) : new[i - b + (a - 1 + m)] = bs[i]
<1> DEFINE n == Len(bs)
           m == Len(mid)
           l == SubSeq(bs, 1, a - 1)
           r == SubSeq(bs, b + 1, n)
           lm == l \o mid
           new == lm \o r
<1>1. n \in Nat /\ m \in Nat /\ a \in Nat /\ b \in Nat /\ a - 1 \in Nat /\ a <= b /\ b <= n
      /\ mid \in Seq(AnyBlock)
    OBVIOUS
<1>2. /\ l \in Seq(AnyBlock) /\ Len(l) = a - 1
      /\ \A i \in 1 .. a - 1 : l[i] = bs[i]
    OBVIOUS
<1>3. /\ r \in Seq(AnyBlock) /\ Len(r) = n - b
      /\ \A i \in 1 .. n - b : r[i] = bs[b + i]
    OBVIOUS
<1> HIDE DEF l, r, m, n
<1>4. /\ lm \in Seq(AnyBlock) /\ Len(lm) = Len(l) + Len(mid)
      /\ \A i \in 1 .. Len(l) + Len(mid) :
            lm[i] = IF i <= Len(l) THEN l[i] ELSE mid[i - Len(l)]
    BY <1>1, <1>2, ConcatProperties
<1>5. Len(lm) = a - 1 + m
    BY <1>2, <1>4 DEF m
<1>14. lm \in Seq(AnyBlock) /\ r \in Seq(AnyBlock)
    BY <1>3, <1>4
<1> HIDE DEF lm
<1>6. /\ new \in Seq(AnyBlock) /\ Len(new) = Len(lm) + Len(r)
      /\ \A i \in 1 .. Len(lm) + Len(r) :
            new[i] = IF i <= Len(lm) THEN lm[i] ELSE r[i - Len(lm)]
    BY <1>14, ConcatProperties
<1> HIDE DEF new
<1>7. Len(new) = a - 1 + m + (n - b) /\ Len(new) = (a - 1 + m) + (n - b)
    BY <1>1, <1>3, <1>5, <1>6
<1>8. \A i \in 1 .. a - 1 + m : new[i] = lm[i]
    BY <1>1, <1>3, <1>5, <1>6
<1>9. \A i \in 1 .. a - 1 + m : lm[i] = IF i <= a - 1 THEN l[i] ELSE mid[i - (a - 1)]
    BY <1>1, <1>2, <1>4 DEF m
<1>10. ASSUME NEW i \in 1 .. a - 1 PROVE new[i] = bs[i]
    <2>1. i \in 1 .. a - 1 + m /\ i <= a - 1
        BY <1>1
    <2> QED BY <1>2, <1>8, <1>9, <2>1
<1>11. ASSUME NEW i \in 1 .. m PROVE new[a - 1 + i] = mid[i]
    <2>1. a - 1 + i \in 1 .. a - 1 + m /\ ~(a - 1 + i <= a - 1) /\ (a - 1 + i) - (a - 1) = i
        BY <1>1
    <2> QED BY <1>8, <1>9, <2>1
<1>12. ASSUME NEW i \in b + 1 .. n PROVE new[i - b + (a - 1 + m)] = bs[i]
    <2> DEFINE k == i - b + (a - 1 + m)
    <2>1. /\ k \in 1 .. (a - 1 + m) + (n - b) /\ ~(k <= a - 1 + m) /\ k - (a - 1 + m) = i - b
          /\ i - b \in 1 .. n - b /\ b + (i - b) = i
        BY <1>1
    <2> HIDE DEF k
    <2>2. new[k] = r[k - (a - 1 + m)]
        BY <1>3, <1>5, <1>6, <2>1
    <2>3. r[i - b] = bs[b + (i - b)]
        BY <1>3, <2>1
    <2> QED BY <2>1, <2>2, <2>3 DEF k
<1>13. Splice(bs, a, b, mid) = new
    BY DEF Splice, new, lm, l, r, n
<1> QED BY <1>1, <1>6, <1>7, <1>10, <1>11, <1>12, <1>13 DEF m, n

LEMMA BlockEnds ==
    ASSUME NEW x \in AnyBlock
    PROVE  /\ x.addr \in Nat /\ x.size \in Nat /\ x.allocated \in BOOLEAN
           /\ End(x) \in Nat /\ x.addr < End(x)
BY HeapAssumption DEF AnyBlock, End

\* The elements of a splice by where they come from.
LEMMA SplicePlaces ==
    ASSUME NEW bs \in Seq(AnyBlock), NEW mid \in Seq(AnyBlock),
           NEW a \in 1 .. Len(bs), NEW b \in a .. Len(bs)
    PROVE  LET new == Splice(bs, a, b, mid)
               o == a - 1
               m == Len(mid)
               e == b - (o + m)
           IN  /\ new \in Seq(AnyBlock) /\ Len(new) = Len(bs) - e
               /\ o \in Nat /\ m \in Nat /\ e \in Int /\ Len(bs) \in Nat
               /\ \A i \in 1 .. o : new[i] = bs[i]
               /\ \A i \in o + 1 .. o + m : i - o \in 1 .. m /\ new[i] = mid[i - o]
               /\ \A i \in o + m + 1 .. Len(new) :
                     i + e \in b + 1 .. Len(bs) /\ new[i] = bs[i + e]
<1> DEFINE new == Splice(bs, a, b, mid)
           o == a - 1
           m == Len(mid)
           n == Len(bs)
           e == b - (o + m)
<1>1. n \in Nat /\ m \in Nat /\ o \in Nat /\ b \in Nat /\ o < b /\ b <= n /\ e \in Int
    OBVIOUS
<1>2. /\ new \in Seq(AnyBlock) /\ Len(new) = a - 1 + m + (n - b)
      /\ \A i \in 1 .. a - 1 : new[i] = bs[i]
      /\ \A i \in 1 .. m : new[a - 1 + i] = mid[i]
      /\ \A i \in b + 1 .. n : new[i - b + (a - 1 + m)] = bs[i]
    BY SpliceIs
<1>3. o + 1 = a
    OBVIOUS
<1> HIDE DEF new, m, n
<1>4. Len(new) = n - e
    BY <1>1, <1>2, <1>3
<1>5. ASSUME NEW i \in o + 1 .. o + m PROVE i - o \in 1 .. m /\ new[i] = mid[i - o]
    <2>1. i - o \in 1 .. m /\ a - 1 + (i - o) = i
        BY <1>1, <1>3
    <2> HIDE DEF o
    <2> QED BY <1>2, <2>1
<1>6. ASSUME NEW i \in o + m + 1 .. Len(new)
      PROVE  i + e \in b + 1 .. n /\ new[i] = bs[i + e]
    <2>1. i + e \in b + 1 .. n /\ (i + e) - b + (a - 1 + m) = i
        BY <1>1, <1>3, <1>4
    <2> HIDE DEF o, e
    <2> QED BY <1>2, <2>1
<1> QED BY <1>1, <1>2, <1>4, <1>5, <1>6 DEF new, m, n

\* A part of a chain may be replaced by a chain of the same extent.
LEMMA SpliceChain ==
    ASSUME NEW bs, NEW mid, Chain(bs), Chain(mid),
           NEW a \in 1 .. Len(bs), NEW b \in a .. Len(bs),
           mid[1].addr = bs[a].addr, End(mid[Len(mid)]) = End(bs[b])
    PROVE  LET new == Splice(bs, a, b, mid)
           IN  /\ Chain(new) /\ new[1].addr = bs[1].addr
               /\ End(new[Len(new)]) = End(bs[Len(bs)])
<1> DEFINE new == Splice(bs, a, b, mid)
           o == a - 1
           m == Len(mid)
           n == Len(bs)
           e == b - (o + m)
           N == Len(new)
<1>1. bs \in Seq(AnyBlock) /\ mid \in Seq(AnyBlock)
    BY DEF Chain
<1>2. /\ new \in Seq(AnyBlock) /\ N = n - e
      /\ o \in Nat /\ m \in Nat /\ e \in Int /\ n \in Nat
      /\ \A i \in 1 .. o : new[i] = bs[i]
      /\ \A i \in o + 1 .. o + m : i - o \in 1 .. m /\ new[i] = mid[i - o]
      /\ \A i \in o + m + 1 .. N : i + e \in b + 1 .. n /\ new[i] = bs[i + e]
    BY <1>1, SplicePlaces
<1>3. m > 0 /\ a = o + 1 /\ b \in Nat /\ o < b /\ b <= n /\ e = b - (o + m)
    BY DEF Chain
<1>4. /\ \A i \in 1 .. n : bs[i] \in AnyBlock
      /\ \A i \in 1 .. m : mid[i] \in AnyBlock
      /\ \A i \in 1 .. n - 1 : End(bs[i]) = bs[i + 1].addr
      /\ \A i, j \in 1 .. n : i < j => End(bs[i]) <= bs[j].addr
      /\ \A i \in 1 .. m - 1 : End(mid[i]) = mid[i + 1].addr
      /\ \A i, j \in 1 .. m : i < j => End(mid[i]) <= mid[j].addr
    BY <1>1 DEF Chain
<1>5. /\ mid[1].addr = bs[o + 1].addr /\ End(mid[m]) = End(bs[b])
    OBVIOUS
<1> HIDE DEF new, o, m, n, e, N
<1>20. o \in Nat /\ m \in Nat \ {0} /\ e \in Int /\ n \in Nat /\ N = n - e
    BY <1>2, <1>3
<1> DEFINE s == bs[o + 1].addr
           f == End(bs[b])
<1>6. N \in Nat /\ o + m <= N /\ N >= 1
    BY <1>2, <1>3
<1>7. \A i \in 1 .. N : i \in 1 .. o \/ i \in o + 1 .. o + m \/ i \in o + m + 1 .. N
    BY <1>2, <1>6
<1>8. \A i \in 1 .. N : /\ new[i] \in AnyBlock
                        /\ new[i].addr \in Nat /\ End(new[i]) \in Nat
                        /\ new[i].addr < End(new[i])
    <2> SUFFICES ASSUME NEW i \in 1 .. N PROVE new[i] \in AnyBlock
        BY BlockEnds
    <2> QED BY <1>2 DEF N
<1>9. s \in Nat /\ f \in Nat /\ o + 1 \in 1 .. n /\ b \in 1 .. n
    BY <1>2, <1>3, <1>4, BlockEnds
<1>10. \A i \in 1 .. o : i \in 1 .. n /\ End(new[i]) <= s
    <2> SUFFICES ASSUME NEW i \in 1 .. o PROVE i \in 1 .. n /\ End(bs[i]) <= s
        BY <1>2
    <2>1. i \in 1 .. n /\ i < o + 1
        BY <1>2, <1>3
    <2> QED BY <1>4, <1>9, <2>1
<1>11. ASSUME NEW i \in 1 .. m PROVE s <= mid[i].addr /\ End(mid[i]) <= f
    <2>1. 1 \in 1 .. m /\ m \in 1 .. m
        BY <1>20
    <2>2. /\ mid[1].addr \in Nat /\ End(mid[1]) \in Nat /\ mid[1].addr < End(mid[1])
          /\ mid[m].addr \in Nat /\ End(mid[m]) \in Nat /\ mid[m].addr < End(mid[m])
          /\ mid[i].addr \in Nat /\ End(mid[i]) \in Nat /\ mid[i].addr < End(mid[i])
        BY <1>4, <2>1, BlockEnds
    <2>3. i = 1 \/ End(mid[1]) <= mid[i].addr
        BY <1>2, <1>4, <2>1
    <2>4. i = m \/ End(mid[i]) <= mid[m].addr
        BY <1>2, <1>4, <2>1
    <2> QED BY <1>5, <2>2, <2>3, <2>4
<1>12. \A i \in o + 1 .. o + m : s <= new[i].addr /\ End(new[i]) <= f
    BY <1>2, <1>11
<1>13. s <= f
    <2>1. o + 1 \in 1 .. N /\ o + 1 \in o + 1 .. o + m
        BY <1>2, <1>3, <1>6
    <2> QED BY <1>8, <1>9, <1>12, <2>1
<1>14. \A i \in o + m + 1 .. N : f <= new[i].addr
    <2> SUFFICES ASSUME NEW i \in o + m + 1 .. N PROVE f <= bs[i + e].addr
        BY <1>2
    <2>1. i + e \in b + 1 .. n
        BY <1>2
    <2>2. i + e \in 1 .. n /\ b < i + e
        BY <1>2, <1>3, <2>1
    <2> QED BY <1>4, <1>9, <2>2
<1> HIDE DEF s, f
<1>15. ASSUME NEW i \in 1 .. N, NEW j \in 1 .. N, i < j
       PROVE  End(new[i]) <= new[j].addr
    <2>1. CASE i \in 1 .. o /\ j \in 1 .. o
        BY <1>2, <1>4, <1>10, <1>15, <2>1
    <2>2. CASE i \in 1 .. o /\ j \in o + 1 .. o + m
        BY <1>8, <1>9, <1>10, <1>12, <2>2
    <2>3. CASE i \in 1 .. o /\ j \in o + m + 1 .. N
        BY <1>8, <1>9, <1>10, <1>13, <1>14, <2>3
    <2>4. CASE i \in o + 1 .. o + m /\ j \in o + 1 .. o + m
        <3>1. /\ new[i] = mid[i - o] /\ new[j] = mid[j - o]
              /\ i - o \in 1 .. m /\ j - o \in 1 .. m
            BY <1>2, <2>4
        <3>2. i - o < j - o
            BY <1>2, <1>15
        <3> QED BY <1>4, <3>1, <3>2
    <2>5. CASE i \in o + 1 .. o + m /\ j \in o + m + 1 .. N
        BY <1>8, <1>9, <1>12, <1>14, <2>5
    <2>6. CASE i \in o + m + 1 .. N /\ j \in o + m + 1 .. N
        <3>1. /\ new[i] = bs[i + e] /\ new[j] = bs[j + e]
              /\ i + e \in b + 1 .. n /\ j + e \in b + 1 .. n
            BY <1>2, <2>6
        <3>2. i + e < j + e /\ i + e \in 1 .. n /\ j + e \in 1 .. n
            BY <1>2, <1>3, <1>15, <3>1
        <3> QED BY <1>4, <3>1, <3>2
    <2>7. /\ i \in 1 .. o \/ i \in o + 1 .. o + m \/ i \in o + m + 1 .. N
          /\ j \in 1 .. o \/ j \in o + 1 .. o + m \/ j \in o + m + 1 .. N
        BY <1>7
    <2>8. ~(i \in o + 1 .. o + m /\ j \in 1 .. o)
          /\ ~(i \in o + m + 1 .. N /\ (j \in 1 .. o \/ j \in o + 1 .. o + m))
        BY <1>2, <1>15
    <2> QED BY <2>1, <2>2, <2>3, <2>4, <2>5, <2>6, <2>7, <2>8
<1>16. ASSUME NEW i \in 1 .. N - 1 PROVE End(new[i]) = new[i + 1].addr
    <2>0. i \in 1 .. N /\ i + 1 \in 1 .. N
        BY <1>6
    <2>1. CASE i < o
        <3>1. i \in 1 .. o /\ i + 1 \in 1 .. o /\ i \in 1 .. n - 1
            BY <1>2, <1>3, <2>1
        <3> QED BY <1>2, <1>4, <3>1
    <2>2. CASE i = o
        <3>1. i \in 1 .. o /\ i + 1 \in o + 1 .. o + m /\ i \in 1 .. n - 1 /\ (i + 1) - o = 1
            BY <1>2, <1>3, <2>2
        <3>2. End(bs[i]) = bs[o + 1].addr
            BY <1>4, <2>2, <3>1
        <3>3. new[i] = bs[i] /\ new[i + 1] = mid[1]
            BY <1>2, <3>1
        <3> QED BY <1>5, <3>2, <3>3
    <2>3. CASE i > o /\ i < o + m
        <3>1. /\ i \in o + 1 .. o + m /\ i + 1 \in o + 1 .. o + m /\ i - o \in 1 .. m - 1
              /\ (i + 1) - o = (i - o) + 1
            BY <1>2, <1>3, <2>3
        <3>2. End(mid[i - o]) = mid[(i - o) + 1].addr
            BY <1>4, <3>1
        <3>3. new[i] = mid[i - o] /\ new[i + 1] = mid[(i + 1) - o]
            BY <1>2, <3>1
        <3> QED BY <3>1, <3>2, <3>3
    <2>4. CASE i = o + m
        <3>1. /\ i \in o + 1 .. o + m /\ i + 1 \in o + m + 1 .. N /\ i - o = m
              /\ (i + 1) + e = b + 1 /\ b \in 1 .. n - 1
            BY <1>2, <1>3, <1>6, <2>4
        <3>2. new[i] = mid[m] /\ new[i + 1] = bs[b + 1]
            BY <1>2, <3>1
        <3>3. End(bs[b]) = bs[b + 1].addr
            BY <1>4, <3>1
        <3> QED BY <1>5, <3>2, <3>3
    <2>5. CASE i > o + m
        <3>1. /\ i \in o + m + 1 .. N /\ i + 1 \in o + m + 1 .. N
              /\ (i + 1) + e = (i + e) + 1 /\ i + e \in 1 .. n - 1
            BY <1>2, <1>3, <1>6, <2>5
        <3>2. End(bs[i + e]) = bs[(i + e) + 1].addr
            BY <1>4, <3>1
        <3>3. new[i] = bs[i + e] /\ new[i + 1] = bs[(i + 1) + e]
            BY <1>2, <3>1
        <3> QED BY <3>1, <3>2, <3>3
    <2> QED BY <1>2, <2>0, <2>1, <2>2, <2>3, <2>4, <2>5
<1>17. Chain(new)
    BY <1>2, <1>6, <1>15, <1>16 DEF Chain, N
<1>18. new[1].addr = bs[1].addr
    <2>1. CASE o = 0
        <3>1. 1 \in o + 1 .. o + m /\ 1 - o = 1 /\ o + 1 = 1
            BY <1>2, <1>3, <2>1
        <3>2. new[1] = mid[1] /\ mid[1].addr = bs[1].addr
            BY <1>2, <1>5, <3>1
        <3> QED BY <3>2
    <2>2. CASE o > 0
        <3>1. 1 \in 1 .. o
            BY <1>2, <2>2
        <3> QED BY <1>2, <3>1
    <2> QED BY <1>2, <2>1, <2>2
<1>19. End(new[N]) = End(bs[n])
    <2>1. CASE b = n
        <3>1. N = o + m
            BY <1>3, <1>20, <2>1
        <3>3. N \in o + 1 .. o + m /\ N - o = m
            BY <1>20, <3>1
        <3>2. new[N] = mid[m]
            BY <1>2, <3>3
        <3> QED BY <1>5, <2>1, <3>2
    <2>2. CASE b < n
        <3>1. N \in o + m + 1 .. N /\ N + e = n
            BY <1>2, <1>3, <2>2
        <3>2. new[N] = bs[n]
            BY <1>2, <3>1
        <3> QED BY <3>2
    <2> QED BY <1>3, <2>1, <2>2, <1>2
<1> QED BY <1>17, <1>18, <1>19 DEF new, N, n

\* No two free blocks meet where the parts meet.
LEMMA SpliceCoalesced ==
    ASSUME NEW bs \in Seq(AnyBlock), NEW mid \in Seq(AnyBlock), Len(mid) > 0,
           NEW a \in 1 .. Len(bs), NEW b \in a .. Len(bs),
           \A i \in 1 .. Len(bs) - 1 :
               i + 1 < a \/ i > b => bs[i].allocated \/ bs[i + 1].allocated,
           Coalesced(mid),
           a > 1 => bs[a - 1].allocated \/ mid[1].allocated,
           b < Len(bs) => mid[Len(mid)].allocated \/ bs[b + 1].allocated
    PROVE  Coalesced(Splice(bs, a, b, mid))
<1> DEFINE new == Splice(bs, a, b, mid)
           o == a - 1
           m == Len(mid)
           n == Len(bs)
           e == b - (o + m)
           N == Len(new)
<1>1. /\ \A i \in 1 .. o : new[i] = bs[i]
      /\ \A i \in o + 1 .. o + m : i - o \in 1 .. m /\ new[i] = mid[i - o]
      /\ \A i \in o + m + 1 .. N : i + e \in b + 1 .. n /\ new[i] = bs[i + e]
    BY SplicePlaces
<1>2. N = n - e /\ o \in Nat /\ m \in Nat \ {0} /\ e \in Int /\ n \in Nat
    BY SplicePlaces
<1>3. a = o + 1 /\ b \in Nat /\ o < b /\ b <= n /\ e = b - (o + m)
    OBVIOUS
<1>4. /\ \A i \in 1 .. n - 1 : i + 1 < a \/ i > b => bs[i].allocated \/ bs[i + 1].allocated
      /\ \A i \in 1 .. m - 1 : mid[i].allocated \/ mid[i + 1].allocated
      /\ o > 0 => bs[o].allocated \/ mid[1].allocated
      /\ b < n => mid[m].allocated \/ bs[b + 1].allocated
    BY DEF Coalesced
<1> HIDE DEF new, o, m, n, e, N
<1> SUFFICES ASSUME NEW i \in 1 .. N - 1 PROVE new[i].allocated \/ new[i + 1].allocated
    BY DEF Coalesced, new, N
<1>5. CASE i < o
    <2>1. i \in 1 .. o /\ i + 1 \in 1 .. o /\ i \in 1 .. n - 1 /\ i + 1 < a
        BY <1>2, <1>3, <1>5
    <2> QED BY <1>1, <1>4, <2>1
<1>6. CASE i = o
    <2>1. o \in 1 .. o /\ o + 1 \in o + 1 .. o + m /\ (o + 1) - o = 1 /\ o > 0
        BY <1>2, <1>6
    <2>2. new[o] = bs[o] /\ new[o + 1] = mid[(o + 1) - o]
        BY <1>1, <2>1
    <2> QED BY <1>4, <1>6, <2>1, <2>2
<1>7. CASE i > o /\ i < o + m
    <2>1. /\ i \in o + 1 .. o + m /\ i + 1 \in o + 1 .. o + m /\ i - o \in 1 .. m - 1
          /\ (i + 1) - o = (i - o) + 1
        BY <1>2, <1>7
    <2>2. new[i] = mid[i - o] /\ new[i + 1] = mid[(i + 1) - o]
        BY <1>1, <2>1
    <2>3. mid[i - o].allocated \/ mid[(i - o) + 1].allocated
        BY <1>4, <2>1
    <2> QED BY <2>1, <2>2, <2>3
<1>8. CASE i = o + m
    <2>1. /\ o + m \in o + 1 .. o + m /\ (o + m) + 1 \in o + m + 1 .. N /\ (o + m) - o = m
          /\ ((o + m) + 1) + e = b + 1 /\ b < n
        BY <1>2, <1>3, <1>8
    <2>2. new[o + m] = mid[(o + m) - o] /\ new[(o + m) + 1] = bs[((o + m) + 1) + e]
        BY <1>1, <2>1
    <2> QED BY <1>4, <1>8, <2>1, <2>2
<1>9. CASE i > o + m
    <2>1. /\ i \in o + m + 1 .. N /\ i + 1 \in o + m + 1 .. N
          /\ (i + 1) + e = (i + e) + 1 /\ i + e \in 1 .. n - 1 /\ i + e > b
        BY <1>2, <1>3, <1>9
    <2>2. new[i] = bs[i + e] /\ new[i + 1] = bs[(i + 1) + e]
        BY <1>1, <2>1
    <2>3. bs[i + e].allocated \/ bs[(i + e) + 1].allocated
        BY <1>4, <2>1
    <2> QED BY <2>1, <2>2, <2>3
<1> QED BY <1>2, <1>5, <1>6, <1>7, <1>8, <1>9

\* The allocated blocks outside of the part and those in its stead.
LEMMA SpliceAllocs ==
    ASSUME NEW bs \in Seq(AnyBlock), NEW mid \in Seq(AnyBlock),
           NEW a \in 1 .. Len(bs), NEW b \in a .. Len(bs)
    PROVE  Allocs(Splice(bs, a, b, mid)) =
               {bs[i] : i \in {j \in 1 .. Len(bs) : bs[j].allocated /\ (j < a \/ j > b)}}
               \cup Allocs(mid)
<1> DEFINE new == Splice(bs, a, b, mid)
           o == a - 1
           m == Len(mid)
           n == Len(bs)
           e == b - (o + m)
           N == Len(new)
           Rest == {bs[i] : i \in {j \in 1 .. n : bs[j].allocated /\ (j < a \/ j > b)}}
<1>1. /\ \A i \in 1 .. o : new[i] = bs[i]
      /\ \A i \in o + 1 .. o + m : i - o \in 1 .. m /\ new[i] = mid[i - o]
      /\ \A i \in o + m + 1 .. N : i + e \in b + 1 .. n /\ new[i] = bs[i + e]
    BY SplicePlaces
<1>2. N = n - e /\ o \in Nat /\ m \in Nat /\ e \in Int /\ n \in Nat
    BY SplicePlaces
<1>3. a = o + 1 /\ b \in Nat /\ o < b /\ b <= n /\ e = b - (o + m)
    OBVIOUS
<1> HIDE DEF new, o, m, n, e, N
<1>4. Allocs(new) = {new[i] : i \in {j \in 1 .. N : new[j].allocated}}
      /\ Allocs(mid) = {mid[i] : i \in {j \in 1 .. m : mid[j].allocated}}
    BY DEF Allocs, N, m
<1>5. ASSUME NEW i \in 1 .. N, new[i].allocated PROVE new[i] \in Rest \cup Allocs(mid)
    <2>1. CASE i \in 1 .. o
        <3>1. i \in 1 .. n /\ i < a /\ new[i] = bs[i]
            BY <1>1, <1>2, <1>3, <2>1
        <3> QED BY <1>5, <3>1
    <2>2. CASE i \in o + 1 .. o + m
        BY <1>1, <1>4, <1>5, <2>2
    <2>3. CASE i \in o + m + 1 .. N
        <3>1. i + e \in 1 .. n /\ i + e > b
            BY <1>2, <1>3, <2>3
        <3>2. new[i] = bs[i + e]
            BY <1>1, <2>3
        <3> QED BY <1>5, <3>1, <3>2
    <2> QED BY <1>2, <2>1, <2>2, <2>3
<1>6. ASSUME NEW i \in 1 .. n, bs[i].allocated, i < a \/ i > b PROVE bs[i] \in Allocs(new)
    <2>1. CASE i < a
        <3>1. i \in 1 .. o /\ i \in 1 .. N
            BY <1>2, <1>3, <2>1
        <3> QED BY <1>1, <1>4, <1>6, <3>1
    <2>2. CASE i > b
        <3>1. i - e \in o + m + 1 .. N /\ i - e \in 1 .. N /\ (i - e) + e = i
            BY <1>2, <1>3, <2>2
        <3>2. new[i - e] = bs[i]
            BY <1>1, <3>1
        <3> QED BY <1>4, <1>6, <3>1, <3>2
    <2> QED BY <1>6, <2>1, <2>2
<1>7. ASSUME NEW i \in 1 .. m, mid[i].allocated PROVE mid[i] \in Allocs(new)
    <2>1. i + o \in o + 1 .. o + m /\ i + o \in 1 .. N /\ (i + o) - o = i
        BY <1>2, <1>3
    <2>2. new[i + o] = mid[i]
        BY <1>1, <2>1
    <2> QED BY <1>4, <1>7, <2>1, <2>2
<1>8. Allocs(new) = Rest \cup Allocs(mid)
    BY <1>4, <1>5, <1>6, <1>7
<1> QED BY <1>8 DEF new, n

\* Where the blocks of the heap lie.
LEMMA TiledBounds ==
    ASSUME NEW bs, Tiled(bs)
    PROVE  /\ bs \in Seq(Blocks) /\ Len(bs) \in Nat \ {0}
           /\ \A i, j \in 1 .. Len(bs) : bs[i].addr = bs[j].addr => i = j
           /\ \A i \in 1 .. Len(bs) : bs[i] \in AnyBlock /\ End(bs[i]) <= HeapSize
<1> DEFINE n == Len(bs)
<1>1. /\ bs \in Seq(AnyBlock) /\ n \in Nat \ {0} /\ End(bs[n]) = HeapSize
      /\ \A i, j \in 1 .. n : i < j => End(bs[i]) <= bs[j].addr
    BY DEF Tiled, Chain
<1>2. \A i \in 1 .. n : bs[i] \in AnyBlock
    BY <1>1
<1>3. n \in 1 .. n
    BY <1>1
<1> HIDE DEF n
<1>4. \A i \in 1 .. n : /\ bs[i].addr \in Nat /\ bs[i].size \in Nat
                        /\ bs[i].allocated \in BOOLEAN
                        /\ End(bs[i]) \in Nat /\ bs[i].addr < End(bs[i])
    BY <1>2, BlockEnds
<1>5. \A i, j \in 1 .. n : bs[i].addr = bs[j].addr => i = j
    <2> SUFFICES ASSUME NEW i \in 1 .. n, NEW j \in 1 .. n, i < j
                 PROVE  bs[i].addr # bs[j].addr
        BY <1>1
    <2> QED BY <1>1, <1>4
<1>6. ASSUME NEW i \in 1 .. n PROVE End(bs[i]) <= HeapSize
    <2>1. i = n \/ End(bs[i]) <= bs[n].addr
        BY <1>1, <1>3
    <2>2. HeapSize \in Nat
        BY HeapAssumption
    <2>3. bs[n].addr \in Nat /\ bs[n].addr < End(bs[n]) /\ End(bs[i]) \in Nat
        BY <1>3, <1>4
    <2> QED BY <1>1, <2>1, <2>2, <2>3
<1>7. ASSUME NEW i \in 1 .. n PROVE bs[i] \in Blocks
    <2> DEFINE x == bs[i]
    <2>1. x.addr \in Nat /\ x.size \in Nat /\ x.allocated \in BOOLEAN
          /\ x = [addr |-> x.addr, size |-> x.size, allocated |-> x.allocated]
        BY <1>2 DEF AnyBlock
    <2>2. x.addr + Header + x.size <= HeapSize
        BY <1>6 DEF End
    <2> HIDE DEF x
    <2>3. x.addr \in 0 .. HeapSize - 1 /\ x.size \in 0 .. HeapSize
        BY <2>1, <2>2, HeapAssumption
    <2>4. x \in Blocks
        BY <2>1, <2>3 DEF Blocks, Addresses
    <2> QED BY <2>4 DEF x
<1>8. bs \in Seq(Blocks)
    <2>1. bs \in [1 .. n -> Blocks]
        <3>1. bs = [i \in 1 .. n |-> bs[i]]
            BY <1>1 DEF n
        <3> QED BY <1>7, <3>1
    <2> QED BY <1>1, <2>1
<1> QED BY <1>1, <1>2, <1>5, <1>6, <1>8 DEF n

\* One block, or two that meet, are a chain.
LEMMA OneBlock ==
    ASSUME NEW x \in AnyBlock
    PROVE  /\ Chain(<<x>>) /\ Coalesced(<<x>>) /\ <<x>> \in Seq(AnyBlock)
           /\ Len(<<x>>) = 1 /\ <<x>>[1] = x
           /\ Allocs(<<x>>) = IF x.allocated THEN {x} ELSE {}
<1> DEFINE c == <<x>>
<1>1. c \in Seq(AnyBlock) /\ Len(c) = 1 /\ c[1] = x
    OBVIOUS
<1> HIDE DEF c
<1>2. Chain(c) /\ Coalesced(c)
    BY <1>1 DEF Chain, Coalesced
<1>3. Allocs(c) = IF x.allocated THEN {x} ELSE {}
    BY <1>1 DEF Allocs
<1> QED BY <1>1, <1>2, <1>3 DEF c

LEMMA TwoBlocks ==
    ASSUME NEW x \in AnyBlock, NEW y \in AnyBlock, End(x) = y.addr,
           x.allocated, ~y.allocated
    PROVE  /\ Chain(<<x, y>>) /\ Coalesced(<<x, y>>) /\ <<x, y>> \in Seq(AnyBlock)
           /\ Len(<<x, y>>) = 2 /\ <<x, y>>[1] = x /\ <<x, y>>[2] = y
           /\ Allocs(<<x, y>>) = {x}
<1> DEFINE c == <<x, y>>
<1>1. c \in Seq(AnyBlock) /\ Len(c) = 2 /\ c[1] = x /\ c[2] = y
    OBVIOUS
<1> HIDE DEF c
<1>2. y.addr \in Nat /\ \A i \in 1 .. 2 : i = 1 \/ i = 2
    BY BlockEnds
<1>3. Chain(c)
    BY <1>1, <1>2 DEF Chain
<1>4. Coalesced(c)
    BY <1>1, <1>2 DEF Coalesced
<1>5. Allocs(c) = {x}
    BY <1>1, <1>2 DEF Allocs
<1> QED BY <1>1, <1>3, <1>4, <1>5 DEF c

LEMMA BlockUpdate ==
    ASSUME NEW x \in AnyBlock, NEW size, NEW v
    PROVE  /\ [x EXCEPT !.allocated = v]
              = [addr |-> x.addr, size |-> x.size, allocated |-> v]
           /\ [x EXCEPT !.size = size]
              = [addr |-> x.addr, size |-> size, allocated |-> x.allocated]
<1>1. PICK a \in Nat, s \in Nat, l \in BOOLEAN : x = [addr |-> a, size |-> s, allocated |-> l]
    BY DEF AnyBlock
<1>2. x.addr = a /\ x.size = s /\ x.allocated = l
    BY <1>1
<1>3. [x EXCEPT !.allocated = v] = [addr |-> a, size |-> s, allocated |-> v]
    BY <1>1
<1>4. [x EXCEPT !.size = size] = [addr |-> a, size |-> size, allocated |-> l]
    BY <1>1
<1> QED BY <1>2, <1>3, <1>4

\* os_heap_alloc: the first fit, split or not, becomes one more allocated block.
LEMMA CarvedIs ==
    ASSUME NEW bs, Tiled(bs), NEW size \in Nat, NEW i \in FirstFit(bs, size)
    PROVE  /\ i \in 1 .. Len(bs) /\ bs[i].addr \in Addresses
           /\ \A c \in Allocs(bs) : c.addr # bs[i].addr
           /\ Tiled(Carved(bs, i, size))
           /\ \E mine \in AnyBlock :
                 /\ mine.addr = bs[i].addr /\ mine.size >= size
                 /\ Allocs(Carved(bs, i, size)) = Allocs(bs) \cup {mine}
<1> DEFINE n == Len(bs)
           b == bs[i]
<1>1. /\ i \in 1 .. n /\ ~b.allocated /\ b.size >= size
    BY DEF FirstFit
<1>2. /\ n \in Nat \ {0} /\ bs \in Seq(AnyBlock) /\ Chain(bs) /\ Coalesced(bs)
      /\ bs[1].addr = 0 /\ End(bs[n]) = HeapSize /\ b \in Blocks
      /\ \A k, j \in 1 .. n : bs[k].addr = bs[j].addr => k = j
    BY <1>1, TiledBounds DEF Tiled, Chain
<1>3. /\ b \in AnyBlock /\ b.addr \in Nat /\ b.size \in Nat /\ End(b) \in Nat
      /\ b = [addr |-> b.addr, size |-> b.size, allocated |-> FALSE]
      /\ b.addr \in Addresses
    <2>1. b \in AnyBlock
        BY <1>1, <1>2
    <2>2. b.addr \in Addresses
        BY <1>2 DEF Blocks
    <2> QED BY <1>1, <2>1, <2>2, BlockEnds DEF AnyBlock
<1>4. \A c \in Allocs(bs) : c.addr # b.addr
    BY <1>1, <1>2 DEF Allocs
<1>5. i > 1 => bs[i - 1].allocated
    <2> SUFFICES ASSUME i > 1 PROVE bs[i - 1].allocated
        OBVIOUS
    <2>1. i - 1 \in 1 .. n - 1 /\ (i - 1) + 1 = i
        BY <1>1, <1>2
    <2>2. bs[i - 1].allocated \/ bs[(i - 1) + 1].allocated
        BY <1>2, <2>1 DEF Coalesced
    <2> QED BY <1>1, <2>1, <2>2
<1>6. i < n => bs[i + 1].allocated
    <2> SUFFICES ASSUME i < n PROVE bs[i + 1].allocated
        OBVIOUS
    <2>1. i \in 1 .. n - 1
        BY <1>1, <1>2
    <2>2. bs[i].allocated \/ bs[i + 1].allocated
        BY <1>2, <2>1 DEF Coalesced
    <2> QED BY <1>1, <2>2
<1>7. ASSUME NEW mid, Chain(mid), Coalesced(mid), NEW mine \in AnyBlock,
             mid[1] = mine, mine.addr = b.addr, mine.size >= size, mine.allocated,
             End(mid[Len(mid)]) = End(b), Allocs(mid) = {mine},
             Carved(bs, i, size) = Splice(bs, i, i, mid)
      PROVE  /\ Tiled(Carved(bs, i, size))
             /\ Allocs(Carved(bs, i, size)) = Allocs(bs) \cup {mine}
    <2> DEFINE new == Splice(bs, i, i, mid)
    <2>1. mid \in Seq(AnyBlock) /\ Len(mid) > 0 /\ i \in i .. n
        BY <1>1, <1>2, <1>7 DEF Chain
    <2>2. Chain(new) /\ new[1].addr = 0 /\ End(new[Len(new)]) = HeapSize
        BY <1>1, <1>2, <1>7, <2>1, SpliceChain
    <2>3. Coalesced(new)
        <3>1. \A k \in 1 .. n - 1 :
                  k + 1 < i \/ k > i => bs[k].allocated \/ bs[k + 1].allocated
            BY <1>2 DEF Coalesced
        <3>2. /\ i > 1 => bs[i - 1].allocated \/ mid[1].allocated
              /\ i < n => mid[Len(mid)].allocated \/ bs[i + 1].allocated
            BY <1>5, <1>6
        <3> QED BY <1>1, <1>2, <1>7, <2>1, <3>1, <3>2, SpliceCoalesced
    <2>4. Allocs(new) = Allocs(bs) \cup {mine}
        <3>1. Allocs(new) =
                  {bs[k] : k \in {j \in 1 .. n : bs[j].allocated /\ (j < i \/ j > i)}}
                  \cup {mine}
            BY <1>1, <1>2, <1>7, <2>1, SpliceAllocs
        <3>2. {j \in 1 .. n : bs[j].allocated /\ (j < i \/ j > i)} =
              {j \in 1 .. n : bs[j].allocated}
            BY <1>1, <1>2
        <3> QED BY <3>1, <3>2 DEF Allocs
    <2> HIDE DEF new
    <2>5. Tiled(new)
        BY <2>2, <2>3 DEF Tiled
    <2> QED BY <1>7, <2>4, <2>5 DEF new
<1>8. CASE CanSplit(b, size)
    <2> DEFINE mine == [addr |-> b.addr, size |-> size, allocated |-> TRUE]
               left == [addr |-> End(mine), size |-> b.size - size - Header,
                        allocated |-> FALSE]
    <2>1. b.size - size - Header \in Nat /\ Header \in Nat
        BY <1>3, <1>8, HeapAssumption DEF CanSplit
    <2>2. mine \in AnyBlock
        BY <1>3 DEF AnyBlock
    <2>3. End(mine) \in Nat /\ End(mine) = b.addr + Header + size
        BY <2>2, BlockEnds DEF End
    <2>4. left \in AnyBlock
        BY <2>1, <2>3 DEF AnyBlock
    <2>5. End(left) = End(b)
        <3>1. End(left) = End(mine) + Header + (b.size - size - Header)
              /\ End(b) = b.addr + Header + b.size
            BY DEF End
        <3> HIDE DEF mine, left
        <3> QED BY <1>3, <2>1, <2>3, <3>1
    <2>6. Carved(bs, i, size) = Splice(bs, i, i, <<mine, left>>)
        BY <1>8 DEF Carved, Splice
    <2>7. mine.addr = b.addr /\ mine.size >= size /\ mine.allocated /\ ~left.allocated
          /\ left.addr = End(mine)
        OBVIOUS
    <2> HIDE DEF mine, left
    <2>8. /\ Chain(<<mine, left>>) /\ Coalesced(<<mine, left>>)
          /\ Len(<<mine, left>>) = 2 /\ <<mine, left>>[1] = mine
          /\ <<mine, left>>[2] = left /\ Allocs(<<mine, left>>) = {mine}
        BY <2>2, <2>4, <2>7, TwoBlocks
    <2> DEFINE mid == <<mine, left>>
    <2>9. End(mid[Len(mid)]) = End(b)
        BY <2>5, <2>8
    <2> HIDE DEF mid
    <2>10. /\ Tiled(Carved(bs, i, size))
           /\ Allocs(Carved(bs, i, size)) = Allocs(bs) \cup {mine}
        BY <1>7, <2>2, <2>6, <2>7, <2>8, <2>9 DEF mid
    <2> QED BY <1>1, <1>3, <1>4, <2>2, <2>7, <2>10
<1>9. CASE ~CanSplit(b, size)
    <2> DEFINE mine == [addr |-> b.addr, size |-> b.size, allocated |-> TRUE]
    <2>1. mine \in AnyBlock
        BY <1>3 DEF AnyBlock
    <2>2. Carved(bs, i, size) = Splice(bs, i, i, <<mine>>)
        BY <1>9 DEF Carved, Splice
    <2>3. mine.addr = b.addr /\ mine.size >= size /\ mine.allocated /\ End(mine) = End(b)
        BY <1>1 DEF End
    <2> HIDE DEF mine
    <2>4. /\ Chain(<<mine>>) /\ Coalesced(<<mine>>) /\ Len(<<mine>>) = 1
          /\ <<mine>>[1] = mine /\ Allocs(<<mine>>) = {mine}
        BY <2>1, <2>3, OneBlock
    <2> DEFINE mid == <<mine>>
    <2>5. End(mid[Len(mid)]) = End(b)
        BY <2>3, <2>4
    <2> HIDE DEF mid
    <2>6. /\ Tiled(Carved(bs, i, size))
          /\ Allocs(Carved(bs, i, size)) = Allocs(bs) \cup {mine}
        BY <1>7, <2>1, <2>2, <2>3, <2>4, <2>5 DEF mid
    <2> QED BY <1>1, <1>3, <1>4, <2>1, <2>3, <2>6
<1> QED BY <1>8, <1>9

LEMMA JoinedIs ==
    ASSUME NEW b \in AnyBlock, NEW c \in AnyBlock, End(b) = c.addr
    PROVE  /\ Joined(b, c) \in AnyBlock /\ Joined(b, c).addr = b.addr
           /\ Joined(b, c).allocated = b.allocated /\ End(Joined(b, c)) = End(c)
<1> DEFINE size == b.size + Header + c.size
<1>1. /\ b.addr \in Nat /\ b.size \in Nat /\ b.allocated \in BOOLEAN
      /\ c.addr \in Nat /\ c.size \in Nat /\ Header \in Nat /\ size \in Nat
    BY BlockEnds, HeapAssumption
<1>2. Joined(b, c) = [b EXCEPT !.size = size]
    BY DEF Joined
<1> HIDE DEF size
<1>3. Joined(b, c) = [addr |-> b.addr, size |-> size, allocated |-> b.allocated]
    BY <1>2, BlockUpdate
<1>4. Joined(b, c) \in AnyBlock /\ Joined(b, c).addr = b.addr
      /\ Joined(b, c).allocated = b.allocated /\ Joined(b, c).size = size
    BY <1>1, <1>3 DEF AnyBlock
<1>5. End(Joined(b, c)) = b.addr + Header + size /\ End(c) = c.addr + Header + c.size
      /\ c.addr = b.addr + Header + b.size
    BY <1>4 DEF End
<1>6. End(Joined(b, c)) = End(c)
    BY <1>1, <1>5 DEF size
<1> QED BY <1>4, <1>6

\* The block of an address, found by walking the list.
LEMMA BlockAtIs ==
    ASSUME NEW bs, Tiled(bs), NEW i \in 1 .. Len(bs)
    PROVE  BlockAt(bs, bs[i].addr) = i
<1>1. \A k, j \in 1 .. Len(bs) : bs[k].addr = bs[j].addr => k = j
    BY TiledBounds
<1> QED BY <1>1 DEF BlockAt

\* prv_insert_block: the freed block and its free neighbours become one block.
LEMMA MergedIs ==
    ASSUME NEW free, Chain(free), NEW i \in 1 .. Len(free), ~free[i].allocated
    PROVE  \E first \in 1 .. i, last \in i .. Len(free), x \in AnyBlock :
              /\ Merged(free, i) = Splice(free, first, last, <<x>>)
              /\ x.addr = free[first].addr /\ End(x) = End(free[last]) /\ ~x.allocated
              /\ \A k \in first .. last : ~free[k].allocated
              /\ first = i => i = 1 \/ free[i - 1].allocated
              /\ first # i => first = i - 1
              /\ last = i => i = Len(free) \/ free[i + 1].allocated
              /\ last # i => last = i + 1
<1> DEFINE n == Len(free)
           back == i > 1 /\ ~free[i - 1].allocated /\ End(free[i - 1]) = free[i].addr
           first == IF back THEN i - 1 ELSE i
           one == IF back THEN Joined(free[i - 1], free[i]) ELSE free[i]
           on == i < n /\ ~free[i + 1].allocated /\ End(one) = free[i + 1].addr
           last == IF on THEN i + 1 ELSE i
           x == IF on THEN Joined(one, free[i + 1]) ELSE one
<1>1. /\ n \in Nat /\ i \in 1 .. n
      /\ \A k \in 1 .. n : free[k] \in AnyBlock
      /\ \A k \in 1 .. n - 1 : End(free[k]) = free[k + 1].addr
    BY DEF Chain
<1> HIDE DEF n
<1>2. i > 1 => i - 1 \in 1 .. n /\ End(free[i - 1]) = free[i].addr
    <2> SUFFICES ASSUME i > 1 PROVE i - 1 \in 1 .. n /\ End(free[i - 1]) = free[i].addr
        OBVIOUS
    <2>1. i - 1 \in 1 .. n /\ i - 1 \in 1 .. n - 1 /\ (i - 1) + 1 = i
        BY <1>1
    <2>2. End(free[i - 1]) = free[(i - 1) + 1].addr
        BY <1>1, <2>1
    <2> QED BY <2>1, <2>2
<1>3. i < n => i + 1 \in 1 .. n /\ End(free[i]) = free[i + 1].addr
    <2>1. i < n => i + 1 \in 1 .. n /\ i \in 1 .. n - 1
        BY <1>1
    <2> QED BY <1>1, <2>1
<1>4. /\ one \in AnyBlock /\ one.addr = free[first].addr /\ ~one.allocated
      /\ End(one) = End(free[i])
    <2>1. CASE back
        <3>1. free[i - 1] \in AnyBlock /\ free[i] \in AnyBlock
            BY <1>1, <1>2, <2>1
        <3>2. /\ Joined(free[i - 1], free[i]) \in AnyBlock
              /\ Joined(free[i - 1], free[i]).addr = free[i - 1].addr
              /\ Joined(free[i - 1], free[i]).allocated = free[i - 1].allocated
              /\ End(Joined(free[i - 1], free[i])) = End(free[i])
            BY <2>1, <3>1, JoinedIs
        <3>3. one = Joined(free[i - 1], free[i]) /\ first = i - 1
            BY <2>1
        <3>4. ~free[i - 1].allocated
            BY <2>1
        <3> HIDE DEF one, first
        <3> QED BY <3>2, <3>3, <3>4
    <2>2. CASE ~back
        BY <1>1, <2>2
    <2> QED BY <2>1, <2>2
<1>5. /\ x \in AnyBlock /\ x.addr = free[first].addr /\ ~x.allocated
      /\ End(x) = End(free[last])
    <2>1. CASE on
        <3>1. free[i + 1] \in AnyBlock /\ End(one) = free[i + 1].addr
            BY <1>1, <1>3, <2>1
        <3>2. x = Joined(one, free[i + 1]) /\ last = i + 1
            BY <2>1
        <3> HIDE DEF one, first, x, last
        <3> QED BY <1>4, <3>1, <3>2, JoinedIs
    <2>2. CASE ~on
        <3>1. x = one /\ last = i
            BY <2>2
        <3> HIDE DEF one, first, x, last
        <3> QED BY <1>4, <3>1
    <2> QED BY <2>1, <2>2
<1>6. Merged(free, i) = Splice(free, first, last, <<x>>)
    <2>1. (IF on THEN i + 2 ELSE i + 1) = last + 1
        BY <1>1
    <2>2. Merged(free, i) = SubSeq(free, 1, first - 1) \o <<x>>
                            \o SubSeq(free, IF on THEN i + 2 ELSE i + 1, n)
        BY DEF Merged, n
    <2> HIDE DEF on, last, x, first
    <2> QED BY <2>1, <2>2 DEF Splice, n
<1>7. /\ first \in 1 .. i /\ last \in i .. n
      /\ first # i => first = i - 1
      /\ last # i => last = i + 1
    BY <1>1
<1>8. \A k \in first .. last : ~free[k].allocated
    <2> SUFFICES ASSUME NEW k \in first .. last PROVE ~free[k].allocated
        OBVIOUS
    <2>1. k = i \/ (k = i - 1 /\ back) \/ (k = i + 1 /\ on)
        BY <1>1
    <2> QED BY <2>1
<1>9. first = i => i = 1 \/ free[i - 1].allocated
    BY <1>1, <1>2
<1>10. last = i => i = n \/ free[i + 1].allocated
    <2> SUFFICES ASSUME last = i, i # n PROVE free[i + 1].allocated
        OBVIOUS
    <2>1. i < n
        BY <1>1
    <2>2. End(one) = free[i + 1].addr
        BY <1>3, <1>4, <2>1
    <2>3. ~on
        BY <1>1
    <2> HIDE DEF one
    <2> QED BY <2>1, <2>2, <2>3
<1> HIDE DEF back, on, one, first, last, x
<1> QED BY <1>5, <1>6, <1>7, <1>8, <1>9, <1>10 DEF n

\* os_heap_free: one allocated block less.
LEMMA ReleasedIs ==
    ASSUME NEW bs, Tiled(bs), NEW blk \in Allocs(bs)
    PROVE  /\ bs[BlockAt(bs, blk.addr)] = blk
           /\ Tiled(Released(bs, blk.addr))
           /\ Allocs(Released(bs, blk.addr)) = Allocs(bs) \ {blk}
<1> DEFINE n == Len(bs)
<1>1. PICK i \in 1 .. n : bs[i] = blk /\ bs[i].allocated
    BY DEF Allocs
<1> DEFINE free == [bs EXCEPT ![i].allocated = FALSE]
<1>2. BlockAt(bs, blk.addr) = i
    BY <1>1, BlockAtIs
<1>3. Released(bs, blk.addr) = Merged(free, i)
    BY <1>2 DEF Released
<1>4. /\ n \in Nat \ {0} /\ bs \in Seq(AnyBlock) /\ Coalesced(bs)
      /\ bs[1].addr = 0 /\ End(bs[n]) = HeapSize
      /\ \A k \in 1 .. n - 1 : End(bs[k]) = bs[k + 1].addr
      /\ \A k, j \in 1 .. n : k < j => End(bs[k]) <= bs[j].addr
      /\ \A k, j \in 1 .. n : bs[k].addr = bs[j].addr => k = j
      /\ \A k \in 1 .. n : bs[k] \in AnyBlock
    BY TiledBounds DEF Tiled, Chain
<1> DEFINE y == [addr |-> bs[i].addr, size |-> bs[i].size, allocated |-> FALSE]
<1>5. y \in AnyBlock /\ y.addr = bs[i].addr /\ End(y) = End(bs[i]) /\ ~y.allocated
    <2>1. bs[i] \in AnyBlock
        BY <1>4
    <2> QED BY <2>1, BlockEnds DEF AnyBlock, End
<1>6. free = [bs EXCEPT ![i] = y]
    <2>1. [bs[i] EXCEPT !.allocated = FALSE] = y
        BY <1>4, BlockUpdate
    <2>2. free = [bs EXCEPT ![i] = [bs[i] EXCEPT !.allocated = FALSE]]
        BY <1>1, <1>4
    <2> QED BY <2>1, <2>2
<1> HIDE DEF y, free
<1>7. /\ free \in Seq(AnyBlock) /\ Len(free) = n /\ free[i] = y
      /\ \A k \in 1 .. n : k # i => free[k] = bs[k]
    BY <1>1, <1>4, <1>5, <1>6
<1> HIDE DEF n
<1>8. \A k \in 1 .. n : free[k].addr = bs[k].addr /\ End(free[k]) = End(bs[k])
    BY <1>5, <1>7
<1>9. Chain(free)
    <2>1. \A k \in 1 .. n - 1 : k \in 1 .. n /\ k + 1 \in 1 .. n
        BY <1>4
    <2>2. \A k \in 1 .. n - 1 : End(free[k]) = free[k + 1].addr
        BY <1>4, <1>8, <2>1
    <2>3. \A k, j \in 1 .. n : k < j => End(free[k]) <= free[j].addr
        BY <1>4, <1>8
    <2>4. n > 0
        BY <1>4
    <2> QED BY <1>7, <2>2, <2>3, <2>4 DEF Chain
<1>10. ~free[i].allocated /\ i \in 1 .. Len(free)
    BY <1>1, <1>5, <1>7
<1>11. PICK first \in 1 .. i, last \in i .. Len(free), x \in AnyBlock :
              /\ Merged(free, i) = Splice(free, first, last, <<x>>)
              /\ x.addr = free[first].addr /\ End(x) = End(free[last]) /\ ~x.allocated
              /\ \A k \in first .. last : ~free[k].allocated
              /\ first = i => i = 1 \/ free[i - 1].allocated
              /\ first # i => first = i - 1
              /\ last = i => i = Len(free) \/ free[i + 1].allocated
              /\ last # i => last = i + 1
    BY <1>9, <1>10, MergedIs
<1>12. /\ first \in 1 .. n /\ last \in first .. n /\ first <= i /\ i <= last
       /\ first \in Int /\ last \in Int /\ i \in Int /\ n \in Int
       /\ Len(free) = n
    BY <1>1, <1>4, <1>7
<1> DEFINE mid == <<x>>
<1>13. /\ Chain(mid) /\ Coalesced(mid) /\ mid \in Seq(AnyBlock) /\ Len(mid) = 1
       /\ mid[1] = x /\ Allocs(mid) = {} /\ mid[Len(mid)] = x
    BY <1>11, OneBlock
<1> HIDE DEF mid
<1> DEFINE new == Splice(free, first, last, mid)
<1>14. new = Merged(free, i)
    BY <1>11 DEF mid
<1>15. Chain(new) /\ new[1].addr = 0 /\ End(new[Len(new)]) = HeapSize
    <2>1. free[1].addr = 0 /\ End(free[n]) = HeapSize
        BY <1>4, <1>8
    <2>2. first \in 1 .. Len(free) /\ last \in first .. Len(free)
        BY <1>7, <1>12
    <2>3. /\ Chain(new) /\ new[1].addr = free[1].addr
          /\ End(new[Len(new)]) = End(free[Len(free)])
        BY <1>9, <1>11, <1>13, <2>2, SpliceChain
    <2> QED BY <1>7, <2>1, <2>3
<1>16. Coalesced(new)
    <2>1. \A k \in 1 .. n - 1 : bs[k].allocated \/ bs[k + 1].allocated
        BY <1>4 DEF Coalesced, n
    <2>2. ASSUME NEW k \in 1 .. n - 1, k + 1 < first \/ k > last
          PROVE  free[k].allocated \/ free[k + 1].allocated
        <3>1. k \in 1 .. n /\ k + 1 \in 1 .. n /\ k # i /\ k + 1 # i
            BY <1>12, <2>2
        <3> QED BY <1>7, <2>1, <3>1
    <2>3. first > 1 => free[first - 1].allocated
        <3> SUFFICES ASSUME first > 1, first # i PROVE free[first - 1].allocated
            BY <1>11
        <3>1. /\ first \in 1 .. n /\ first - 1 \in 1 .. n /\ first - 1 \in 1 .. n - 1
              /\ (first - 1) + 1 = first /\ first - 1 # i
            BY <1>12
        <3>2. ~free[first].allocated /\ free[first] = bs[first] /\ free[first - 1] = bs[first - 1]
            BY <1>7, <1>11, <1>12, <3>1
        <3>3. bs[first - 1].allocated \/ bs[(first - 1) + 1].allocated
            BY <2>1, <3>1
        <3> QED BY <3>1, <3>2, <3>3
    <2>4. last < n => free[last + 1].allocated
        <3> SUFFICES ASSUME last < n, last # i PROVE free[last + 1].allocated
            BY <1>11, <1>12
        <3>1. last \in 1 .. n /\ last + 1 \in 1 .. n /\ last \in 1 .. n - 1 /\ last + 1 # i
            BY <1>12
        <3>2. ~free[last].allocated /\ free[last] = bs[last] /\ free[last + 1] = bs[last + 1]
            BY <1>7, <1>11, <1>12, <3>1
        <3>3. bs[last].allocated \/ bs[last + 1].allocated
            BY <2>1, <3>1
        <3> QED BY <3>2, <3>3
    <2>5. first \in 1 .. Len(free) /\ last \in first .. Len(free) /\ Len(mid) > 0
        BY <1>7, <1>12, <1>13
    <2> HIDE DEF new
    <2> QED BY <1>7, <1>13, <2>2, <2>3, <2>4, <2>5, SpliceCoalesced DEF new
<1>17. Allocs(new) = Allocs(bs) \ {blk}
    <2> DEFINE Rest == {free[k] : k \in {j \in 1 .. n : free[j].allocated /\ (j < first \/ j > last)}}
    <2>1. Allocs(new) = Rest
        <3>1. first \in 1 .. Len(free) /\ last \in first .. Len(free)
            BY <1>7, <1>12
        <3> QED BY <1>7, <1>13, <3>1, SpliceAllocs
    <2>2. Allocs(bs) = {bs[k] : k \in {j \in 1 .. n : bs[j].allocated}}
        BY DEF Allocs, n
    <2>3. ASSUME NEW k \in 1 .. n, free[k].allocated, k < first \/ k > last
          PROVE  free[k] \in Allocs(bs) \ {blk}
        <3>1. k # i
            BY <1>12, <2>3
        <3> QED BY <1>1, <1>4, <1>7, <2>2, <2>3, <3>1
    <2>4. ASSUME NEW k \in 1 .. n, bs[k].allocated, bs[k] # blk
          PROVE  bs[k] \in Rest
        <3>1. k # i /\ free[k] = bs[k]
            BY <1>1, <1>7, <2>4
        <3>2. k \notin first .. last
            BY <1>11, <2>4, <3>1
        <3>3. k < first \/ k > last
            BY <1>12, <3>2
        <3> QED BY <2>4, <3>1, <3>3
    <2> QED BY <2>1, <2>2, <2>3, <2>4
<1>18. Tiled(new)
    BY <1>15, <1>16 DEF Tiled
<1> HIDE DEF new
<1> QED BY <1>1, <1>2, <1>3, <1>14, <1>17, <1>18

\* ALIGN_UP does not wrap for sizes that are not within an alignment of the end,
\* however often it is applied.
LEMMA AlignUpIs ==
    ASSUME NEW size \in Nat
    PROVE  /\ AlignUp(size) \in Nat
           /\ size <= Modulus - Alignment =>
                 AlignUp(size) >= size /\ AlignUp(size) <= Modulus - Alignment
<1> DEFINE x == size + Alignment - 1
           y == x % Modulus
           q == y \div Alignment
<1>1. Alignment \in Nat \ {0} /\ Modulus \in Nat \ {0} /\ Modulus % Alignment = 0
    BY HeapAssumption
<1>2. x \in Int
    BY <1>1
<1>3. AlignUp(size) = q * Alignment
    BY DEF AlignUp
<1> HIDE DEF x
<1>4. y \in 0 .. Modulus - 1
    BY <1>1, <1>2, Quotient
<1>5. AlignUp(size) \in Nat
    <2>1. y \in Int /\ y >= 0
        BY <1>1, <1>4
    <2> HIDE DEF y
    <2>2. y = Alignment * q + (y % Alignment) /\ y % Alignment \in 0 .. Alignment - 1 /\ q \in Int
        BY <1>1, <2>1, Quotient
    <2> HIDE DEF q
    <2>3. Alignment * q > -Alignment
        BY <1>1, <2>1, <2>2
    <2>4. q > -1
        <3>1. Alignment * (-1) < Alignment * q /\ -1 \in Int
            BY <1>1, <2>2, <2>3
        <3> QED BY <1>1, <2>2, <3>1, BelowMultiple
    <2>5. q \in Nat
        BY <2>2, <2>4
    <2>6. q * Alignment \in Nat
        BY <1>1, <2>5
    <2> QED BY <1>3, <2>6
<1>6. ASSUME size <= Modulus - Alignment
      PROVE  AlignUp(size) >= size /\ AlignUp(size) <= Modulus - Alignment
    <2>1. x = Modulus * 0 + x /\ x \in 0 .. Modulus - 1
        BY <1>1, <1>6 DEF x
    <2>2. y = x
        BY <1>1, <1>2, <2>1, Remainder
    <2> DEFINE r == ((size + Alignment - 1) \div Alignment) * Alignment
    <2>3. AlignUp(size) = r
        BY <1>3, <2>2 DEF x
    <2>4. r \in Nat /\ r >= size /\ r < size + Alignment /\ r % Alignment = 0
        BY <1>1, RoundUp
    <2> HIDE DEF r
    <2> DEFINE d == r \div Alignment
               k == Modulus \div Alignment
    <2>5. r = Alignment * d /\ d \in Int
        BY <1>1, <2>4, Multiple
    <2>6. Modulus = Alignment * k /\ k \in Int
        <3>1. Modulus \in Int
            BY <1>1
        <3> QED BY <1>1, <3>1, Multiple
    <2> HIDE DEF d, k
    <2>7. Alignment * d < Alignment * k
        BY <1>1, <1>6, <2>4, <2>5, <2>6
    <2>8. d < k
        BY <1>1, <2>5, <2>6, <2>7, BelowMultiple
    <2>9. Alignment * d + Alignment <= Alignment * k
        BY <1>1, <2>5, <2>6, <2>8, BelowMultiple
    <2>10. r + Alignment <= Modulus
        BY <2>5, <2>6, <2>9
    <2>11. r <= Modulus - Alignment
        BY <1>1, <2>4, <2>10
    <2> QED BY <2>3, <2>4, <2>11
<1> QED BY <1>5, <1>6

\* What the history says of the allocated blocks.
Served(a, blocks) ==
    /\ DOMAIN a = {b.addr : b \in blocks}
    /\ \A p \in DOMAIN a : a[p] \in Sizes
    /\ \A b \in blocks : a[b.addr] <= Modulus - Alignment => a[b.addr] <= b.size

\* The inductive invariant.
HeapInv ==
    /\ Tiled(px_block_list)
    /\ Served(asked, Allocs(px_block_list))
    /\ free_bytes_remaining \in 0 .. Modulus - 1
    /\ min_free_bytes_ever \in 0 .. Modulus - 1

LEMMA HeapInitially == HeapInit => HeapInv
<1> SUFFICES ASSUME HeapInit PROVE HeapInv
    OBVIOUS
<1> DEFINE x == [addr |-> 0, size |-> HeapSize - Header, allocated |-> FALSE]
<1>1. /\ px_block_list = <<x>> /\ asked = << >>
      /\ free_bytes_remaining = HeapSize - Header
      /\ min_free_bytes_ever = HeapSize - Header
    BY DEF HeapInit
<1>2. HeapSize - Header \in Nat /\ HeapSize - Header \in 0 .. Modulus - 1
    BY HeapAssumption
<1>3. x \in AnyBlock /\ End(x) = HeapSize /\ x.addr = 0 /\ ~x.allocated
    BY <1>2, HeapAssumption DEF AnyBlock, End
<1> HIDE DEF x
<1>4. /\ Chain(<<x>>) /\ Coalesced(<<x>>) /\ Len(<<x>>) = 1 /\ <<x>>[1] = x
      /\ Allocs(<<x>>) = {}
    BY <1>3, OneBlock
<1>5. Tiled(<<x>>)
    BY <1>3, <1>4 DEF Tiled
<1>6. DOMAIN asked = {}
    BY <1>1
<1>7. Served(asked, Allocs(px_block_list))
    BY <1>1, <1>4, <1>6 DEF Served
<1> QED BY <1>1, <1>2, <1>5, <1>7 DEF HeapInv

LEMMA OneBlockEach ==
    ASSUME NEW bs, Tiled(bs)
    PROVE  \A b, c \in Allocs(bs) : b \in AnyBlock /\ (b.addr = c.addr => b = c)
BY TiledBounds DEF Allocs

LEMMA HeapFollows == HeapInv => HeapTiled /\ HeapTypeOK
<1> SUFFICES ASSUME HeapInv PROVE HeapTiled /\ HeapTypeOK
    OBVIOUS
<1> DEFINE bs == px_block_list
           n == Len(bs)
           all == {bs[i].addr : i \in {j \in 1 .. n : bs[j].allocated}}
<1>1. /\ bs \in Seq(Blocks) /\ n \in Nat \ {0} /\ Tiled(bs)
      /\ \A i \in 1 .. n : bs[i] \in Blocks
    BY TiledBounds DEF HeapInv
<1>2. DOMAIN asked = {b.addr : b \in Allocs(bs)}
    BY DEF HeapInv, Served
<1>3. {b.addr : b \in Allocs(bs)} = all
    BY DEF Allocs
<1>4. ASSUME NEW p \in DOMAIN asked, asked[p] <= Modulus - Alignment
      PROVE  asked[p] <= bs[BlockAt(bs, p)].size
    <2>1. PICK i \in 1 .. n : bs[i].allocated /\ bs[i].addr = p
        BY <1>2, <1>3
    <2>2. BlockAt(bs, p) = i
        BY <1>1, <2>1, BlockAtIs
    <2>3. bs[i] \in Allocs(bs)
        BY <2>1 DEF Allocs
    <2> QED BY <1>4, <2>1, <2>2, <2>3 DEF HeapInv, Served
<1>5. HeapTiled
    <2>1. /\ bs[1].addr = 0 /\ End(bs[n]) = HeapSize
          /\ \A i \in 1 .. n - 1 : /\ End(bs[i]) = bs[i + 1].addr
                                   /\ bs[i].allocated \/ bs[i + 1].allocated
        BY <1>1 DEF Tiled, Chain, Coalesced
    <2>2. DOMAIN asked = all
        BY <1>2, <1>3
    <2> HIDE DEF all
    <2>3. /\ px_block_list[1].addr = 0
          /\ End(px_block_list[Len(px_block_list)]) = HeapSize
          /\ \A i \in 1 .. Len(px_block_list) - 1 :
                /\ End(px_block_list[i]) = px_block_list[i + 1].addr
                /\ px_block_list[i].allocated \/ px_block_list[i + 1].allocated
        BY <2>1
    <2> QED BY <1>4, <2>2, <2>3 DEF HeapTiled, all
<1>6. HeapTypeOK
    <2>1. \A b \in Blocks : b.addr \in Addresses
        BY DEF Blocks
    <2>2. DOMAIN asked \subseteq Addresses
        BY <1>1, <1>2, <1>3, <2>1
    <2> QED BY <1>1, <2>2 DEF HeapTypeOK, HeapInv, Served
<1> QED BY <1>5, <1>6

LEMMA Wrapped ==
    ASSUME NEW x \in Int
    PROVE  x % Modulus \in 0 .. Modulus - 1
BY HeapAssumption, Quotient

LEMMA LowestIs ==
    ASSUME HeapInv, NEW x \in 0 .. Modulus - 1
    PROVE  Lowest(x) \in 0 .. Modulus - 1
BY DEF HeapInv, Lowest

\* A size the application asks for, and the words it gets.
LEMMA SizeIs ==
    ASSUME NEW size \in Sizes
    PROVE  /\ size \in Nat /\ AlignUp(size) \in Nat /\ AlignUp(AlignUp(size)) \in Nat
           /\ size <= Modulus - Alignment =>
                 AlignUp(size) >= size /\ AlignUp(AlignUp(size)) >= size
<1>1. size \in Nat
    BY HeapAssumption
<1>2. /\ AlignUp(size) \in Nat
      /\ size <= Modulus - Alignment =>
            AlignUp(size) >= size /\ AlignUp(size) <= Modulus - Alignment
    BY <1>1, AlignUpIs
<1>3. /\ AlignUp(AlignUp(size)) \in Nat
      /\ AlignUp(size) <= Modulus - Alignment => AlignUp(AlignUp(size)) >= AlignUp(size)
    BY <1>2, AlignUpIs
<1> QED BY <1>1, <1>2, <1>3

LEMMA CostIs ==
    ASSUME NEW b \in AnyBlock, NEW size \in Nat
    PROVE  Cost(b, size) \in Int
BY BlockEnds, HeapAssumption DEF Cost

\* A block is allocated, and blocks that were allocated are freed.
LEMMA LiveServes ==
    ASSUME NEW A, NEW old \in SUBSET A, NEW mine, NEW size \in Sizes,
           \A b, c \in A : b.addr = c.addr => b = c,
           \A c \in A : c.addr # mine.addr,
           size <= Modulus - Alignment => size <= mine.size,
           Served(asked, A)
    PROVE  Served(Live({c.addr : c \in old}, mine.addr, size), (A \cup {mine}) \ old)
<1> DEFINE gone == {c.addr : c \in old}
           q == mine.addr
           a == Live(gone, q, size)
           B == (A \cup {mine}) \ old
<1>1. /\ DOMAIN asked = {b.addr : b \in A}
      /\ \A p \in DOMAIN asked : asked[p] \in Sizes
      /\ \A b \in A : asked[b.addr] <= Modulus - Alignment => asked[b.addr] <= b.size
    BY DEF Served
<1>2. a = [p \in (DOMAIN asked \ gone) \cup {q} |-> IF p = q THEN size ELSE asked[p]]
    BY DEF Live
<1>3. q \notin DOMAIN asked /\ mine \notin A
    BY <1>1
<1>4. \A b \in A : b \in old <=> b.addr \in gone
    OBVIOUS
<1> HIDE DEF a, gone
<1>5. /\ DOMAIN a = (DOMAIN asked \ gone) \cup {q} /\ a[q] = size
      /\ \A p \in DOMAIN asked \ gone : a[p] = asked[p]
    BY <1>2, <1>3
<1>6. \A b \in B : b = mine \/ (b \in A /\ b.addr \in DOMAIN asked \ gone)
    BY <1>1, <1>4
<1>7. DOMAIN a = {b.addr : b \in B}
    <2>1. ASSUME NEW p \in DOMAIN asked \ gone PROVE p \in {b.addr : b \in B}
        <3>1. PICK b \in A : b.addr = p
            BY <1>1
        <3>2. b \in B
            BY <1>4, <3>1
        <3> QED BY <3>1, <3>2
    <2>2. mine \in B
        BY <1>3
    <2> HIDE DEF B
    <2> QED BY <1>5, <1>6, <2>1, <2>2
<1>8. \A p \in DOMAIN a : a[p] \in Sizes
    BY <1>1, <1>5
<1>9. \A b \in B : a[b.addr] <= Modulus - Alignment => a[b.addr] <= b.size
    <2> HIDE DEF B
    <2> QED BY <1>1, <1>5, <1>6
<1> HIDE DEF B
<1> QED BY <1>7, <1>8, <1>9 DEF Served, B, a, gone

\* An allocation is freed.
LEMMA FreedServes ==
    ASSUME NEW A, NEW blk \in A,
           \A b, c \in A : b.addr = c.addr => b = c,
           Served(asked, A)
    PROVE  Served([q \in DOMAIN asked \ {blk.addr} |-> asked[q]], A \ {blk})
BY DEF Served

\* An allocation keeps its block for another size.
LEMMA ResizedServes ==
    ASSUME NEW A, NEW blk \in A, NEW size \in Sizes,
           \A b, c \in A : b.addr = c.addr => b = c,
           size <= Modulus - Alignment => size <= blk.size,
           Served(asked, A)
    PROVE  Served(Live({}, blk.addr, size), A)
<1> DEFINE q == blk.addr
           a == Live({}, q, size)
<1>1. /\ DOMAIN asked = {b.addr : b \in A}
      /\ \A p \in DOMAIN asked : asked[p] \in Sizes
      /\ \A b \in A : asked[b.addr] <= Modulus - Alignment => asked[b.addr] <= b.size
    BY DEF Served
<1>2. a = [p \in (DOMAIN asked \ {}) \cup {q} |-> IF p = q THEN size ELSE asked[p]]
    BY DEF Live
<1>3. q \in DOMAIN asked
    BY <1>1
<1> HIDE DEF a
<1>4. /\ DOMAIN a = DOMAIN asked /\ a[q] = size
      /\ \A p \in DOMAIN asked : p # q => a[p] = asked[p]
    BY <1>2, <1>3
<1>5. \A b \in A : b.addr \in DOMAIN asked /\ (b.addr = q => b = blk)
    BY <1>1
<1>6. \A b \in A : a[b.addr] <= Modulus - Alignment => a[b.addr] <= b.size
    BY <1>1, <1>4, <1>5
<1> QED BY <1>1, <1>4, <1>6 DEF Served, a

\* The block of a live allocation.
LEMMA LiveBlock ==
    ASSUME HeapInv, NEW p \in DOMAIN asked
    PROVE  \E blk \in Allocs(px_block_list) :
              /\ blk.addr = p /\ blk \in AnyBlock
              /\ px_block_list[BlockAt(px_block_list, p)] = blk
<1>1. PICK blk \in Allocs(px_block_list) : blk.addr = p
    BY DEF HeapInv, Served
<1>2. px_block_list[BlockAt(px_block_list, blk.addr)] = blk /\ blk \in AnyBlock
    BY ReleasedIs, OneBlockEach DEF HeapInv
<1> QED BY <1>1, <1>2

LEMMA AllocKeeps ==
    ASSUME HeapInv, NEW size \in Sizes, Alloc(size)
    PROVE  HeapInv'
<1> DEFINE bs == px_block_list
           words == AlignUp(size)
           A == Allocs(bs)
<1>1. Tiled(bs) /\ Served(asked, A) /\ free_bytes_remaining \in Int
    BY HeapAssumption DEF HeapInv
<1>2. words \in Nat /\ (size <= Modulus - Alignment => words >= size) /\ size \in Nat
    BY SizeIs
<1>3. PICK i \in FirstFit(bs, words) :
          /\ px_block_list' = Carved(bs, i, words)
          /\ free_bytes_remaining' = Minus(free_bytes_remaining, Cost(bs[i], words))
          /\ asked' = Live({}, bs[i].addr, size)
    BY DEF Alloc
<1>4. min_free_bytes_ever' = Lowest(free_bytes_remaining')
    BY DEF Alloc
<1> HIDE DEF words
<1>5. /\ i \in 1 .. Len(bs) /\ Tiled(Carved(bs, i, words))
      /\ \A c \in A : c.addr # bs[i].addr
    BY <1>1, <1>2, CarvedIs
<1>6. PICK mine \in AnyBlock :
          /\ mine.addr = bs[i].addr /\ mine.size >= words
          /\ Allocs(Carved(bs, i, words)) = A \cup {mine}
    BY <1>1, <1>2, CarvedIs
<1>7. Served(asked', A \cup {mine})
    <2>1. \A b, c \in A : b.addr = c.addr => b = c
        BY <1>1, OneBlockEach
    <2>2. size <= Modulus - Alignment => size <= mine.size
        BY <1>2, <1>6, BlockEnds
    <2>3. \A c \in A : c.addr # mine.addr
        BY <1>5, <1>6
    <2> HIDE DEF A
    <2>4. Served(Live({c.addr : c \in {}}, mine.addr, size), (A \cup {mine}) \ {})
        BY <1>1, <2>1, <2>2, <2>3, LiveServes
    <2>5. {c.addr : c \in {}} = {} /\ (A \cup {mine}) \ {} = A \cup {mine}
        OBVIOUS
    <2> QED BY <1>3, <1>6, <2>4, <2>5
<1>8. free_bytes_remaining' \in 0 .. Modulus - 1
    <2>1. bs[i] \in AnyBlock
        BY <1>1, <1>5, TiledBounds
    <2>2. Cost(bs[i], words) \in Int
        BY <1>2, <2>1, CostIs
    <2> QED BY <1>1, <1>3, <2>2, Wrapped DEF Minus
<1>9. min_free_bytes_ever' \in 0 .. Modulus - 1
    BY <1>4, <1>8, LowestIs
<1> QED BY <1>3, <1>5, <1>6, <1>7, <1>8, <1>9 DEF HeapInv

LEMMA FreeKeeps ==
    ASSUME HeapInv, NEW p \in DOMAIN asked, Free(p)
    PROVE  HeapInv'
<1> DEFINE bs == px_block_list
           A == Allocs(bs)
<1>1. Tiled(bs) /\ Served(asked, A) /\ free_bytes_remaining \in Int
    BY HeapAssumption DEF HeapInv
<1>2. PICK blk \in A : blk.addr = p /\ blk \in AnyBlock /\ bs[BlockAt(bs, p)] = blk
    BY LiveBlock
<1>3. /\ px_block_list' = Released(bs, p)
      /\ free_bytes_remaining' = (free_bytes_remaining + blk.size) % Modulus
      /\ asked' = [q \in DOMAIN asked \ {p} |-> asked[q]]
      /\ min_free_bytes_ever' = min_free_bytes_ever
    BY <1>2 DEF Free
<1>4. Tiled(px_block_list') /\ Allocs(px_block_list') = A \ {blk}
    BY <1>1, <1>2, <1>3, ReleasedIs
<1>5. Served(asked', A \ {blk})
    <2>1. \A b, c \in A : b.addr = c.addr => b = c
        BY <1>1, OneBlockEach
    <2> HIDE DEF A
    <2> QED BY <1>1, <1>2, <1>3, <2>1, FreedServes
<1>6. free_bytes_remaining' \in 0 .. Modulus - 1
    <2>1. free_bytes_remaining + blk.size \in Int
        BY <1>1, <1>2, BlockEnds
    <2> QED BY <1>3, <2>1, Wrapped
<1> QED BY <1>3, <1>4, <1>5, <1>6 DEF HeapInv

LEMMA InPlaceKeeps ==
    ASSUME HeapInv, NEW p \in DOMAIN asked, NEW size \in Sizes, ReallocInPlace(p, size)
    PROVE  HeapInv'
<1> DEFINE A == Allocs(px_block_list)
<1>1. Tiled(px_block_list) /\ Served(asked, A)
    BY DEF HeapInv
<1>2. PICK blk \in A :
          /\ blk.addr = p /\ blk \in AnyBlock
          /\ px_block_list[BlockAt(px_block_list, p)] = blk
    BY LiveBlock
<1>3. /\ AlignUp(size) <= blk.size /\ asked' = Live({}, p, size)
      /\ px_block_list' = px_block_list
      /\ free_bytes_remaining' = free_bytes_remaining
      /\ min_free_bytes_ever' = min_free_bytes_ever
    BY <1>2 DEF ReallocInPlace
<1>4. \A b, c \in A : b.addr = c.addr => b = c
    BY <1>1, OneBlockEach
<1>5. size <= Modulus - Alignment => size <= blk.size
    BY <1>2, <1>3, SizeIs, BlockEnds
<1>6. Served(asked', A)
    <2> HIDE DEF A
    <2> QED BY <1>1, <1>2, <1>3, <1>4, <1>5, ResizedServes
<1> QED BY <1>3, <1>6 DEF HeapInv

LEMMA MovesKeeps ==
    ASSUME HeapInv, NEW p \in DOMAIN asked, NEW size \in Sizes, ReallocMoves(p, size)
    PROVE  HeapInv'
<1> DEFINE bs == px_block_list
           words == AlignUp(AlignUp(size))
           A == Allocs(bs)
<1>1. Tiled(bs) /\ Served(asked, A) /\ free_bytes_remaining \in Int
    BY HeapAssumption DEF HeapInv
<1>2. words \in Nat /\ (size <= Modulus - Alignment => words >= size) /\ size \in Nat
    BY SizeIs
<1>3. PICK old \in A : old.addr = p /\ old \in AnyBlock /\ bs[BlockAt(bs, p)] = old
    BY LiveBlock
<1> HIDE DEF A
<1>4. PICK i \in FirstFit(bs, words) :
          LET low == Minus(free_bytes_remaining, Cost(bs[i], words))
          IN  /\ px_block_list' = Released(Carved(bs, i, words), p)
              /\ free_bytes_remaining' = (low + old.size) % Modulus
              /\ min_free_bytes_ever' = Lowest(low)
              /\ asked' = Live({p}, bs[i].addr, size)
    BY <1>3 DEF ReallocMoves
<1> DEFINE low == Minus(free_bytes_remaining, Cost(bs[i], words))
           cs == Carved(bs, i, words)
<1> HIDE DEF words
<1>5. /\ i \in 1 .. Len(bs) /\ Tiled(cs)
      /\ \A c \in A : c.addr # bs[i].addr
    BY <1>1, <1>2, CarvedIs DEF A
<1>6. PICK mine \in AnyBlock :
          /\ mine.addr = bs[i].addr /\ mine.size >= words
          /\ Allocs(cs) = A \cup {mine}
    BY <1>1, <1>2, CarvedIs DEF A
<1> HIDE DEF cs
<1>7. Tiled(Released(cs, p)) /\ Allocs(Released(cs, p)) = (A \cup {mine}) \ {old}
    <2>1. old \in Allocs(cs)
        BY <1>3, <1>6
    <2> QED BY <1>3, <1>5, <1>6, <2>1, ReleasedIs
<1>8. Served(Live({p}, mine.addr, size), (A \cup {mine}) \ {old})
    <2>1. \A b, c \in A : b.addr = c.addr => b = c
        BY <1>1, OneBlockEach DEF A
    <2>2. size <= Modulus - Alignment => size <= mine.size
        BY <1>2, <1>6, BlockEnds
    <2>3. \A c \in A : c.addr # mine.addr
        BY <1>5, <1>6
    <2>4. {old} \in SUBSET A /\ {c.addr : c \in {old}} = {p}
        BY <1>3
    <2>5. Served(Live({c.addr : c \in {old}}, mine.addr, size), (A \cup {mine}) \ {old})
        BY <1>1, <2>1, <2>2, <2>3, <2>4, LiveServes
    <2> QED BY <2>4, <2>5
<1>9. low \in 0 .. Modulus - 1
    <2>1. bs[i] \in AnyBlock
        BY <1>1, <1>5, TiledBounds
    <2>2. Cost(bs[i], words) \in Int
        BY <1>2, <2>1, CostIs
    <2> QED BY <1>1, <2>2, Wrapped DEF Minus
<1>10. /\ px_block_list' = Released(cs, p)
       /\ free_bytes_remaining' = (low + old.size) % Modulus
       /\ min_free_bytes_ever' = Lowest(low)
       /\ asked' = Live({p}, mine.addr, size)
    BY <1>4, <1>6 DEF cs
<1> HIDE DEF low
<1>11. free_bytes_remaining' \in 0 .. Modulus - 1
    <2>1. low + old.size \in Int
        BY <1>3, <1>9, BlockEnds, HeapAssumption
    <2> QED BY <1>10, <2>1, Wrapped
<1>12. min_free_bytes_ever' \in 0 .. Modulus - 1
    BY <1>9, <1>10, LowestIs
<1> QED BY <1>7, <1>8, <1>10, <1>11, <1>12 DEF HeapInv

LEMMA HeapStep == HeapInv /\ HeapNext => HeapInv'
<1> SUFFICES ASSUME HeapInv, HeapNext PROVE HeapInv'
    OBVIOUS
<1>1. CASE \E size \in Sizes : Alloc(size)
    BY <1>1, AllocKeeps
<1>2. CASE \E p \in DOMAIN asked : Free(p) \/ os_heap_realloc(p)
    <2>1. PICK p \in DOMAIN asked : Free(p) \/ os_heap_realloc(p)
        BY <1>2
    <2>2. CASE Free(p)
        BY <2>2, FreeKeeps
    <2>3. CASE os_heap_realloc(p)
        BY <2>3, FreeKeeps, InPlaceKeeps, MovesKeeps DEF os_heap_realloc
    <2> QED BY <2>1, <2>2, <2>3
<1> QED BY <1>1, <1>2 DEF HeapNext

-----------------------------------------------------------------------------
\* Both allocators.

AllocatorsInv == HeapInv /\ PoolInv

LEMMA AllocatorsInit == Init => AllocatorsInv
BY HeapInitially, PoolInitially DEF Init, AllocatorsInv

LEMMA AllocatorsStep == AllocatorsInv /\ [Next]_vars => AllocatorsInv'
<1> SUFFICES ASSUME AllocatorsInv, [Next]_vars PROVE AllocatorsInv'
    OBVIOUS
<1>1. HeapInv /\ UNCHANGED heap => HeapInv'
    BY DEF heap, HeapInv
<1>2. PoolInv /\ UNCHANGED mempool => PoolInv'
    BY PoolUnchanged
<1>3. CASE HeapNext /\ UNCHANGED mempool
    BY <1>2, <1>3, HeapStep DEF AllocatorsInv
<1>4. CASE MemPoolNext /\ UNCHANGED heap
    BY <1>1, <1>4, PoolStep DEF AllocatorsInv
<1>5. CASE UNCHANGED <<heap, mempool>>
    BY <1>1, <1>2, <1>5 DEF AllocatorsInv
<1>6. CASE UNCHANGED vars
    BY <1>5, <1>6 DEF vars, heap, mempool
<1> QED BY <1>3, <1>4, <1>5, <1>6 DEF Next

\* For every heap, pool and sequence of calls: the blocks of the heap cover it
\* without gap or overlap, free ones are never adjacent, every live allocation
\* has at least the size it was asked with (unless rounding that size up wraps),
\* and a pool's blocks are free or held, never both and none lost, aligned and
\* different also if the pool wraps around the address space, and inside the
\* buffer and apart if that was large enough (heap4.c:75-291, mempool.c:56-153).
THEOREM AllocatorsCorrect == Spec => []AllocatorsExact
<1>1. AllocatorsInv => AllocatorsExact
    BY HeapFollows, PoolFollows DEF AllocatorsInv, AllocatorsExact
<1> QED BY <1>1, AllocatorsInit, AllocatorsStep, PTL DEF Spec

-----------------------------------------------------------------------------
\* The software timers.

\* A list of active timers as the loops leave it.
ActiveLists == [head : Links, next : [Timers -> Links], rem : [Timers -> Ticks]]

LEMMA WrapsToTicks ==
    ASSUME NEW x \in Int
    PROVE  x % TimerModulus \in Ticks
BY Quotient, TimersAssumption DEF Ticks

LEMMA TicksAre == Ticks \subseteq Int /\ TimerPeriods \subseteq Ticks /\ 0 \in Ticks
BY TimersAssumption DEF Ticks

LEMMA PathIs ==
    ASSUME NEW p \in Paths
    PROVE  p \in Seq(Timers) /\ Len(p) \in Nat /\ (p # << >> => Len(p) \in 1 .. Len(p))
<1>1. PICK n \in 0 .. Cardinality(Timers) : p \in [1 .. n -> Timers]
    BY DEF Paths
<1>2. Cardinality(Timers) \in Nat
    BY TimersAssumption, FS_CardinalityType
<1>3. n \in Nat
    BY <1>2
<1>4. p \in Seq(Timers)
    BY <1>1, <1>3
<1>5. p # << >> => Len(p) # 0
    BY <1>4, EmptySeq
<1> QED BY <1>4, <1>5

LEMMA AtIs ==
    ASSUME NEW q \in ActiveLists, NEW p \in Paths
    PROVE  /\ At(q, p, Len(p)) \in Links
           /\ p # << >> => p[Len(p)] \in Timers
<1>1. p \in Seq(Timers) /\ Len(p) \in Nat /\ (p # << >> => Len(p) \in 1 .. Len(p))
    BY PathIs
<1>2. q.head \in Links /\ q.next \in [Timers -> Links]
    BY DEF ActiveLists
<1>3. CASE p = << >>
    <2>1. Len(p) = 0
        BY <1>3
    <2> QED BY <1>2, <1>3, <2>1 DEF At
<1>4. CASE p # << >>
    <2>1. Len(p) # 0 /\ p[Len(p)] \in Timers
        BY <1>1, <1>4
    <2> QED BY <1>2, <2>1 DEF At
<1> QED BY <1>3, <1>4

LEMMA LinkedIs ==
    ASSUME NEW q \in ActiveLists, NEW t \in Timers, NEW p \in Paths
    PROVE  Linked(q, t, p) \in ActiveLists
<1> DEFINE prev == p[Len(p)]
           iter == At(q, p, Len(p))
           mine == IF p = << >> THEN q.rem
                   ELSE [q.rem EXCEPT ![t] = (q.rem[t] - q.rem[prev]) % TimerModulus]
           rem  == IF iter = NoTimer THEN mine
                   ELSE [mine EXCEPT ![iter] = (mine[iter] - mine[t]) % TimerModulus]
           link == [q.next EXCEPT ![t] = iter]
<1>1. q.head \in Links /\ q.next \in [Timers -> Links] /\ q.rem \in [Timers -> Ticks]
    BY DEF ActiveLists
<1>2. iter \in Links /\ (p # << >> => prev \in Timers)
    BY AtIs
<1>3. Linked(q, t, p) =
         IF p = << >> THEN [head |-> t, next |-> link, rem |-> rem]
         ELSE [head |-> q.head, next |-> [link EXCEPT ![prev] = t], rem |-> rem]
    BY DEF Linked
<1> HIDE DEF prev, iter
<1>4. mine \in [Timers -> Ticks]
    <2>1. CASE p = << >>
        BY <1>1, <2>1
    <2>2. CASE p # << >>
        <3>1. q.rem[t] - q.rem[prev] \in Int
            <4>1. q.rem[t] \in Ticks /\ q.rem[prev] \in Ticks
                BY <1>1, <1>2, <2>2
            <4>2. q.rem[t] \in Int /\ q.rem[prev] \in Int
                BY <4>1, TicksAre
            <4> QED BY <4>2
        <3>2. (q.rem[t] - q.rem[prev]) % TimerModulus \in Ticks
            BY <3>1, WrapsToTicks
        <3> QED BY <1>1, <2>2, <3>2
    <2> QED BY <2>1, <2>2
<1> HIDE DEF mine
<1>5. rem \in [Timers -> Ticks]
    <2>1. CASE iter = NoTimer
        BY <1>4, <2>1
    <2>2. CASE iter # NoTimer
        <3>1. iter \in Timers
            BY <1>2, <2>2 DEF Links
        <3>2. mine[iter] - mine[t] \in Int
            <4>1. mine[iter] \in Ticks /\ mine[t] \in Ticks
                BY <1>4, <3>1
            <4>2. mine[iter] \in Int /\ mine[t] \in Int
                BY <4>1, TicksAre
            <4> QED BY <4>2
        <3>3. (mine[iter] - mine[t]) % TimerModulus \in Ticks
            BY <3>2, WrapsToTicks
        <3> QED BY <1>4, <2>2, <3>3
    <2> QED BY <2>1, <2>2
<1>6. link \in [Timers -> Links] /\ t \in Links
    BY <1>1, <1>2 DEF Links
<1> HIDE DEF rem, link
<1>7. [link EXCEPT ![prev] = t] \in [Timers -> Links]
    BY <1>6
<1> QED BY <1>1, <1>3, <1>5, <1>6, <1>7 DEF ActiveLists

LEMMA InsertSortedIs ==
    ASSUME NEW q \in ActiveLists, NEW t \in Timers, NEW ticks \in Ticks
    PROVE  InsertSorted(q, t, ticks) \subseteq ActiveLists
<1> DEFINE new == [q EXCEPT !.next[t] = NoTimer, !.rem[t] = ticks]
<1>1. new \in ActiveLists
    BY DEF ActiveLists, Links
<1> HIDE DEF new
<1>2. InsertSorted(q, t, ticks) =
         {Linked(new, t, p) : p \in Walks(new, {u \in Timers : new.rem[u] <= ticks})}
    BY DEF InsertSorted, new
<1>3. \A p \in Walks(new, {u \in Timers : new.rem[u] <= ticks}) : p \in Paths
    BY DEF Walks
<1> QED BY <1>1, <1>2, <1>3, LinkedIs

LEMMA UnlinkedIs ==
    ASSUME NEW q \in ActiveLists, NEW t \in Timers, NEW p \in Paths
    PROVE  Unlinked(q, t, p) \in ActiveLists
<1> DEFINE after == q.next[t]
           rem   == IF after = NoTimer THEN q.rem
                    ELSE [q.rem EXCEPT ![after] = (q.rem[after] + q.rem[t]) % TimerModulus]
<1>1. q.head \in Links /\ q.next \in [Timers -> Links] /\ q.rem \in [Timers -> Ticks]
    BY DEF ActiveLists
<1>2. after \in Links
    BY <1>1
<1>3. Unlinked(q, t, p) =
         IF At(q, p, Len(p)) # t THEN q
         ELSE IF p = << >> THEN [head |-> after, next |-> q.next, rem |-> rem]
         ELSE [head |-> q.head, next |-> [q.next EXCEPT ![p[Len(p)]] = after], rem |-> rem]
    BY DEF Unlinked
<1> HIDE DEF after
<1>4. rem \in [Timers -> Ticks]
    <2>1. CASE after = NoTimer
        BY <1>1, <2>1
    <2>2. CASE after # NoTimer
        <3>1. after \in Timers
            BY <1>2, <2>2 DEF Links
        <3>2. q.rem[after] + q.rem[t] \in Int
            BY <1>1, <3>1, TicksAre
        <3>3. (q.rem[after] + q.rem[t]) % TimerModulus \in Ticks
            BY <3>2, WrapsToTicks
        <3> QED BY <1>1, <2>2, <3>3
    <2> QED BY <2>1, <2>2
<1> HIDE DEF rem
<1>5. [q.next EXCEPT ![p[Len(p)]] = after] \in [Timers -> Links]
    BY <1>1, <1>2
<1> QED BY <1>1, <1>2, <1>3, <1>4, <1>5 DEF ActiveLists

LEMMA RemoveIs ==
    ASSUME NEW q \in ActiveLists, NEW t \in Timers
    PROVE  RemoveFromActive(q, t) \subseteq ActiveLists
<1>1. \A p \in Walks(q, Timers \ {t}) : p \in Paths
    BY DEF Walks
<1> QED BY <1>1, UnlinkedIs DEF RemoveFromActive

LEMMA ActiveIs == TimersTypeOK => Active \in ActiveLists
BY DEF TimersTypeOK, Active, ActiveLists

LEMMA RescheduledIs ==
    ASSUME TimersTypeOK, NEW t \in Timers, NEW ticks \in Ticks
    PROVE  Rescheduled(t, ticks) \subseteq ActiveLists
<1> DEFINE before == IF active[t] THEN RemoveFromActive(Active, t) ELSE {Active}
<1>1. before \subseteq ActiveLists
    BY ActiveIs, RemoveIs
<1>2. Rescheduled(t, ticks) = UNION {InsertSorted(q, t, ticks) : q \in before}
    BY DEF Rescheduled
<1> HIDE DEF before
<1> QED BY <1>1, <1>2, InsertSortedIs

LEMMA SetActiveIs ==
    ASSUME NEW results, results \subseteq ActiveLists, SetActive(results)
    PROVE  /\ active_timer_list' \in Links
           /\ next' \in [Timers -> Links]
           /\ remaining' \in [Timers -> Ticks]
BY DEF SetActive, ActiveLists

\* The inductive invariant: the types and the property.
ServiceInv == TimersTypeOK /\ ServiceSignalled

LEMMA ServiceInitially == Init => ServiceInv
<1> SUFFICES ASSUME Init PROVE ServiceInv
    OBVIOUS
<1>1. TimersInit
    BY DEF Init
<1> DEFINE one == CHOOSE p \in TimerPeriods : TRUE
<1>2. one \in TimerPeriods
    BY TimersAssumption
<1>3. period = [t \in Timers |-> one]
    BY <1>1 DEF TimersInit
<1> HIDE DEF one
<1>4. period \in [Timers -> TimerPeriods]
    BY <1>2, <1>3
<1>5. active \in [Timers -> BOOLEAN]
    BY <1>1, Zenon DEF TimersInit
<1>6. /\ tick \in [at : TickStages, timer : Links, need_signal : BOOLEAN] /\ tick.at = "none"
      /\ service \in [at : ServiceStages, timer : Links, list : Links] /\ service.at = "take"
    BY <1>1 DEF TimersInit, TickStages, ServiceStages, Links
<1>7. /\ active_timer_list \in Links /\ expired_list \in Links /\ timer_sem \in {0, 1}
      /\ next \in [Timers -> Links] /\ remaining \in [Timers -> Ticks]
    BY <1>1, TicksAre DEF TimersInit, Links
<1>8. TimersTypeOK
    BY <1>4, <1>5, <1>6, <1>7 DEF TimersTypeOK
<1>9. ServiceSignalled
    BY <1>1 DEF TimersInit, ServiceSignalled
<1> QED BY <1>8, <1>9 DEF ServiceInv

\* What the calls leave alone, and what they make of the list.
LEMMA CallsKeep ==
    ASSUME ServiceInv, UNCHANGED <<expired_list, timer_sem, tick, service>>,
           active_timer_list' \in Links, next' \in [Timers -> Links],
           remaining' \in [Timers -> Ticks], active' \in [Timers -> BOOLEAN],
           period' \in [Timers -> TimerPeriods]
    PROVE  ServiceInv'
BY DEF ServiceInv, TimersTypeOK, ServiceSignalled

LEMMA TimerCallKeeps ==
    ASSUME ServiceInv, NEW t \in Timers,
           \/ Start(t) \/ Stop(t) \/ Reset(t)
           \/ \E new \in TimerPeriods : ChangePeriod(t, new)
    PROVE  ServiceInv'
<1>1. /\ TimersTypeOK /\ period[t] \in Ticks
      /\ active \in [Timers -> BOOLEAN] /\ period \in [Timers -> TimerPeriods]
      /\ active_timer_list \in Links /\ next \in [Timers -> Links]
      /\ remaining \in [Timers -> Ticks]
    BY TicksAre DEF ServiceInv, TimersTypeOK
<1>2. Rescheduled(t, period[t]) \subseteq ActiveLists
    BY <1>1, RescheduledIs
<1>3. CASE Start(t)
    <2>1. /\ active_timer_list' \in Links /\ next' \in [Timers -> Links]
          /\ remaining' \in [Timers -> Ticks]
        BY <1>2, <1>3, SetActiveIs DEF Start
    <2>2. active' \in [Timers -> BOOLEAN]
        BY <1>1, <1>3, Zenon DEF Start
    <2> QED BY <1>1, <1>3, <2>1, <2>2, CallsKeep DEF Start
<1>4. CASE Stop(t)
    <2>1. RemoveFromActive(Active, t) \subseteq ActiveLists
        BY <1>1, ActiveIs, RemoveIs
    <2>2. /\ active_timer_list' \in Links /\ next' \in [Timers -> Links]
          /\ remaining' \in [Timers -> Ticks]
        BY <1>4, <2>1, SetActiveIs DEF Stop
    <2>3. active' \in [Timers -> BOOLEAN]
        BY <1>1, <1>4, Zenon DEF Stop
    <2> QED BY <1>1, <1>4, <2>2, <2>3, CallsKeep DEF Stop
<1>5. CASE Reset(t)
    <2>1. /\ active_timer_list' \in Links /\ next' \in [Timers -> Links]
          /\ remaining' \in [Timers -> Ticks]
        BY <1>2, <1>5, SetActiveIs DEF Reset
    <2> QED BY <1>1, <1>5, <2>1, CallsKeep DEF Reset
<1>6. ASSUME NEW new \in TimerPeriods, ChangePeriod(t, new) PROVE ServiceInv'
    <2>1. new \in Ticks
        BY TicksAre
    <2>2. Rescheduled(t, new) \subseteq ActiveLists
        BY <1>1, <2>1, RescheduledIs
    <2>3. /\ active_timer_list' \in Links /\ next' \in [Timers -> Links]
          /\ remaining' \in [Timers -> Ticks]
        <3>1. CASE active[t]
            BY <1>6, <2>2, <3>1, SetActiveIs DEF ChangePeriod
        <3>2. CASE ~active[t]
            BY <1>1, <1>6, <3>2 DEF ChangePeriod
        <3> QED BY <3>1, <3>2
    <2>4. period' \in [Timers -> TimerPeriods]
        BY <1>1, <1>6 DEF ChangePeriod
    <2> QED BY <1>1, <1>6, <2>3, <2>4, CallsKeep DEF ChangePeriod
<1> QED BY <1>3, <1>4, <1>5, <1>6

LEMMA TickBeginKeeps == ServiceInv /\ TickBegin => ServiceInv'
<1> SUFFICES ASSUME ServiceInv, TickBegin PROVE ServiceInv'
    OBVIOUS
<1>1. TimersTypeOK /\ ServiceSignalled
    BY DEF ServiceInv
<1>2. active_timer_list \in Timers
    BY <1>1 DEF TickBegin, TimersTypeOK, Links
<1>3. remaining[active_timer_list] - 1 \in Int
    <2>1. remaining[active_timer_list] \in Ticks
        BY <1>1, <1>2 DEF TimersTypeOK
    <2>2. remaining[active_timer_list] \in Int
        BY <2>1, TicksAre
    <2> QED BY <2>2
<1>4. (remaining[active_timer_list] - 1) % TimerModulus \in Ticks
    BY <1>3, WrapsToTicks
<1>5. remaining' \in [Timers -> Ticks]
    BY <1>1, <1>4 DEF TickBegin, TimersTypeOK
<1>6. /\ tick' \in [at : TickStages, timer : Links, need_signal : BOOLEAN]
      /\ tick'.at = "test"
    BY <1>1 DEF TickBegin, TimersTypeOK, TickStages
<1>7. TimersTypeOK'
    BY <1>1, <1>5, <1>6 DEF TickBegin, TimersTypeOK
<1>8. ServiceSignalled'
    BY <1>1 DEF TickBegin, ServiceSignalled
<1> QED BY <1>7, <1>8 DEF ServiceInv

LEMMA TickTestKeeps == ServiceInv /\ TickTest => ServiceInv'
<1> SUFFICES ASSUME ServiceInv, TickTest PROVE ServiceInv'
    OBVIOUS
<1>1. TimersTypeOK /\ ServiceSignalled /\ tick.at = "test"
    BY DEF ServiceInv, TickTest
<1>2. UNCHANGED <<active_timer_list, next, remaining, period, active, expired_list, service>>
    BY DEF TickTest
<1>3. CASE active_timer_list # NoTimer /\ remaining[active_timer_list] = 0
    <2>1. /\ tick' = [tick EXCEPT !.at = "unlink", !.timer = active_timer_list]
          /\ timer_sem' = timer_sem
        BY <1>3 DEF TickTest
    <2>2. active_timer_list \in Timers
        BY <1>1, <1>3 DEF TimersTypeOK, Links
    <2>3. /\ tick' \in [at : TickStages, timer : Links, need_signal : BOOLEAN]
          /\ tick'.timer \in Timers /\ tick'.at = "unlink" /\ tick'.need_signal = tick.need_signal
        BY <1>1, <2>1, <2>2 DEF TimersTypeOK, TickStages, Links
    <2>4. TimersTypeOK'
        BY <1>1, <1>2, <2>1, <2>3 DEF TimersTypeOK
    <2>5. ServiceSignalled'
        BY <1>1, <1>2, <2>1, <2>3 DEF ServiceSignalled
    <2> QED BY <2>4, <2>5 DEF ServiceInv
<1>4. CASE ~(active_timer_list # NoTimer /\ remaining[active_timer_list] = 0)
    <2>1. /\ tick' = [tick EXCEPT !.at = "none", !.need_signal = FALSE]
          /\ timer_sem' = IF tick.need_signal THEN 1 ELSE timer_sem
        BY <1>4 DEF TickTest
    <2>2. /\ tick' \in [at : TickStages, timer : Links, need_signal : BOOLEAN]
          /\ tick'.at = "none"
        BY <1>1, <2>1 DEF TimersTypeOK, TickStages
    <2>3. timer_sem' \in {0, 1}
        BY <1>1, <2>1 DEF TimersTypeOK
    <2>4. TimersTypeOK'
        BY <1>1, <1>2, <2>2, <2>3 DEF TimersTypeOK
    <2>5. ServiceSignalled'
        BY <1>1, <1>2, <2>1 DEF ServiceSignalled
    <2> QED BY <2>4, <2>5 DEF ServiceInv
<1> QED BY <1>3, <1>4

LEMMA TickUnlinkKeeps == ServiceInv /\ TickUnlink => ServiceInv'
<1> SUFFICES ASSUME ServiceInv, TickUnlink PROVE ServiceInv'
    OBVIOUS
<1>1. TimersTypeOK /\ ServiceSignalled /\ tick.at = "unlink" /\ tick.timer \in Timers
    BY DEF ServiceInv, TickUnlink, TimersTypeOK
<1>2. /\ tick' \in [at : TickStages, timer : Links, need_signal : BOOLEAN]
      /\ tick'.timer \in Timers /\ tick'.at = "reload" /\ tick'.need_signal = tick.need_signal
    BY <1>1 DEF TickUnlink, TimersTypeOK, TickStages
<1>3. active_timer_list' \in Links
    BY <1>1 DEF TickUnlink, TimersTypeOK
<1>4. TimersTypeOK'
    BY <1>1, <1>2, <1>3 DEF TickUnlink, TimersTypeOK
<1>5. ServiceSignalled'
    BY <1>1, <1>2 DEF TickUnlink, ServiceSignalled
<1> QED BY <1>4, <1>5 DEF ServiceInv

LEMMA TickReloadKeeps == ServiceInv /\ TickReload => ServiceInv'
<1> SUFFICES ASSUME ServiceInv, TickReload PROVE ServiceInv'
    OBVIOUS
<1> DEFINE t == tick.timer
<1>1. TimersTypeOK /\ ServiceSignalled /\ tick.at = "reload" /\ t \in Timers
    BY DEF ServiceInv, TickReload, TimersTypeOK
<1>2. /\ tick' \in [at : TickStages, timer : Links, need_signal : BOOLEAN]
      /\ tick'.timer \in Timers /\ tick'.at = "push" /\ tick'.need_signal = tick.need_signal
    BY <1>1 DEF TickReload, TimersTypeOK, TickStages
<1>3. UNCHANGED <<period, expired_list, timer_sem, service>>
    BY DEF TickReload
<1>4. /\ active_timer_list' \in Links /\ next' \in [Timers -> Links]
      /\ remaining' \in [Timers -> Ticks] /\ active' \in [Timers -> BOOLEAN]
    <2>1. CASE t \in AutoReload
        <3>1. period[t] \in Ticks
            BY <1>1, TicksAre DEF TimersTypeOK
        <3>2. InsertSorted(Active, t, period[t]) \subseteq ActiveLists
            BY <1>1, <3>1, ActiveIs, InsertSortedIs
        <3>3. SetActive(InsertSorted(Active, t, period[t])) /\ active' = active
            BY <2>1 DEF TickReload
        <3> QED BY <1>1, <3>2, <3>3, SetActiveIs DEF TimersTypeOK
    <2>2. CASE t \notin AutoReload
        <3>1. /\ active' = [active EXCEPT ![t] = FALSE]
              /\ UNCHANGED <<active_timer_list, next, remaining>>
            BY <2>2 DEF TickReload
        <3>2. active' \in [Timers -> BOOLEAN]
            BY <1>1, <3>1, Zenon DEF TimersTypeOK
        <3> QED BY <1>1, <3>1, <3>2 DEF TimersTypeOK
    <2> QED BY <2>1, <2>2
<1>5. TimersTypeOK'
    BY <1>1, <1>2, <1>3, <1>4 DEF TimersTypeOK
<1>6. ServiceSignalled'
    BY <1>1, <1>2, <1>3 DEF ServiceSignalled
<1> QED BY <1>5, <1>6 DEF ServiceInv

LEMMA TickPushKeeps == ServiceInv /\ TickPush => ServiceInv'
<1> SUFFICES ASSUME ServiceInv, TickPush PROVE ServiceInv'
    OBVIOUS
<1>1. TimersTypeOK /\ tick.timer \in Timers
    BY DEF ServiceInv, TickPush, TimersTypeOK
<1>2. /\ tick' \in [at : TickStages, timer : Links, need_signal : BOOLEAN]
      /\ tick'.at = "test" /\ tick'.need_signal = TRUE
    BY <1>1 DEF TickPush, TickStages, Links
<1>3. next' \in [Timers -> Links] /\ expired_list' \in Links
    BY <1>1 DEF TickPush, TimersTypeOK, Links
<1>4. TimersTypeOK'
    BY <1>1, <1>2, <1>3 DEF TickPush, TimersTypeOK
<1>5. ServiceSignalled'
    BY <1>2 DEF ServiceSignalled
<1> QED BY <1>4, <1>5 DEF ServiceInv

LEMMA ServiceTaskKeeps == ServiceInv /\ tick.at = "none" /\ timer_service_task => ServiceInv'
<1> SUFFICES ASSUME ServiceInv, tick.at = "none", timer_service_task PROVE ServiceInv'
    OBVIOUS
<1>1. TimersTypeOK /\ ServiceSignalled
    BY DEF ServiceInv
<1>2. CASE Take
    <2>1. /\ service' \in [at : ServiceStages, timer : Links, list : Links]
          /\ service'.at = "grab"
        BY <1>1, <1>2 DEF Take, TimersTypeOK, ServiceStages
    <2>2. TimersTypeOK'
        BY <1>1, <1>2, <2>1 DEF Take, TimersTypeOK
    <2> QED BY <2>1, <2>2 DEF ServiceInv, ServiceSignalled
<1>3. CASE Grab
    <2>1. /\ service' \in [at : ServiceStages, timer : Links, list : Links]
          /\ service'.at = "next" /\ expired_list' = NoTimer
        BY <1>1, <1>3 DEF Grab, TimersTypeOK, ServiceStages
    <2>2. TimersTypeOK'
        BY <1>1, <1>3, <2>1 DEF Grab, TimersTypeOK, Links
    <2> QED BY <2>1, <2>2 DEF ServiceInv, ServiceSignalled
<1>4. CASE NextExpired
    <2>1. /\ service' \in [at : ServiceStages, timer : Links, list : Links]
          /\ service'.at = "clear" => service'.timer \in Timers
        BY <1>1, <1>4 DEF NextExpired, TimersTypeOK, ServiceStages, Links
    <2>2. TimersTypeOK'
        BY <1>1, <1>4, <2>1 DEF NextExpired, TimersTypeOK
    <2>3. ServiceSignalled'
        BY <1>1, <1>4 DEF NextExpired, ServiceSignalled
    <2> QED BY <2>2, <2>3 DEF ServiceInv
<1>5. CASE CallBack
    <2>1. /\ service' \in [at : ServiceStages, timer : Links, list : Links]
          /\ service'.at = "next"
        BY <1>1, <1>5 DEF CallBack, TimersTypeOK, ServiceStages, Links
    <2>2. next' \in [Timers -> Links]
        BY <1>1, <1>5 DEF CallBack, TimersTypeOK, Links
    <2>3. TimersTypeOK'
        BY <1>1, <1>5, <2>1, <2>2 DEF CallBack, TimersTypeOK
    <2>4. ServiceSignalled'
        BY <1>1, <1>5 DEF CallBack, ServiceSignalled
    <2> QED BY <2>3, <2>4 DEF ServiceInv
<1> QED BY <1>2, <1>3, <1>4, <1>5 DEF timer_service_task

LEMMA ServiceStep == ServiceInv /\ [Next]_vars => ServiceInv'
<1> SUFFICES ASSUME ServiceInv, [Next]_vars PROVE ServiceInv'
    OBVIOUS
<1>1. CASE TimersNext
    BY <1>1, TimerCallKeeps, TickBeginKeeps, TickTestKeeps, TickUnlinkKeeps,
       TickReloadKeeps, TickPushKeeps, ServiceTaskKeeps DEF TimersNext, TimerCall, TimerTick
<1>2. CASE UNCHANGED timers
    BY <1>2 DEF timers, ServiceInv, TimersTypeOK, ServiceSignalled
<1>3. CASE UNCHANGED vars
    BY <1>3 DEF vars, ServiceInv, TimersTypeOK, ServiceSignalled
<1> QED BY <1>1, <1>2, <1>3 DEF Next

\* For any number of timers and whatever becomes of their links, the service
\* task will look at a list of expired timers that is not empty
\* (timer.c:113-133, 377-400).
THEOREM ServiceCorrect == Spec => []ServiceSignalled
<1>1. ServiceInv => ServiceSignalled
    BY DEF ServiceInv
<1> QED BY <1>1, ServiceInitially, ServiceStep, PTL DEF Spec

-----------------------------------------------------------------------------
\* Types.

\* Every invariant so far: each has the types of its part in it.
TypesInv ==
    /\ focus \in Parts
    /\ SectionsInv /\ HandlersInv
    /\ PeriodInv
    /\ WatchdogInv
    /\ AllocatorsInv
    /\ ServiceInv

LEMMA TypesInit == Init => TypesInv
<1>1. Init => focus \in Parts
    BY DEF Init
<1> QED BY <1>1, SectionsInit, HandlersInit, PeriodInit, WatchdogInitially, AllocatorsInit,
           ServiceInitially DEF TypesInv

LEMMA TypesStep == TypesInv /\ [Next]_vars => TypesInv'
<1> SUFFICES ASSUME TypesInv, [Next]_vars PROVE TypesInv'
    OBVIOUS
<1>1. focus' \in Parts
    BY DEF TypesInv, Next, vars
<1> QED BY <1>1, SectionsStep, HandlersStep, PeriodStep, WatchdogStep, AllocatorsStep,
           ServiceStep DEF TypesInv

LEMMA PeriodTypes == PeriodInv => DelayUntilTypeOK
<1> SUFFICES ASSUME PeriodInv PROVE DelayUntilTypeOK
    OBVIOUS
<1> DEFINE x == system_tick + gap
<1>1. x \in Int /\ previous_wake_tick = x % TickModulus
    BY TickRange DEF PeriodInv, PeriodKept
<1> HIDE DEF x
<1>2. previous_wake_tick \in 0 .. TickModulus - 1
    BY <1>1, Quotient, TickRange
<1> QED BY <1>2 DEF PeriodInv, DelayUntilTypeOK

LEMMA PortsTypes == SectionsInv /\ HandlersInv => PortsTypeOK
BY BodiesFinite DEF SectionsInv, HandlersInv, PortsTypeOK

\* Every variable of every service keeps its type: no counter leaves its width, no
\* table its bound, no handler is counted twice and no link leads outside the
\* timers.
THEOREM ServicesTypeCorrect == Spec => []TypeOK
<1>1. TypesInv => TypeOK
    BY HeapFollows, PoolFollows, PeriodTypes, PortsTypes
       DEF TypesInv, TypeOK, AllocatorsInv, WatchdogInv, ServiceInv
<1> QED BY <1>1, TypesInit, TypesStep, PTL DEF Spec
=============================================================================
