----------------------------- MODULE EventGroup -----------------------------
(***************************************************************************)
(* One event group of kernel/eventgroup.c.  A call of a task is one step   *)
(* up to the end of its critical section.  The walk of the wait list by    *)
(* os_eventgroup_set_bits is in that section, so it is part of the step:   *)
(* Walk computes what it does, waiter by waiter in the order of the list.  *)
(***************************************************************************)
EXTENDS TaskCalls

CONSTANTS
    Bits,            \* the bits of the group in use
    Requests         \* the waits tasks ask for

\* OS_EVENT_WAIT_ALL (else WAIT_ANY) and OS_EVENT_CLEAR_ON_EXIT.
Wants == [bits : SUBSET Bits, all : BOOLEAN, clear : BOOLEAN]

ASSUME RequestsAssumption == Requests \subseteq Wants

VARIABLES
    bits,            \* eg->bits, as the set of its one bits
    wait_list,       \* the linked list, as the sequence of its tasks
    want,            \* event_wait_bits and event_wait_options of each task
    event_return_bits

eventgroup == <<bits, wait_list, want, event_return_bits>>

NoWant == [bits |-> {}, all |-> FALSE, clear |-> FALSE]

Waiting == Elements(wait_list)

EventGroupTypeOK ==
    /\ bits \subseteq Bits
    /\ wait_list \in Seq(Tasks \ {Idle})
    /\ want \in [Tasks -> Wants]
    /\ event_return_bits \in [Tasks -> SUBSET Bits]

\* os_eventgroup_create
EventGroupInit ==
    /\ bits = {}
    /\ wait_list = << >>
    /\ want = [t \in Tasks |-> NoWant]
    /\ event_return_bits = [t \in Tasks |-> {}]

-----------------------------------------------------------------------------

\* prv_check_condition
Met(b, w) == IF w.all THEN w.bits \subseteq b ELSE b \cap w.bits # {}

\* What is left of the bits after a wait that is met.
Left(b, w) == IF w.clear THEN b \ w.bits ELSE b

\* Mutant: every waiter sees the bits as they were set; clearing comes last.
WalkThenClear(b) ==
    LET woken == {t \in Waiting : Met(b, want[t])}
    IN  [bits  |-> b \ UNION {want[t].bits : t \in {u \in woken : want[u].clear}},
         woken |-> woken,
         seen  |-> [t \in Tasks |-> b]]

\* Mutant: the walk ends at the first waiter that is woken.
WalkToFirst(b) ==
    LET met == {i \in 1 .. Len(wait_list) : Met(b, want[wait_list[i]])}
        first == wait_list[CHOOSE i \in met : \A j \in met : i <= j]
    IN  IF met = {}
        THEN [bits |-> b, woken |-> {}, seen |-> [t \in Tasks |-> b]]
        ELSE [bits |-> Left(b, want[first]), woken |-> {first},
              seen |-> [t \in Tasks |-> b]]

\* Mutant: the returned bits are read after the clearing.
WalkReturnsLeft(b) ==
    LET woken == {t \in Waiting : Met(b, want[t])}
        left == b \ UNION {want[t].bits : t \in {u \in woken : want[u].clear}}
    IN  [bits |-> left, woken |-> woken, seen |-> [t \in Tasks |-> left]]

\* The loop over the wait list: in list order, each waiter whose condition the
\* bits left so far meet is woken with those bits, and may clear its own.
Walk(b) ==
    LET after[i \in 0 .. Len(wait_list)] ==
            IF i = 0 THEN b
            ELSE LET w == want[wait_list[i]]
                 IN  IF Met(after[i - 1], w) THEN Left(after[i - 1], w)
                     ELSE after[i - 1]
        place(t) == CHOOSE i \in 1 .. Len(wait_list) : wait_list[i] = t
    IN  [bits  |-> after[Len(wait_list)],
         woken |-> {t \in Waiting : Met(after[place(t) - 1], want[t])},
         seen  |-> [t \in Tasks |-> IF t \in Waiting THEN after[place(t) - 1] ELSE b]]

\* prv_unblock_task and os_task_add_to_ready, for every task that is to go on.
Unblock(gone) ==
    /\ wait_list' = Without(wait_list, gone)
    /\ MakeReady(gone)
    /\ blocked_reason' = [t \in Tasks |-> IF t \in gone THEN "none" ELSE blocked_reason[t]]

\* The effect of setting bits, whoever sets them.
SetBits(new) ==
    LET w == Walk(bits \cup new)
    IN  /\ bits' = w.bits
        /\ Unblock(w.woken)
        /\ event_return_bits' = [t \in Tasks |-> IF t \in w.woken THEN w.seen[t]
                                                 ELSE event_return_bits[t]]
        /\ signalled' = signalled \cup w.woken
        /\ UNCHANGED <<want, delay>>

-----------------------------------------------------------------------------

\* os_eventgroup_wait_bits when the condition is met.  When it is not, a call
\* with OS_WAIT_NONE changes nothing.
WaitNow(t, w) ==
    /\ Calls(t)
    /\ Met(bits, w)
    /\ bits' = Left(bits, w)
    /\ UNCHANGED <<dispatcher, calls, wait_list, want, event_return_bits>>

\* os_eventgroup_wait_bits that blocks.  The timeout goes to delay_ticks, which
\* nobody counts down for a task on this list.
WaitBlocks(t, w) ==
    /\ Calls(t)
    /\ ~Met(bits, w)
    /\ Block(t)
    /\ wait_list' = Inserted(wait_list, t)
    /\ want' = [want EXCEPT ![t] = w]
    /\ event_return_bits' = [event_return_bits EXCEPT ![t] = {}]
    /\ blocked_reason' = [blocked_reason EXCEPT ![t] = "event"]
    /\ Goto(t, "wait")
    /\ UNCHANGED <<priority, current, pendsv, delay, bits, signalled>>

\* os_eventgroup_wait_bits returns event_return_bits; the fields are not read
\* again before the next wait writes them.
Waited(t) ==
    /\ Runs(t)
    /\ pc[t] = "waited"
    /\ Goto(t, "run")
    /\ want' = [want EXCEPT ![t] = NoWant]
    /\ event_return_bits' = [event_return_bits EXCEPT ![t] = {}]
    /\ UNCHANGED <<dispatcher, delay, blocked_reason, signalled, bits, wait_list>>

\* os_eventgroup_set_bits: need_yield is decided inside the critical section.
Set(t, new) ==
    /\ Calls(t)
    /\ SetBits(new)
    /\ Goto(t, IF \E u \in Walk(bits \cup new).woken : priority[u] < priority[t]
               THEN "yield" ELSE "run")
    /\ UNCHANGED <<priority, current, pendsv>>

\* Mutant: no switch is asked for.
SetFromISRQuietly(new) ==
    /\ SetBits(new)
    /\ UNCHANGED <<priority, current, pendsv, pc>>

\* os_eventgroup_set_bits_from_isr
SetFromISR(new) ==
    /\ SetBits(new)
    /\ pendsv' = (pendsv \/ Walk(bits \cup new).woken # {})
    /\ UNCHANGED <<priority, current, pc>>

\* os_eventgroup_clear_bits and os_eventgroup_clear_bits_from_isr
Clear(old) ==
    /\ bits \cap old # {}
    /\ bits' = bits \ old
    /\ UNCHANGED <<dispatcher, calls, wait_list, want, event_return_bits>>

\* os_eventgroup_delete: every waiter is made ready and will return no bits.
DeleteGroup(t) ==
    /\ Calls(t)
    /\ Unblock(Waiting)
    /\ event_return_bits' = [u \in Tasks |-> IF u \in Waiting THEN {}
                                             ELSE event_return_bits[u]]
    /\ bits' = {}
    /\ UNCHANGED <<priority, current, pendsv, pc, delay, signalled, want>>

os_eventgroup_wait_bits(t) ==
    \/ \E w \in Requests : WaitNow(t, w) \/ WaitBlocks(t, w)
    \/ Waited(t)

EventGroupNext ==
    \/ \E t \in Tasks \ {Idle} :
          \/ os_eventgroup_wait_bits(t)
          \/ \E new \in SUBSET Bits \ {{}} : Set(t, new)
          \/ DeleteGroup(t)
    \/ \E b \in SUBSET Bits \ {{}} : SetFromISR(b) \/ Clear(b)

-----------------------------------------------------------------------------
\* Properties.

\* No lost wake-up: whatever was set, cleared and consumed by others, no task is
\* left waiting for a condition that the bits meet, and the list holds exactly
\* the tasks blocked in os_eventgroup_wait_bits, by priority
\* (eventgroup.c:131-178).
NobodyOverlooked ==
    /\ Ordered(wait_list)
    /\ Waiting = {t \in Tasks : pc[t] \in {"wait", "waited"} /\ state[t] = "BLOCKED"}
    /\ \A t \in Waiting : ~Met(bits, want[t])

\* A wait returns bits that met its condition at the moment it was woken,
\* however the bits have changed until it runs; after a deletion it returns no
\* bits (eventgroup.c:146-156, 289).
ReturnsWhatWasMet ==
    \A t \in Tasks :
        pc[t] \in {"wait", "waited"} /\ t \notin Waiting =>
            event_return_bits[t] = {} \/ Met(event_return_bits[t], want[t])

\* Clear-on-exit hands an event to one task: when one set wakes several, a task
\* does not see the bits that a task before it in the list has consumed
\* (eventgroup.c:150-152).
ConsumedOnce ==
    [][\A i, j \in 1 .. Len(wait_list) :
          /\ i < j
          /\ wait_list[i] \in signalled' \ signalled
          /\ wait_list[j] \in signalled' \ signalled
          /\ want[wait_list[i]].clear
          => want[wait_list[i]].bits \cap event_return_bits'[wait_list[j]] = {}
      ]_<<signalled, wait_list, want, event_return_bits>>
=============================================================================
