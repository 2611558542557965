------------------------------ MODULE Semaphore ------------------------------
(***************************************************************************)
(* One semaphore of kernel/semaphore.c, used by tasks and by interrupt     *)
(* service routines.                                                       *)
(*                                                                         *)
(* A call of a task is one step up to the end of its critical section; the *)
(* steps after it (os_sched_yield, the test of timed_out on resumption,    *)
(* the comparison of priorities in os_sem_give) are steps of their own,    *)
(* and switches and interrupts come between any two of them.               *)
(***************************************************************************)
EXTENDS WaitLists

CONSTANT MaxCount    \* the max_count it is created with; 1 for a binary one

ASSUME CountAssumption == MaxCount \in Nat \ {0}

VARIABLES
    count, max_count,
    wait_list,       \* the linked list, as the sequence of its tasks
    timed_out,       \* TCB field
    pc,              \* where each task continues
    woken,           \* the task an os_sem_give has made ready (else Idle)
    tokens           \* history: created and given less those returned with

semaphore == <<count, max_count, wait_list, timed_out, pc, woken, tokens>>
vars == <<state, priority, current, pendsv, count, max_count, wait_list,
          timed_out, pc, woken, tokens>>

Waiting == Elements(wait_list)

TypeOK ==
    /\ DispatcherTypeOK
    /\ count \in 0 .. MaxCount
    /\ max_count \in {0, MaxCount}
    /\ wait_list \in Seq(Tasks \ {Idle})
    /\ timed_out \in [Tasks -> BOOLEAN]
    /\ pc \in [Tasks -> {"run", "yield", "take", "resumed", "give"}]
    /\ woken \in [Tasks -> Tasks]
    /\ tokens \in Nat

\* Created with any initial count: os_sem_create_counting, or with a maximum of
\* one and the count 0, os_sem_create_binary.
Init ==
    /\ DispatcherInit
    /\ count \in 0 .. MaxCount
    /\ max_count = MaxCount
    /\ wait_list = << >>
    /\ timed_out = [t \in Tasks |-> FALSE]
    /\ pc = [t \in Tasks |-> "run"]
    /\ woken = [t \in Tasks |-> Idle]
    /\ tokens = count

Calls(t) == Executes(t) /\ pc[t] = "run"

Goto(t, label) == pc' = [pc EXCEPT ![t] = label]

-----------------------------------------------------------------------------
\* The wait list.

\* prv_wake_task: the head of the list becomes ready.
WakeFirst ==
    /\ wait_list' = Tail(wait_list)
    /\ MakeReady({Head(wait_list)})
    /\ timed_out' = [timed_out EXCEPT ![Head(wait_list)] = FALSE]

-----------------------------------------------------------------------------
\* Calls of tasks.

\* os_sem_take of an available token.  Without one and with OS_WAIT_NONE the
\* call returns and changes nothing.
TakeNow(t) ==
    /\ Calls(t)
    /\ count > 0
    /\ count' = count - 1
    /\ tokens' = tokens - 1
    /\ UNCHANGED <<dispatcher, max_count, wait_list, timed_out, pc, woken>>

\* os_sem_take that blocks.  The timeout is stored in delay_ticks, which only
\* os_task_tick counts down, and only for tasks on the blocked list.
TakeBlocks(t) ==
    /\ Calls(t)
    /\ count = 0
    /\ timed_out' = [timed_out EXCEPT ![t] = FALSE]
    /\ Block(t)
    /\ wait_list' = Inserted(wait_list, t)
    /\ Goto(t, "take")
    /\ UNCHANGED <<priority, current, pendsv, count, max_count, woken, tokens>>

\* os_sched_yield, at the end of a call that needs it or by the application.
Yield(t) ==
    /\ Executes(t)
    /\ pc[t] \in {"run", "yield", "take"}
    /\ Goto(t, IF pc[t] = "take" THEN "resumed" ELSE "run")
    /\ pendsv' = TRUE
    /\ UNCHANGED <<state, priority, current, count, max_count, wait_list,
                   timed_out, woken, tokens>>

\* Mutant: the flag is not looked at.
ResumedBlindly(t) ==
    /\ Executes(t)
    /\ pc[t] = "resumed"
    /\ tokens' = tokens - 1
    /\ Goto(t, "run")
    /\ UNCHANGED <<dispatcher, count, max_count, wait_list, timed_out, woken>>

\* os_sem_take returns OS_ERR_TIMEOUT or OS_OK.
Resumed(t) ==
    /\ Executes(t)
    /\ pc[t] = "resumed"
    /\ tokens' = IF timed_out[t] THEN tokens ELSE tokens - 1
    /\ Goto(t, "run")
    /\ UNCHANGED <<dispatcher, count, max_count, wait_list, timed_out, woken>>

\* Mutant: the count goes up although a task is given the token.
GiveBoth(t) ==
    /\ Calls(t)
    /\ wait_list # << >>
    /\ WakeFirst
    /\ count' = IF count < max_count THEN count + 1 ELSE count
    /\ tokens' = tokens + 1
    /\ woken' = [woken EXCEPT ![t] = Head(wait_list)]
    /\ Goto(t, "give")
    /\ UNCHANGED <<priority, current, pendsv, max_count>>

\* os_sem_give while tasks wait: the token goes to the first one.
GiveToWaiter(t) ==
    /\ Calls(t)
    /\ wait_list # << >>
    /\ WakeFirst
    /\ tokens' = tokens + 1
    /\ woken' = [woken EXCEPT ![t] = Head(wait_list)]
    /\ Goto(t, "give")
    /\ UNCHANGED <<priority, current, pendsv, count, max_count>>

\* The end of os_sem_give, outside its critical section.
GivePreempts(t) ==
    /\ Executes(t)
    /\ pc[t] = "give"
    /\ Goto(t, IF priority[woken[t]] < priority[t] THEN "yield" ELSE "run")
    /\ woken' = [woken EXCEPT ![t] = Idle]
    /\ UNCHANGED <<dispatcher, count, max_count, wait_list, timed_out, tokens>>

\* Mutant: the maximum may be exceeded by one.
GiveOneMore(t) ==
    /\ Calls(t)
    /\ wait_list = << >>
    /\ count <= max_count
    /\ count' = count + 1
    /\ tokens' = tokens + 1
    /\ UNCHANGED <<dispatcher, max_count, wait_list, timed_out, pc, woken>>

\* os_sem_give while none waits; at max_count the call returns OS_ERR_FULL and
\* changes nothing.
Give(t) ==
    /\ Calls(t)
    /\ wait_list = << >>
    /\ count < max_count
    /\ count' = count + 1
    /\ tokens' = tokens + 1
    /\ UNCHANGED <<dispatcher, max_count, wait_list, timed_out, pc, woken>>

\* os_sem_delete: every waiting task is made ready, in order, with timed_out
\* set.  No switch is asked for.
Delete(t) ==
    /\ Calls(t)
    /\ MakeReady(Waiting)
    /\ timed_out' = [u \in Tasks |-> IF u \in Waiting THEN TRUE ELSE timed_out[u]]
    /\ wait_list' = << >>
    /\ count' = 0
    /\ max_count' = 0
    /\ tokens' = tokens - count
    /\ UNCHANGED <<priority, current, pendsv, pc, woken>>

\* os_sem_create_counting on a deleted semaphore, when no task has blocked on it
\* in the meantime: it would be forgotten.
Create(t, initial) ==
    /\ Calls(t)
    /\ max_count = 0
    /\ wait_list = << >>
    /\ count' = initial
    /\ max_count' = MaxCount
    /\ tokens' = tokens + initial
    /\ UNCHANGED <<dispatcher, wait_list, timed_out, pc, woken>>

-----------------------------------------------------------------------------
\* Interrupt service routines, between any two steps of tasks, and the rest of
\* the system.

\* os_sem_take_from_isr
TakeFromISR ==
    /\ count > 0
    /\ count' = count - 1
    /\ tokens' = tokens - 1
    /\ UNCHANGED <<dispatcher, max_count, wait_list, timed_out, pc, woken>>

\* Mutant: no switch is asked for.
GiveToWaiterFromISRQuietly ==
    /\ wait_list # << >>
    /\ WakeFirst
    /\ tokens' = tokens + 1
    /\ UNCHANGED <<priority, current, pendsv, count, max_count, pc, woken>>

\* os_sem_give_from_isr while tasks wait; os_sched_isr_exit turns the request
\* into a pending PendSV.
GiveToWaiterFromISR ==
    /\ wait_list # << >>
    /\ WakeFirst
    /\ pendsv' = TRUE
    /\ tokens' = tokens + 1
    /\ UNCHANGED <<priority, current, count, max_count, pc, woken>>

GiveFromISR ==
    /\ wait_list = << >>
    /\ count < max_count
    /\ count' = count + 1
    /\ tokens' = tokens + 1
    /\ UNCHANGED <<dispatcher, max_count, wait_list, timed_out, pc, woken>>

\* os_task_delay: on the blocked list of the kernel.
Delay(t) ==
    /\ Calls(t)
    /\ Block(t)
    /\ Goto(t, "yield")
    /\ UNCHANGED <<priority, current, pendsv, count, max_count, wait_list,
                   timed_out, woken, tokens>>

\* os_task_tick ends a delay.  It does not reach the tasks on wait_list.
DelayEnds(t) ==
    /\ state[t] = "BLOCKED"
    /\ t \notin Waiting
    /\ MakeReady({t})
    /\ UNCHANGED <<priority, current, pendsv, semaphore>>

os_sem_take(t) == TakeNow(t) \/ TakeBlocks(t) \/ Resumed(t)

os_sem_give(t) == GiveToWaiter(t) \/ GivePreempts(t) \/ Give(t)

os_sem_give_from_isr == GiveToWaiterFromISR \/ GiveFromISR

Next ==
    \/ \E t \in Tasks \ {Idle} :
          \/ os_sem_take(t) \/ os_sem_give(t) \/ Delete(t)
          \/ Yield(t) \/ Delay(t) \/ DelayEnds(t)
          \/ \E initial \in 0 .. MaxCount : Create(t, initial)
    \/ TakeFromISR
    \/ os_sem_give_from_isr
    \/ RequestSwitch /\ UNCHANGED semaphore
    \/ Switch /\ UNCHANGED semaphore

Spec == Init /\ [][Next]_vars

-----------------------------------------------------------------------------
\* Properties.

\* Tasks that were given a token and have not returned with it.
Granted ==
    {t \in Tasks : pc[t] \in {"take", "resumed"} /\ t \notin Waiting /\ ~timed_out[t]}

\* No token is lost or made up: what was created and given, less what calls of
\* take returned with, is the count and the tokens on their way to woken tasks,
\* whatever interrupts, switches and deletions come between the give and the
\* resumption (semaphore.c:145-267).
TokensConserved == tokens = count + Cardinality(Granted)

\* The wait list holds each task blocked in os_sem_take once, nobody else, by
\* priority (semaphore.c:24-93).
WaitListExact ==
    /\ Ordered(wait_list)
    /\ Waiting = {t \in Tasks : pc[t] \in {"take", "resumed"} /\ state[t] = "BLOCKED"}

\* A task that was given a token never waits for a task of lower priority to go
\* on with its own work: the give that woke it, by a task or by an interrupt, is
\* followed by a switch (semaphore.c:222, 253).
GrantedPreempts ==
    \A t \in Granted :
        state[t] = "READY" /\ ~pendsv /\ pc[current] \in {"run", "resumed"}
            => priority[current] <= priority[t]

Before(list, t, u) ==
    \E i, j \in 1 .. Len(list) : i < j /\ list[i] = t /\ list[j] = u

\* Tasks of one priority are served in the order in which they blocked: one that
\* waits stays before those that come later (semaphore.c:37-42).
ServedInOrder ==
    [][\A t \in Waiting \cap Waiting', u \in Waiting' :
          /\ priority[t] = priority[u]
          /\ u \notin Waiting \/ Before(wait_list, t, u)
          => Before(wait_list', t, u)
      ]_vars

\* The semaphore implements the abstract one.
Abstract == INSTANCE AbstractSemaphore WITH
    Takers <- Tasks \ {Idle}, Max <- MaxCount,
    avail <- count, waiting <- Waiting, granted <- Granted

\* Direct transfer: a token given while tasks wait is one task's own, and is not
\* to be taken by another, not even between the give and the resumption
\* (docs/miniRTOS_technical_design.md 18.3).
ImplementsAbstract == Abstract!Spec
=============================================================================
