-------------------------------- MODULE Queue --------------------------------
(***************************************************************************)
(* One queue of kernel/queue.c, used by tasks and by interrupt service     *)
(* routines.  A mailbox (kernel/mailbox.c) is a queue with max_items = 1   *)
(* and hands every call on to it.                                          *)
(*                                                                         *)
(* Positions are counted in items, where the code counts bytes: buf_size   *)
(* is max_items times item_size.  The steps of a call are those of         *)
(* Semaphore: the critical section, and what follows it.                   *)
(***************************************************************************)
EXTENDS WaitLists

CONSTANTS
    Items,           \* what can be sent
    NoItem,          \* the content of memory nobody has written
    MaxItems,        \* bound on max_items
    Isr              \* interrupt service routines, as one caller

ASSUME QueueAssumption ==
    MaxItems \in Nat \ {0} /\ NoItem \notin Items /\ Isr \notin Tasks

VARIABLES
    buffer,          \* the ring; empty function: freed
    max_items, count, head, tail,
    wait_list,       \* send_wait_list and recv_wait_list
    timed_out,       \* TCB field
    item,            \* *item of each caller's latest receive or peek
    pc,              \* where each task continues
    woken            \* woken_tcb of each task (else Idle)

ring == <<buffer, max_items, count, head, tail>>
queue == <<ring, wait_list, timed_out, item, pc, woken>>
vars == <<dispatcher, queue>>

Sides == {"send", "recv"}
Callers == Tasks \cup {Isr}
Positions == 0 .. (max_items - 1)
Created == DOMAIN buffer # {}
Waiting == Elements(wait_list["send"]) \cup Elements(wait_list["recv"])

TypeOK ==
    /\ DispatcherTypeOK
    /\ max_items \in 1 .. MaxItems
    /\ Created => buffer \in [Positions -> Items \cup {NoItem}]
    /\ count \in 0 .. max_items /\ head \in Positions /\ tail \in Positions
    /\ wait_list \in [Sides -> Seq(Tasks \ {Idle})]
    /\ timed_out \in [Tasks -> BOOLEAN]
    /\ item \in [Callers -> Items \cup {NoItem}]
    /\ pc \in [Tasks -> {"run", "yield", "preempt", "send", "sent", "recv",
                        "received"}]
    /\ woken \in [Tasks -> Tasks]

\* os_queue_create, before the tasks use it.
Init ==
    /\ DispatcherInit
    /\ max_items \in 1 .. MaxItems
    /\ buffer = [i \in Positions |-> NoItem]
    /\ count = 0 /\ head = 0 /\ tail = 0
    /\ wait_list = [s \in Sides |-> << >>]
    /\ timed_out = [t \in Tasks |-> FALSE]
    /\ item = [c \in Callers |-> NoItem]
    /\ pc = [t \in Tasks |-> "run"]
    /\ woken = [t \in Tasks |-> Idle]

Calls(t) == Executes(t) /\ pc[t] = "run"

Goto(t, label) == pc' = [pc EXCEPT ![t] = label]

-----------------------------------------------------------------------------
\* The ring.

Successor(i) == (i + 1) % max_items

\* Mutant: room for one more.
PutOneMore(x) ==
    /\ Created
    /\ count <= max_items
    /\ buffer' = [buffer EXCEPT ![tail] = x]
    /\ tail' = Successor(tail)
    /\ count' = count + 1
    /\ UNCHANGED <<max_items, head, item>>

\* The item is copied in at tail.
Put(x) ==
    /\ Created
    /\ count < max_items
    /\ buffer' = [buffer EXCEPT ![tail] = x]
    /\ tail' = Successor(tail)
    /\ count' = count + 1
    /\ UNCHANGED <<max_items, head, item>>

\* The item at head is copied out for the caller c.
Get(c) ==
    /\ Created
    /\ count > 0
    /\ item' = [item EXCEPT ![c] = buffer[head]]
    /\ head' = Successor(head)
    /\ count' = count - 1
    /\ UNCHANGED <<buffer, max_items, tail>>

\* The one item is replaced.
Replace(x) ==
    /\ Created
    /\ max_items = 1
    /\ count # 0
    /\ buffer' = [buffer EXCEPT ![head] = x]
    /\ UNCHANGED <<max_items, count, head, tail, item>>

-----------------------------------------------------------------------------
\* Waking.

\* prv_wake_task on the list of one side: its head becomes ready.
WakeFirst(side) ==
    LET t == Head(wait_list[side]) IN
    /\ wait_list[side] # << >>
    /\ wait_list' = [wait_list EXCEPT ![side] = Tail(@)]
    /\ MakeReady({t})
    /\ timed_out' = [timed_out EXCEPT ![t] = FALSE]

WakeNobody(side) ==
    /\ wait_list[side] = << >>
    /\ UNCHANGED <<state, wait_list, timed_out>>

\* A task wakes the first of the other side; if there is one, it has still to
\* compare priorities.
WakeFromTask(t, side) ==
    /\ \/ /\ WakeFirst(side)
          /\ woken' = [woken EXCEPT ![t] = Head(wait_list[side])]
          /\ Goto(t, "preempt")
       \/ WakeNobody(side) /\ UNCHANGED <<pc, woken>>
    /\ UNCHANGED <<priority, current, pendsv>>

\* Mutant: no switch is asked for.
WakeFromISRQuietly(side) ==
    /\ WakeFirst(side) \/ WakeNobody(side)
    /\ UNCHANGED <<priority, current, pendsv, pc, woken>>

\* An interrupt does, and asks for a switch.
WakeFromISR(side) ==
    /\ \/ WakeFirst(side) /\ pendsv' = TRUE
       \/ WakeNobody(side) /\ UNCHANGED pendsv
    /\ UNCHANGED <<priority, current, pc, woken>>

-----------------------------------------------------------------------------
\* Calls of tasks.

\* os_queue_send with space.
Send(t, x) == Calls(t) /\ Put(x) /\ WakeFromTask(t, "recv")

\* os_queue_receive with an item.
Receive(t) == Calls(t) /\ Get(t) /\ WakeFromTask(t, "send")

\* os_queue_overwrite: with an empty queue a send.
Overwrite(t, x) ==
    /\ Calls(t)
    /\ \/ max_items = 1 /\ Put(x) /\ WakeFromTask(t, "recv")
       \/ Replace(x) /\ UNCHANGED <<dispatcher, wait_list, timed_out, pc, woken>>

\* The end of these calls, outside their critical sections.
Preempt(t) ==
    /\ Executes(t)
    /\ pc[t] = "preempt"
    /\ Goto(t, IF priority[woken[t]] < priority[t] /\ state[t] = "RUNNING"
               THEN "yield" ELSE "run")
    /\ woken' = [woken EXCEPT ![t] = Idle]
    /\ UNCHANGED <<dispatcher, ring, wait_list, timed_out, item>>

\* prv_block_task
WaitFor(t, side) ==
    /\ timed_out' = [timed_out EXCEPT ![t] = FALSE]
    /\ Block(t)
    /\ wait_list' = [wait_list EXCEPT ![side] = Inserted(@, t)]
    /\ Goto(t, side)
    /\ UNCHANGED <<priority, current, pendsv, ring, woken>>

\* os_queue_send on a full queue.  The item stays with the caller.
SendBlocks(t) ==
    /\ Calls(t)
    /\ Created
    /\ count >= max_items
    /\ WaitFor(t, "send")
    /\ UNCHANGED item

\* os_queue_receive on an empty queue, into memory not written before.
ReceiveBlocks(t) ==
    /\ Calls(t)
    /\ Created
    /\ count = 0
    /\ WaitFor(t, "recv")
    /\ item' = [item EXCEPT ![t] = NoItem]

\* os_sched_yield, at the end of a call that needs it or by the application.
Yield(t) ==
    /\ Executes(t)
    /\ pc[t] \in {"run", "yield", "send", "recv"}
    /\ Goto(t, CASE pc[t] = "send" -> "sent"
                 [] pc[t] = "recv" -> "received"
                 [] OTHER          -> "run")
    /\ pendsv' = TRUE
    /\ UNCHANGED <<state, priority, current, ring, wait_list, timed_out, item, woken>>

\* The task runs again after its wait.  The call returns OS_ERR_TIMEOUT or OS_OK;
\* neither branch touches the ring or the caller's item.
Resumed(t) ==
    /\ Executes(t)
    /\ pc[t] \in {"sent", "received"}
    /\ Goto(t, "run")
    /\ UNCHANGED <<dispatcher, ring, wait_list, timed_out, item, woken>>

\* os_queue_peek
Peek(t) ==
    /\ Calls(t)
    /\ Created
    /\ count # 0
    /\ item' = [item EXCEPT ![t] = buffer[head]]
    /\ UNCHANGED <<dispatcher, ring, wait_list, timed_out, pc, woken>>

\* Mutant: tail stays where it is.
ResetHead(t) ==
    /\ Calls(t)
    /\ Created
    /\ Waiting = {}
    /\ count' = 0 /\ head' = 0
    /\ UNCHANGED <<dispatcher, buffer, max_items, tail, wait_list, timed_out, item,
                   pc, woken>>

\* os_queue_reset; OS_ERR_STATE while tasks wait.
Reset(t) ==
    /\ Calls(t)
    /\ Created
    /\ Waiting = {}
    /\ count' = 0 /\ head' = 0 /\ tail' = 0
    /\ UNCHANGED <<dispatcher, buffer, max_items, wait_list, timed_out, item, pc, woken>>

\* Mutant: those who wait to receive are forgotten.
DeleteForSenders(t) ==
    /\ Calls(t)
    /\ Created
    /\ MakeReady(Elements(wait_list["send"]))
    /\ timed_out' = [u \in Tasks |-> u \in Elements(wait_list["send"]) \/ timed_out[u]]
    /\ wait_list' = [wait_list EXCEPT !["send"] = << >>]
    /\ buffer' = << >>
    /\ UNCHANGED <<priority, current, pendsv, max_items, count, head, tail, item, pc,
                   woken>>

\* os_queue_delete: whoever waits is made ready with timed_out set and the ring is
\* freed.  Afterwards the application makes no call but os_queue_create.
Delete(t) ==
    /\ Calls(t)
    /\ Created
    /\ MakeReady(Waiting)
    /\ timed_out' = [u \in Tasks |-> u \in Waiting \/ timed_out[u]]
    /\ wait_list' = [s \in Sides |-> << >>]
    /\ buffer' = << >>
    /\ UNCHANGED <<priority, current, pendsv, max_items, count, head, tail, item, pc,
                   woken>>

\* os_queue_create, on a deleted queue.
Create(t, n) ==
    /\ Calls(t)
    /\ ~Created
    /\ max_items' = n
    /\ buffer' = [i \in 0 .. (n - 1) |-> NoItem]
    /\ count' = 0 /\ head' = 0 /\ tail' = 0
    /\ wait_list' = [s \in Sides |-> << >>]
    /\ UNCHANGED <<dispatcher, timed_out, item, pc, woken>>

-----------------------------------------------------------------------------
\* Interrupt service routines, between any two steps of tasks, and the rest of
\* the system.

\* os_queue_send_from_isr, os_queue_receive_from_isr, os_queue_overwrite_from_isr
SendFromISR(x) == Put(x) /\ WakeFromISR("recv")

ReceiveFromISR == Get(Isr) /\ WakeFromISR("send")

OverwriteFromISR(x) ==
    \/ max_items = 1 /\ Put(x) /\ WakeFromISR("recv")
    \/ Replace(x) /\ UNCHANGED <<dispatcher, wait_list, timed_out, pc, woken>>

\* os_task_delay: on the blocked list of the kernel.
Delay(t) ==
    /\ Calls(t)
    /\ Block(t)
    /\ Goto(t, "yield")
    /\ UNCHANGED <<priority, current, pendsv, ring, wait_list, timed_out, item, woken>>

\* os_task_tick ends a delay.  It does not reach the tasks on wait lists.
DelayEnds(t) ==
    /\ state[t] = "BLOCKED"
    /\ t \notin Waiting
    /\ MakeReady({t})
    /\ UNCHANGED <<priority, current, pendsv, queue>>

\* The two calls from their beginning to the step that blocks; Yield, Resumed
\* and Preempt end both.
os_queue_send(t) == SendBlocks(t) \/ \E x \in Items : Send(t, x)

os_queue_receive(t) == ReceiveBlocks(t) \/ Receive(t)

\* The operations on a queue, of tasks and of interrupts.  A mailbox is a queue of
\* one item, to which kernel/mailbox.c passes every call on.
TaskCall(t) ==
    \/ os_queue_send(t) \/ os_queue_receive(t) \/ Peek(t)
    \/ \E x \in Items : Overwrite(t, x)
    \/ Reset(t) \/ Delete(t)
    \/ \E n \in 1 .. MaxItems : Create(t, n)

InterruptCall ==
    \/ \E x \in Items : SendFromISR(x) \/ OverwriteFromISR(x)
    \/ ReceiveFromISR

Next ==
    \/ \E t \in Tasks \ {Idle} :
          \/ TaskCall(t) \/ Preempt(t) \/ Yield(t) \/ Resumed(t)
          \/ Delay(t) \/ DelayEnds(t)
    \/ InterruptCall
    \/ RequestSwitch /\ UNCHANGED queue
    \/ Switch /\ UNCHANGED queue

Spec == Init /\ [][Next]_vars

-----------------------------------------------------------------------------
\* Properties.

Blocking == {"send", "recv", "sent", "received"}

\* Tasks whose wait has ended well and that have not run since.
Woken == {t \in Tasks : pc[t] \in Blocking /\ t \notin Waiting /\ ~timed_out[t]}

\* A task blocked in os_queue_send is on send_wait_list, one blocked in
\* os_queue_receive on recv_wait_list, once, by priority, and nobody else is on
\* either; after a deletion both are empty (queue.c:26-101, 139-152).
WaitListsExact ==
    /\ \A s \in Sides : Ordered(wait_list[s])
    /\ Elements(wait_list["send"]) =
          {t \in Tasks : pc[t] \in {"send", "sent"} /\ state[t] = "BLOCKED"}
    /\ Elements(wait_list["recv"]) =
          {t \in Tasks : pc[t] \in {"recv", "received"} /\ state[t] = "BLOCKED"}
    /\ ~Created => Waiting = {}

\* A task that a send, a receive or an overwrite has woken never waits for a task
\* of lower priority to go on with its own work (queue.c:210-215, 263, 302-308,
\* 342, 373-379, 425).
WokenPreempts ==
    \A t \in Woken :
        state[t] = "READY" /\ ~pendsv /\ pc[current] \in {"run", "sent", "received"}
            => priority[current] <= priority[t]

\* The ring as the sequence of the items in it.
Abstract == INSTANCE AbstractQueue WITH
    Max <- MaxItems, max <- max_items,
    items <- IF Created
             THEN [i \in 1 .. count |-> buffer[(head + i - 1) % max_items]]
             ELSE << >>

\* The ring implements a queue: nothing in it is lost, doubled, reordered or made
\* up, by wrapping around, overwriting, resetting, deleting and creating it, and
\* what a caller gets is the oldest item (queue.c:194-198, 286-294, 358-362).
ImplementsFIFO == Abstract!Spec

\* A receive that waited and returns OS_OK has an item for its caller
\* (queue.c:394-405; "Receive an item from the mailbox.  Blocks if empty.",
\* mailbox.h:59).
ReceiveDelivers ==
    [][\A t \in Tasks : pc[t] = "received" /\ pc'[t] = "run" /\ ~timed_out[t]
          => item'[t] \in Items]_vars
=============================================================================
