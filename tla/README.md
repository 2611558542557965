# MiniRTOS: a TLA+ verification project

MiniRTOS is a preemptive kernel for Cortex-M microcontrollers: tasks with fixed
priorities, semaphores, mutexes, queues, event groups, notifications, software
timers, a heap, memory pools and watchdogs.  This directory models it, checks
the models with TLC and proves the central results with TLAPS.  Source paths
are relative to the repository.

## 1. Inventory

| Component | State | Operations | Interacts with |
|---|---|---|---|
| Task lists (`kernel/task.c`) | per priority: head, tail, count; `ready_bitmap`; `blocked_list`; `deferred_delete_list`; one `next`/`prev` pair per TCB | add/remove ready, find highest, add/remove blocked | every blocking object links the same TCB fields |
| Task API (`kernel/task.c`) | TCB fields, `task_table`, `task_count` | create, create suspended, delete, suspend, resume, delay, delay_until, set_priority, tick, deferred delete | heap, scheduler, hooks |
| Scheduler (`kernel/scheduler.c`) | `scheduler_running`, `yield_pending`, critical nesting, IRQ nesting | start, yield, select_next, enter/exit critical, isr enter/exit | task lists, port |
| Kernel tick (`kernel/kernel.c`) | `system_tick`, hooks | init, start, tick_increment | tasks, timers, watchdog, scheduler |
| Ports (`port/port.c`, `port/cortex_m0`, `_m4`, `_m7`) | `current_task_ptr`, PSP, register frames, pending bits, interrupt mask | PendSV, SysTick, first task, stack frames, mask and unmask, NVIC priorities | scheduler |
| Semaphore (`kernel/semaphore.c`) | count, max, wait list | take, give, from-ISR forms, delete | task lists, scheduler |
| Mutex (`kernel/mutex.c`) | owner, lock count, original priority, wait list | lock, unlock, delete | `os_task_set_priority` |
| Queue, mailbox (`kernel/queue.c`, `kernel/mailbox.c`) | ring, two wait lists | send, receive, peek, overwrite, from-ISR forms | task lists |
| Event group (`kernel/eventgroup.c`) | bits, wait list | set, clear, wait | task lists |
| Notification (`kernel/notify.c`) | value and pending flag in the TCB | notify, wait, clear | blocked list, tick |
| Timers (`kernel/timer.c`) | delta list, list of expired timers, a binary semaphore | create, start, stop, reset, change period, from-ISR forms, tick | a service task runs the callbacks |
| Heap, pools (`kernel/heap4.c`, `kernel/mempool.c`) | free lists, byte counts | alloc, free, calloc, realloc | task creation and deletion |
| Watchdog (`kernel/watchdog.c`) | table of countdowns | register, unregister, feed, pause, resume, set deadline, tick | tasks, callbacks |
| Tickless, trace, stats, sysinfo | counters and a ring | idle enter/exit, record, read | idle task, scheduler |

What is hard in this code:

* **A task leaves its list before it leaves the processor.**  Every blocking
  call unlinks the caller inside a critical section and yields after it.  A tick
  in between finds a current task that is not ready, or is already on the list
  of tasks to free.
* **Two exceptions share `current_task_ptr`.**  PendSV stores the running context
  through it and then lets `os_sched_select_next` change it; the tick of the
  default build calls `os_sched_select_next` as well.
* **One pair of links, many lists.**  A TCB on the wrong list, or unlinked from a
  list it is not on, silently damages head, tail, count and bitmap of another.
* **Lists are changed while they are walked**: the tick, event groups, timers; a
  timer is threaded into two lists through one field.
* **A priority is changed under the lists**: inheritance moves a READY owner and
  leaves a RUNNING one where it is.
* **The tick has no critical section.**  Handlers of higher priority call `_from_isr`
  functions between any two statements of `os_task_tick` and `os_timer_tick`.
* **Look-up and write without a lock** in the watchdog, with ticks and unregistrations
  in between.
* **Timeouts** exist for delays and notifications only; semaphores, mutexes,
  queues and event groups record one that no tick looks at.
* **Limits**: a task table that never shrinks, four hooks, 32-bit tick wrap.

For each component correctness means: the lists hold exactly the tasks their
states say and every context survives (tasks, scheduler, port); tokens,
ownership and items are conserved and handed to the highest-priority waiter
(semaphore, mutex, queue); no wake-up is lost (event group, notification);
expirations happen at the right tick, once (timer, watchdog); blocks are
disjoint and accounted for (heap, pool).  The hazards, each at its line, are in
`PROJECT.json`.

## 2. Plan

1. *Done:* `TaskLists` and `TaskKernel` (tasks, scheduler, tick, exceptions),
   their runs and their proofs.
2. *Done:* `Dispatcher`, the scheduler as the blocking objects see it, and
   `Semaphore` on top of it, shown to implement `AbstractSemaphore`.
3. *Done:* `Queue` (with the mailbox), whose ring implements `AbstractQueue`; the lemmas on
   wait lists that it shares with the semaphore are in `WaitListTheorems`.
4. *Done:* `Mutex`, ownership transfer and priority inheritance.  It restores the priority
   of a *running* owner without moving it to another ready list, so it is on top of
   `TaskLists`, not of `Dispatcher`, and its proofs rest on `TaskListTheorems`.
5. *Done:* `EventGroup` and `Notification` on `Dispatcher`, composed in `Signals`.
6. *Done:* `Timers`, `Watchdog`, `Heap`, `MemPool`, `DelayUntil` and `Ports`, side by side in
   `Services`.
7. An abstract scheduler (a set of ready tasks per priority in FIFO order) that
   `TaskKernel` implements, and of which `Dispatcher` keeps the choice open.  To do.
8. Two mutexes with overlapping owners, once it is settled what the code is meant to
   do there.  To do.

Bounds throughout: two to four tasks, two or three priorities, delays of one or
two ticks.  Every safety property of the runs, the refinements among them, is also a theorem.

## 3. Modules

| Module | Content |
|---|---|
| `TaskLists` | operators on the kernel record: the linked lists of `task.c` and `os_sched_select_next`; what the lists are meant to hold |
| `TaskKernel` | the state machine: API calls, `os_sched_start`, PendSV, SysTick; properties |
| `MCTaskKernel` | model values for TLC |
| `TaskListTheorems` | lemmas: what each list operator, rotation and selection do to the exactness of each list |
| `TaskKernelProofs` | the inductive invariant, one lemma per action, the theorems |
| `Dispatcher` | what a blocking object needs of tasks, scheduler and port: who runs, who is ready, a pending switch |
| `AbstractSemaphore` | what a semaphore promises: tokens available, tasks waiting, tokens granted |
| `Semaphore` | `kernel/semaphore.c` on top of `Dispatcher`; properties and the refinement mapping |
| `WaitLists` | the wait lists of blocking objects as sequences; `prv_block_task`'s insertion |
| `WaitListTheorems` | lemmas: what insertion, removal and `Tail` do to a wait list |
| `MCSemaphore` | model values and symmetry for TLC |
| `SemaphoreProofs` | lemmas on counting, one lemma per action, the theorems |
| `AbstractQueue` | a bounded FIFO sequence and the items callers got from it |
| `Queue` | `kernel/queue.c` on top of `Dispatcher`; properties and the refinement mapping |
| `MCQueue` | model values and symmetry for TLC |
| `QueueProofs` | lemmas on the ring, one lemma per action, the theorems |
| `Mutex` | `kernel/mutex.c` with priority inheritance on the ready lists of `TaskLists` |
| `MCMutex` | model values and symmetry for TLC |
| `MutexProofs` | inheritance on the linked lists, one lemma per action, the theorems |
| `TaskCalls` | calls of tasks, delays and the steps of the tick, as event groups and notifications see them |
| `EventGroup` | `kernel/eventgroup.c` |
| `Notification` | `kernel/notify.c` |
| `Signals` | event group, notifications and delays on the same tasks |
| `MCSignals` | model values, the waits asked for, symmetry for TLC |
| `SignalsProofs` | the walk over the waiters, one lemma per action, the theorems |
| `Timers` | `kernel/timer.c`: active list, expired list and the service task's, on one link field |
| `TimerDelays`, `MCTimers` | the timers with a history of when each is due; model values for TLC |
| `Watchdog` | `kernel/watchdog.c`: the table, and calls that load and store outside any section |
| `Heap` | `kernel/heap4.c` |
| `MemPool` | `kernel/mempool.c` |
| `DelayUntil` | `os_task_delay_until` and the wrapping tick counter |
| `Ports` | critical sections, nested handlers and the switch they ask for, of the scheduler and the four ports |
| `Services` | the six modules above side by side |
| `MCServices` | model values for TLC |
| `ServicesProofs` | one section per service: its invariant, its lemmas, its theorem |

### State and code: tasks, scheduler, port

| Variable | Code |
|---|---|
| `k.head`, `k.tail`, `k.count`, `k.bitmap` | `ready_list[]`, `ready_bitmap` (as the set of its one bits) |
| `k.state`, `k.priority`, `k.next`, `k.prev`, `k.delay` | TCB fields |
| `k.blocked`, `k.deferred`, `k.current` | `blocked_list`, `deferred_delete_list`, `current_task_ptr` |
| `alive` | the TCBs allocated from the heap; an address can be allocated again after it is freed |
| `task_count`, `running`, `yield_pending` | the variables of those names |
| `cpu` | the context the processor executes (PSP and registers) |
| `saved[t]` | the context that `t->stack_ptr` leads to |
| `pc`, `arg` | how far each context is in a call that has left its critical section |
| `pendsv`, `isr`, `walk` | the PendSV pending bit; the phase of the SysTick exception and its loop pointer |
| `due` | history variable: the delays at the start of the tick |

`cpu` and `saved` are kept apart from `k.current` because they *are* apart: PendSV
stores the executing context through whatever `current_task_ptr` is.

### State and code: semaphore

| Variable | Code |
|---|---|
| `state`, `priority`, `timed_out` | TCB fields |
| `current`, `pendsv` | `current_task_ptr`, the PendSV pending bit |
| `count`, `max_count` | fields of `os_sem_t`; `max_count = 0` after deletion |
| `wait_list` | the list of waiting TCBs as a sequence (`TaskLists` has the links of such lists) |
| `pc` | where a task is in `os_sem_take` (`take`: before its yield, `resumed`: after it), in `os_sem_give` (`give`: after the critical section) or before another yield |
| `woken` | the local `woken_tcb` of `os_sem_give` |
| `tokens` | history variable: tokens created and given less those calls returned with |

`TakeNow` and `TakeBlocks` are the branches of `os_sem_take`'s critical section, `Yield`
its yield and `Resumed` the code after it; `GiveToWaiter`, `GivePreempts` and `Give` are
`os_sem_give`; the actions `...FromISR` are the calls of interrupts, which come between
any two steps.  Calls that return an error (`OS_ERR_EMPTY`, `OS_ERR_FULL`) change nothing
and are no steps.  `Delay`, `DelayEnds` and `RequestSwitch` are the rest of the system:
tasks leave and come back, and other interrupts ask for switches at any time.

`Dispatcher` says of a switch that it goes to *some* ready task of the highest
priority, which is what `DispatchCorrect` (section 5) proves of `TaskKernel`.  Like the theorems there it
is about the build with interrupt nesting.  Priorities are any and do not change.

### State and code: queue and mailbox

| Variable | Code |
|---|---|
| `buffer`, `max_items`, `count`, `head`, `tail` | fields of `os_queue_t`, positions in items; the empty function is the freed ring, `NoItem` memory nobody has written |
| `wait_list["send"]`, `wait_list["recv"]` | `send_wait_list`, `recv_wait_list` |
| `item[c]` | the memory the caller's `void *item` points to in a receive or peek |
| `pc` | `send`, `recv`: on a wait list, before the yield; `sent`, `received`: after it; `preempt`: after the critical section of a call that woke a task |
| `woken` | the local `woken_tcb` |

`Put`, `Get` and `Replace` are the three copies; `Send`, `Receive`, `Overwrite` and the ISR
forms combine one with waking the first task of the other list.  `SendBlocks` and
`ReceiveBlocks` are the branches that wait, `Resumed` the code after the wait, which
reads `timed_out` and nothing else.  The other variables are those of the semaphore.
After a deletion the application calls nothing but create (any other call would go
through the null buffer pointer).

### State and code: mutex

`k` is the kernel record of `TaskLists`; `owner`, `lock_count`, `original_prio`, `wait_list`
are the fields of `os_mutex_t`, and `pc`, `woken` as in the semaphore.  `LockFree`, `LockAgain`,
`LockGivesUp` (a refused `OS_WAIT_NONE`, which has boosted the owner already), `LockBlocks`
and `Resumed` are `os_mutex_lock`; `UnlockOnce`, `Release`, `Transfer` and `UnlockPreempts`
are `os_mutex_unlock`.  History: `base` (created priority), `held` (locks a task has
returned with), `revoked` (the mutex was deleted before its new owner ran) and `intact`.
The last becomes FALSE when an unlock restores the priority of a RUNNING, boosted owner:
`os_task_set_priority` then leaves it in the list of its old priority, and the lists no
longer describe the tasks.  Tasks of the model take no step after that, only the context
switch, which is what `mutex_handoff` looks at.  One mutex is modelled.

### State and code: event group, notification, delay

The three meet in the `state`, `blocked_reason` and `delay_ticks` of a TCB, so `Signals` runs
them together.  `bits`, `wait_list`, `want`, `event_return_bits` and `notify_pending` are the
fields of those names (`want` is `event_wait_bits` and `event_wait_options`).  Bits are sets.
`Walk` is the loop of `os_eventgroup_set_bits` over the waiters, which clears bits as it goes;
it is one step because the code holds a critical section.  `pc = "wait"` and `"notify"` are
blocked before the yield, `"waited"`, `"resumed"` after it; `"collect"` and `"compare"` are
the stretches of code outside the critical section.  `Tick` reaches the tasks of the
blocked list, never those of an event group: their timeout does not end, as in the code.

`os_task_tick` has no critical section, so `Tick` is `TickBegin`, a `TickVisit` of each task of
the list and a `TickReady` for one whose delay ended, and `NotifyFromISR`, `SetFromISR` and
the other calls of handlers come between them.  Tasks do not, and neither does PendSV, which is
pended when the outermost handler ends.  A handler that makes
the task ready which the tick has just unlinked leaves a task twice in the ready list
and loses the blocked list: `tick_raced` shows it, and the model takes no step after it
(`Torn`), so the theorems on `Signals` are about behaviours up to that point.
A handler that wakes the task the tick is about to come to leads the walk into the ready
list: the tick then misses that task or the rest of the list, and the model has both.

### State and code: timers, watchdog, allocators, tick arithmetic, ports

These share no variable, so a property of one does not depend on steps of the others.  A
behaviour of `Services` uses one of them, its `focus`; running them through one
specification lets one run and one proof module speak of all.

* `Timers`: head pointers, the `next` and `remaining` fields and the locals of the tick and of
  the service task.  A timer that reloads is in the active and in the expired list at once,
  so the lists run into each other, and the model follows the links wherever they lead;
  a loop that has become circular does not end, and the program takes no step after it.
  `os_timer_tick` is split at every statement that handlers may come between, but for the
  insertion it makes.  `TimerDelays` adds `due`, the history of when a timer has to expire.
* `Watchdog`: `calling[c]` is where each of several callers is: after the look-up, between
  the two stores of resume, between the load and the store of `remaining = deadline`.  An
  unregistration may come anywhere and move the entry.
* `Heap`, `MemPool`: sizes wrap at their width.  The code has no critical section; calls
  are assumed to be serialised.  `free_bytes_remaining` is modelled as the code computes it,
  which loses a header per coalescing (`kernel/heap4.c:231`); no property claims it exact.
  A pool may be created in a buffer of any alignment and size: where `usable` or the
  stride wrap, the pool is not in its buffer, as in the code.
* `DelayUntil`: the tick counter wraps at `2 * HalfRange`; `gap` is the signed distance to
  the schedule, `slip` the ticks between the reading of the counter and the section of
  `os_task_delay` in which the task blocks.
* `Ports`: `handlers` is where each of the nested handlers is: before `os_sched_isr_enter`, in its
  body, before the test of `yield_pending`, before `os_port_yield`.  `sections` is the history of
  open critical sections, `owed` of a switch asked for.  PendSV may come at any time:
  `port/port.c:275` writes the priority byte of another exception, so PendSV keeps the highest one.

### The archived copy

`src/branches/feature-unit-tests` holds an earlier copy of the tree.  Where a function there is
the same as the current one but for tracing and hook calls, `PROJECT.json` maps the
definition for the whole call to that copy and the definitions of its parts to the current file.

### Granularity

A step is a stretch of code that no interrupt can split.  An API call is one step
up to `os_sched_exit_critical`, and `os_sched_yield` is another (`pc = "yield"`), so
a tick or a pending PendSV may come between them.  `os_task_create_suspended` is
two calls, with a window in which the new task runs.  SysTick is split at each
iteration of its two loops; no task runs inside it, and the split lets the
invariants speak about the list in the middle of a walk.  In the nesting build handlers
of higher priority do run inside it; `TaskKernel` has no calls of handlers, `Signals` and
`Timers` have, and interleave them with the steps of the tick.  A tick may be taken before
or after a pending PendSV, since the priorities the port programs do not settle the
order.  `os_task_create` has no critical section of its own; the model treats it as
one step, that is, called before the scheduler starts or inside the caller's
critical section (see the hazard at `kernel/task.c:338`).

### What the application does

Applications use a handle only between creation and deletion.  Three calls that the
API accepts and that break it are behind the constant `Usage`: deleting a delayed
task (its TCB is freed while linked), changing the priority of the running task (it
stays in its old list), and filling the task table before the start (no idle task).
The runs and theorems have `Usage = {}`.  The idle task makes no calls.

## 4. Runs

The runs of `TaskKernel` use priorities {0, 1} and delays of up to two ticks: two priorities give
preemption and round robin, two ticks give a delay that survives a tick.

| Run | Instance | Result |
|---|---|---|
| `task_kernel` | nesting build; idle and two tasks, five creations, so that freed TCBs are allocated again; `FairSpec` | passes, about 37 000 states |
| `legacy_contexts` | default build; idle and two tasks | `ContextsIntact` violated |
| `freed_current` | nesting build | `FreedIsNotCurrent` violated |
| `semaphore` | idle and three tasks of every combination of three priorities, two tokens, symmetric | passes, about 495 000 states |
| `queue` | idle and two tasks of every combination of two priorities; queues of one and two items, two different items; tasks and items symmetric | passes, about 1 300 000 states |
| `receives_nothing` | a mailbox, otherwise as `queue` | `ReceiveDelivers` violated |
| `mutex` | idle and three tasks of every combination of three priorities, created in any order, locks two deep, symmetric | passes |
| `mutex_handoff` | idle and two tasks, three priorities, locks one deep | `NewOwnerDispatched` violated |
| `signals` | idle and two tasks of two priorities, two bits, waits for any and all with and without clearing, delays of a tick, symmetric | passes, about 1 470 000 states |
| `tick_raced` | as `signals` | `ReadiedOnce` violated |
| `services` | two timers, one reloading, periods of one and two ticks; three tasks for a watchdog table of two, two callers; a heap of 20 words; pools of several sizes and alignments, some of which wrap; a tick counter of five bits; handlers three deep, sections six deep with room for four masks | passes, about 1 480 000 states |
| `timers` | two timers, one reloading, periods of one and two ticks | `TimersOnTime` violated |

With the idle task two application tasks make ready lists of up to three, the least in which a
task has a predecessor and a successor.  The blocked and the deferred list have up to two
tasks; that unlinking from between two others is right there too is left to the theorems, which
cover every size.  A third application task makes the liveness properties too slow to check.

Properties of `task_kernel`:

* `TypeOK`; the table bound holds although freed TCBs are reallocated.
* `ReadyListsExact`, `BlockedListExact`, `DeferredListExact`: at *every* step, also
  inside the tick, each list threads exactly the tasks whose state says so.
* `OnlyAllocatedTasks`: no live task has a freed TCB.
* `RunningIsCurrent`, `ContextsIntact`: the executing context is the current task and
  RUNNING, and every other task's stack pointer leads to its own context.
* `TickServesAll`: a tick counts down every delayed task exactly once although the
  walk unlinks tasks from the list it follows.
* `DispatchHighest`, `TakesTurns`: a switch goes to the highest ready priority, and
  not back to the same task when a peer is ready.

Properties of `semaphore`:

* `TypeOK`: the count stays between 0 and the maximum.
* `TokensConserved`: tokens are neither lost nor made up, whatever comes between a give
  and the resumption of the task it woke.
* `WaitListExact`: the list holds the tasks blocked in take, once each, by priority.
* `GrantedPreempts`: a task that was given a token does not wait while one of lower
  priority goes on with its own work; a giver that is about to yield still may finish.
* `ServedInOrder`: nobody is overtaken by a later task of its own priority.
* `ImplementsAbstract`: every step is a step of `AbstractSemaphore` or none: in
  particular a token given to a waiting task cannot be taken by another one.

Three tasks of three priorities give a waiter with one before and one after it and
a giver besides two waiters; two tokens are the least count that is neither empty nor
full.  The run has no fairness: nothing in `semaphore.c` ends a wait by itself.

Properties of `queue`:

* `TypeOK`: count and positions stay inside the ring, through changes of its size.
* `WaitListsExact`: each list holds the tasks blocked on its side, by priority; both are
  empty once the queue is deleted.
* `WokenPreempts`: as `GrantedPreempts`, for sends, receives and overwrites.
* `ImplementsFIFO`: the ring, read from `head` for `count` items, is a FIFO, and what a
  caller gets is its oldest item.

A ring of two wraps around with one item in it; one item is the mailbox.  Two tasks fill
one list with two waiters while interrupts send or receive, or wait on both sides.

Properties of `mutex`:

* `OwnerExclusive`: who has returned from lock is the owner, at its depth; a mutex handed to
  a waiter cannot be taken before that waiter runs.
* `WaitListExact`: the list holds the tasks blocked in lock, by priority, and nobody waits for
  a free mutex.
* `PriorityInherited`: only the owner has a priority that is not its own, and it is at least
  that of every waiter.
* `NoInversion`: while the owner is ready and a task waits, no switch goes to a task of
  lower priority than the waiter.

Three tasks of three priorities are the classical inversion; a recursion of two is the
least that has an inner unlock.

Properties of `signals`:

* `NobodyOverlooked`: no task waits for bits that are set.
* `ReturnsWhatWasMet`: the bits a wait returns satisfy what it asked for.
* `NotificationKept`: no task stays blocked in a wait while a notification for it is pending,
  and no wait returns `OS_OK` without a notification since the last `OS_OK`.  It does not say that
  every notification is received: one that comes between the reading of the value and the
  clearing of the flag (`kernel/notify.c:117-119`) is lost.  Nor that it ends only waits:
  `blocked_reason` outlives a wait that timed out, and a notification then cuts a later
  `os_task_delay` short and stays pending.
* `SignalledPreempts`: a signalled task does not wait while one of lower priority goes on.
* `ConsumedOnce`: a bit that one waiter clears on exit wakes no other waiter with it.

Two waiters on one list are the least for which the order of the walk matters.

Properties of `services`:

* `ServiceSignalled`: as long as the list of expired timers is not empty, the service task is on
  its way to it or will be woken, although one binary semaphore stands for any number of
  expirations and the lists may have run into each other.
* `TableExact`: whatever was moved between the unprotected steps of a call, every registered
  task has one entry with a countdown that runs, and nobody else has one.  It does not say that
  a call reaches the task it was made for: after a compaction another one is fed or paused.
* `AllocatorsExact`: the blocks of the heap tile it, no two free ones adjoin; the blocks of a
  pool are aligned, different, as many as it was created with and, if the buffer was large
  enough, inside it without overlap.  20 words hold three blocks, so a freed one has two
  neighbours to join; one size wraps when it is rounded up, one buffer is smaller than
  its alignment, one block size wraps to a stride of a pointer.
* `PeriodKept`: a periodic task keeps its schedule across the wrap, with every start.  It is
  released late by exactly the ticks that came inside the call, and these are not carried over.
* `SwitchOwed`: a switch that any of the nested handlers asked for is made, pending, or left to
  a handler that has still to test the flag.
* `SectionsHold`: interrupts are off exactly while a section is open, also deeper than the
  four masks that are stored.

Apart from `task_kernel` no run has fairness: their properties are safety properties.

Liveness (`task_kernel`): `DelayExpires` and `DeletedIsFreed`.  Fairness: SysTick
and PendSV are strongly fair, because the hardware keeps their pending bits until
they are served; the rest of an exception handler is weakly fair, because it runs
to completion; a task between its critical section and its yield is weakly fair,
because it is straight-line code.  Nothing is assumed of tasks otherwise: one may
compute for ever.

### What the violated runs show

* `legacy_contexts`.  With `OS_CONFIG_USE_INTERRUPT_NESTING` 0, the tick calls
  `os_sched_select_next` (`kernel/kernel.c:131`) and then pends PendSV, which stores
  the interrupted task's context through the *new* `current_task_ptr` and selects
  again.  The comment on `PendSV_Handler` and section 11.2 of the design document
  say that the outgoing task's context is saved in its own TCB.  This is why the
  passing runs and the theorems are about the nesting build.
* `freed_current`.  A tick between a self-deletion's critical section and its yield
  frees the stack in use.  The lists stay exact all the same, which is what the
  theorems say.
* `receives_nothing`.  A receiver that waited is made ready by a send that left its item
  in the ring.  It returns `OS_OK` (`kernel/queue.c:405`) with nothing copied; a sender
  that waited returns `OS_OK` with nothing stored (line 243).  The ring itself remains a
  FIFO, which is what `ImplementsFIFO` says; it says nothing about calls that waited.
* `mutex_handoff`.  A boosted owner unlocks and yields.  Its restored priority names a list it
  is not in; the rotation in `os_sched_select_next` unlinks it with the wrong list's head
  and tail, and the switch does not go to the new owner, the only ready task of the
  highest priority.
* `timers`.  A reloaded timer is in the active and in the expired list through one link.  A timer
  started behind it is cut off when the service task takes the reloaded one off the
  expired list and clears its link (`kernel/timer.c:126-128`); it is active, is never counted
  and does not expire.  With three timers the insertion, which subtracts only the delay of
  the timer in front, makes one late as well.
* `tick_raced`.  A handler that notifies a task between the tick's unlinking of it and
  `os_task_add_to_ready` (`kernel/task.c:625-635`) makes it ready; the tick does so again.

In the nesting build nothing in the tick sets `yield_pending` (`kernel/kernel.c:128`): a task it
wakes waits until the running one yields, whatever their priorities.  The models are so; no
property says otherwise.

## 5. Proofs

Assumptions: `TasksAssumption` (finitely many TCBs, the idle one among them, the null
pointer is none), `PrioritiesAssumption`, `ContextsAssumption`, `BoundsAssumption`,
`BuildAssumption`; each theorem also assumes `Nesting` and `Usage = {}`.

`TaskKernelProofs` proves, for every number of tasks, priorities and ticks:
`TypeCorrect`, `ReadyListsCorrect`, `BlockedListCorrect`, `DeferredListCorrect`,
`NoDanglingTask`, `ContextsCorrect`, `RunningCorrect`, `DispatchCorrect`, `TickCorrect` and
`TurnsCorrect`.

None of these properties is inductive alone.  The inductive invariant `Inv` joins

* `TypeOK`;
* `ListInv`: the three lists exact at once, hence disjoint: a link field belongs to
  one list, so storing through it cannot touch another;
* `Allocated`: every task that is not deleted has its TCB allocated;
* `PhaseInv`: before the start nothing but `main()` runs and a table slot is left for
  the idle task; afterwards the idle task is always ready, so a selection never
  fails, and the processor executes the current task;
* `ContextInv`: only the current task is RUNNING, a context that is not about to yield
  is, and every task that does not execute has its own context in its TCB;
* `TickInv`: the loop pointer of the tick is on the list the loop walks.

A list is represented in the proofs by a function on `1 .. n` that enumerates it;
`TaskListTheorems` shows, for every list operator and every list, how the
enumeration changes (append, drop one element, push in front) or that it does not.
It does the same for rotation and selection, and `TaskKernelProofs` then has one lemma
per action.

`TickCorrect` needs more than `Inv`, because the walk unlinks tasks from the list it follows.
`ServeInv` names the tasks the walk has not come to: a set that is threaded by the links from
the loop pointer on, whose members still have the delay they had at the start of the tick,
while all other tasks have been counted down exactly once.  `TurnsCorrect` follows the order
inside a ready list: the rotation puts the outgoing task last, so that the selection takes
another one whenever there is one.

`SemaphoreProofs` proves, from `DispatcherAssumption` and `CountAssumption`, for every
number of tasks, priorities and tokens: `SemaphoreTypeCorrect`, `SemaphoreConserves`,
`WaitListCorrect`, `GrantCorrect`, `OrderCorrect` and `SemaphoreRefines`.  Its inductive invariant
joins

* `TypeOK` and `TokensConserved`;
* `ListInv`: the list is without repetition, by priority, and holds exactly the tasks
  that are blocked inside take;
* `RunInv`: a task that executes and is not about to yield is not blocked, and the
  idle task never is, so that a switch always finds a task;
* `PreemptInv`: while the executing task is not about to yield, the only ready task
  with a token that may be of higher priority is the one its unfinished give woke;
* a deleted semaphore has the count 0.

The lemmas of `WaitListTheorems` say where `Inserted` puts a task and what that, `Without` and
`Tail` do to the elements, their order and their distinctness; `OrderCorrect` compares the
positions of two tasks before and after each of them.  Conservation rests on the cardinality of the
granted tasks changing by one.  `PreemptInv` is the argument a reader of the code has
to make about the comparison outside the critical section, and the reason why
`GrantedPreempts` alone is not inductive.

`QueueProofs` proves, from `DispatcherAssumption` and `QueueAssumption`, for every number of
tasks, every length and every set of items: `QueueTypeCorrect`, `WaitListsCorrect`, `WokenCorrect`
and `QueueRefines`.  Its inductive invariant joins

* `RingInv`: the positions are inside the ring and `tail = (head + count) % max_items`, which
  is what makes the slot written by a send the one behind the items;
* `WaitInv`: the types, the two lists, who runs, and a `PreemptInv` as of the semaphore, for
  the tasks of both lists;
* nobody waits for a queue that has been freed.

The refinement maps the ring to the sequence of `count` items from `head`.  Lemmas on
remainders show what a write at `tail`, a read at `head` and an overwrite of the last slot do to that
sequence when the positions wrap.

`MutexProofs` proves, from `TasksAssumption`, `PrioritiesAssumption` and `LocksAssumption`, for every
number of tasks, priorities and depths: `MutexTypeCorrect`, `OwnerCorrect`,
`MutexWaitListCorrect`, `InheritanceCorrect` and `NoInversionCorrect`.  Its inductive invariant
`IInv` joins the three invariants of the run (each needs the others: that the owner's priority
is inherited says who may be moved between lists, that the lists are exact says whom a
switch finds) with `TypeOK` and

* `ListsInv`: the ready lists and the blocked list are exact as long as the code keeps them so
  (`intact`), and closed under their links always, so that even the switch after a
  corruption stays inside the TCBs;
* `RunInv`: while they are exact, the idle task is ready and a task that goes on is ready too;
* `CallInv`: where a task is in its call; a task that comes back from its wait owns the mutex,
  or it was deleted, before or after the hand-over.

`SignalsProofs` proves, from `DispatcherAssumption`, `DelayAssumption` and `RequestsAssumption`, for
every number of tasks, bits and requests: `SignalsTypeCorrect`, `EventsCorrect`, `ReturnsCorrect`,
`NotificationCorrect`, `SignalsPreempt` and `ConsumedCorrect`.  Its inductive invariant joins
`TypeOK` and `NotificationKept` with

* `EventInv`: the list holds exactly the tasks blocked in a wait, none of them met, and each is
  told from a task that waits for a notification by its `blocked_reason` (a notify must not
  end the wait for an event);
* `TickInv`: the tasks the tick has yet to come to, and the one it has unlinked, wait for no event;
* `RunInv` and `SignalInv`, as `RunInv` and `PreemptInv` of the semaphore.

`Walk` is a recursive function over the list; what it leaves is shown for every list by taking
the first position at which the claim fails.

`ServicesProofs` proves every property of `Services` for every value of its constants, each
from an inductive invariant of its own, since the components share no variable:

* `SectionsCorrect` (from `PortsAssumption`): `SectionsInv` adds that, while a section is
  open, the mask stored for the outermost one is "unmasked", which only its end restores; what
  is stored for inner ones does not matter.
* `SwitchCorrect` (from `PortsAssumption`): `HandlersInv` adds that `irq_nesting_depth` is the number
  of handlers that are past their entry and not past their exit.  So a handler that finds the
  depth not 1 leaves another one in its body, which will test the flag; the lemma
  `InnermostMoves` says how that number changes when the innermost handler moves on.
* `PeriodCorrect` (from `DelayUntilAssumption`): `PeriodInv` bounds the distance to the
  schedule and keeps the call and the delay apart; lemmas on remainders show that the code's signed difference of wrapping
  counters is that distance whenever it fits in half the range.
* `TableCorrect` (from `WatchdogAssumption`): `WatchdogInv` adds that the entry a caller has
  looked up has a deadline and a countdown that are not 0 even when it has been moved or
  freed since, so that what the caller loads, and stores elsewhere, is not 0 either.
* `AllocatorsCorrect` (from `HeapAssumption` and `PoolAssumption`).  `HeapInv`: the list of blocks is
  a chain from 0 to the size of the heap without two free neighbours, and every
  allocated block serves the request the history has for its address.  Every operation
  replaces a stretch of the list by another one that covers the same bytes, and the lemmas
  on `Splice` say once what that preserves: the split, the two directions of coalescing, and a
  reallocation that moves.  The assumption that `Modulus` is a multiple of `Alignment` (both
  are powers of two) is needed: otherwise a size that is rounded up twice, as in a
  reallocation, may wrap the second time.  `PoolInv`: the free blocks and the held ones are disjoint and together are the grid,
  modulo the size of the address space, that the pool was cut into; the grid is shorter than
  that, so its points are different, and an address that is in range and on it is a block.
* `ServiceCorrect` (from `TimersAssumption`): the property with the types of links and locals is
  inductive.  It holds for every number of timers, although nothing is known about the lists:
  a tick that has put a timer on the expired list signals at its end.
* `ServicesTypeCorrect`: the bounds of the watchdog follow from `WatchdogInv`, those of the
  handlers from `HandlersInv`, those of the allocators from theirs.

Recursion over data is handled in the same way everywhere: loops of the code are recursive
functions on numbers or positions, and a claim about all of their values is proved for the least
number at which it fails (the order on the naturals is well founded), since the library's
induction rules cannot be instantiated by the provers.

Only model-checked: the liveness properties `DelayExpires` and `DeletedIsFreed`, which are out of
the prover's reach, and the properties of the violated runs, which are false.  Every invariant and
every action property of a passing run is a theorem.  `TaskKernel` is proved for the nesting
build with `Usage = {}`: in the rest it does not hold, as section 4 says.

## 6. Not modelled

* Tickless idle: disabled in the configuration, and it depends on the registers of a timer
  that no code of the repository serves.
* Trace ring, statistics, system information, hooks, stack painting, high-water marks, the
  overflow check, names and getters: they read the state or write memory nothing else reads.
* The registers and stack frames of a context switch.  The M0 port restores R4-R7 and R8-R11
  exchanged (`port/cortex_m0/port_m0.c:326-331`), the M4 port returns with the outgoing task's EXC_RETURN
  (`port/cortex_m4/port_m4.c:367`), and PendSV may come before a handler has restored R4-R11
  (`port/port.c:275`): what a task finds in its registers is not claimed anywhere.
* The yield that `os_sem_give` makes inside `os_timer_tick` (`kernel/timer.c:399`): of that call the
  models have its effect on the semaphore.
* The encoding of NVIC priorities, clock set-up, start-up code and linker scripts: layout and
  register values, no behaviour of the kernel.
* The demo, the host tests and their mock port: users of the kernel.
* Allocation failure of the heap inside create calls, which leaves the kernel's state as it was.
* Ticks before the scheduler starts (no task is delayed then).
* Timeouts of semaphores, mutexes, queues and event groups: a waiting task is on no list that
  `os_task_tick` walks, so its timeout never ends and the model has no such step.
* Priority changes and deletion of a task that waits for an object; `os_sem_remove_task`, which
  nothing calls; a task that holds two mutexes.
* Interleaved calls of the allocators and of `os_task_create`, which have no critical section.
* What follows a corrupted list: `Mutex` after `intact`, `Signals` after `Torn`.  A handler in the midst
  of one insertion of the timer tick.
