------------------------------ MODULE Watchdog ------------------------------
(***************************************************************************)
(* The software watchdog of kernel/watchdog.c: a table of tasks with a     *)
(* deadline each, counted down by the tick.  Feeding, pausing and resuming *)
(* look the entry up and then read and write it outside any critical       *)
(* section, field by field; changing a deadline looks it up outside and    *)
(* writes inside one.  In between the tick counts, other tasks make calls  *)
(* and an unregistration may move or free the entry.  A look-up that       *)
(* misses an entry because it is moved changes nothing, like no call.      *)
(***************************************************************************)
EXTENDS Integers, FiniteSets

CONSTANTS
    Watched,         \* tasks that may be registered
    NoTask,          \* the tcb of an entry not in use, NULL
    Callers,         \* tasks that feed, pause, resume and change deadlines
    MaxEntries,      \* OS_WDT_MAX_ENTRIES
    MaxDeadline      \* bound: longest deadline in ticks

ASSUME WatchdogAssumption ==
    /\ NoTask \notin Watched
    /\ MaxEntries \in Nat \ {0}
    /\ MaxDeadline \in Nat \ {0}

VARIABLES
    wdt_table,
    wdt_count,
    calling,         \* what each caller does next, to which entry, with what
    registered       \* history: the tasks registered and not unregistered

watchdog == <<wdt_table, wdt_count, calling, registered>>

Entries == [tcb : Watched \cup {NoTask}, deadline : 0 .. MaxDeadline,
            remaining : 0 .. MaxDeadline, paused : BOOLEAN]
NoEntry == [tcb |-> NoTask, deadline |-> 0, remaining |-> 0, paused |-> FALSE]

WatchdogSteps == {"load", "store", "pause", "unpause", "set"}
NoCall == [next |-> "none", slot |-> 1, ticks |-> 1]
WatchdogCalls == [next : WatchdogSteps \cup {"none"}, slot : 1 .. MaxEntries,
                  ticks : 1 .. MaxDeadline]

WatchdogTypeOK ==
    /\ wdt_table \in [1 .. MaxEntries -> Entries]
    /\ wdt_count \in 0 .. MaxEntries
    /\ calling \in [Callers -> WatchdogCalls]
    /\ registered \subseteq Watched

\* os_wdt_init
WatchdogInit ==
    /\ wdt_table = [i \in 1 .. MaxEntries |-> NoEntry]
    /\ wdt_count = 0
    /\ calling = [c \in Callers |-> NoCall]
    /\ registered = {}

\* prv_find_entry
Slots(t) == {i \in 1 .. wdt_count : wdt_table[i].tcb = t}

\* os_wdt_register, which refuses a task it has and a task too many.
Register(t, ticks) ==
    /\ Slots(t) = {}
    /\ wdt_count < MaxEntries
    /\ wdt_table' = [wdt_table EXCEPT ![wdt_count + 1] =
                       [tcb |-> t, deadline |-> ticks, remaining |-> ticks, paused |-> FALSE]]
    /\ wdt_count' = wdt_count + 1
    /\ registered' = registered \cup {t}
    /\ UNCHANGED calling

\* Mutant: the entry is cleared where it was, and the last one not moved.
CompactedInPlace(i) == [wdt_table EXCEPT ![i].tcb = NoTask]

\* The last entry is moved to slot i, and its tcb cleared.
Compacted(i) ==
    [[wdt_table EXCEPT ![i] = wdt_table[wdt_count]] EXCEPT ![wdt_count].tcb = NoTask]

\* os_wdt_unregister
Unregister(t) ==
    /\ \E i \in Slots(t) : wdt_table' = Compacted(i)
    /\ wdt_count' = wdt_count - 1
    /\ registered' = registered \ {t}
    /\ UNCHANGED calling

\* The look-up of os_wdt_feed_task (which loads the deadline next), os_wdt_pause,
\* os_wdt_resume (which clears paused first) and os_wdt_set_deadline.
LookUp(c, t, next, ticks) ==
    /\ calling[c] = NoCall
    /\ \E i \in Slots(t) :
          calling' = [calling EXCEPT ![c] = [next |-> next, slot |-> i, ticks |-> ticks]]
    /\ UNCHANGED <<wdt_table, wdt_count, registered>>

\* The entry that caller c has looked up is written to, and what it does next.
WriteEntry(c, e, call) ==
    /\ wdt_table' = [wdt_table EXCEPT ![calling[c].slot] = e]
    /\ calling' = [calling EXCEPT ![c] = call]
    /\ UNCHANGED <<wdt_count, registered>>

Entry(c) == wdt_table[calling[c].slot]

\* entry->remaining = entry->deadline, of feeding and resuming: the load ...
Load(c) ==
    /\ calling[c].next = "load"
    /\ calling' = [calling EXCEPT ![c] = [@ EXCEPT !.next = "store", !.ticks = Entry(c).deadline]]
    /\ UNCHANGED <<wdt_table, wdt_count, registered>>

\* ... and the store.
Store(c) ==
    /\ calling[c].next = "store"
    /\ WriteEntry(c, [Entry(c) EXCEPT !.remaining = calling[c].ticks], NoCall)

Pause(c) ==
    /\ calling[c].next = "pause"
    /\ WriteEntry(c, [Entry(c) EXCEPT !.paused = TRUE], NoCall)

Unpause(c) ==
    /\ calling[c].next = "unpause"
    /\ WriteEntry(c, [Entry(c) EXCEPT !.paused = FALSE], [calling[c] EXCEPT !.next = "load"])

\* The critical section of os_wdt_set_deadline.
SetDeadline(c) ==
    /\ calling[c].next = "set"
    /\ WriteEntry(c, [Entry(c) EXCEPT !.deadline = calling[c].ticks,
                                      !.remaining = calling[c].ticks], NoCall)

\* Mutant: the countdown is not restarted after the callback.
CountedOnce(e) == IF e.paused THEN e ELSE [e EXCEPT !.remaining = @ - 1]

\* One entry's part of os_wdt_tick: a countdown that ends calls the timeout
\* callback and starts again.
Counted(e) ==
    IF e.paused \/ e.tcb = NoTask THEN e
    ELSE [e EXCEPT !.remaining = IF @ > 1 THEN @ - 1 ELSE e.deadline]

\* os_wdt_tick.  The callback, in the interrupt handler, leaves the table alone;
\* with no callback set the default one stops the system.
WatchdogTick ==
    /\ wdt_count > 0
    /\ wdt_table' = [i \in 1 .. MaxEntries |-> IF i <= wdt_count THEN Counted(wdt_table[i])
                                               ELSE wdt_table[i]]
    /\ UNCHANGED <<wdt_count, calling, registered>>

WatchdogNext ==
    \/ \E t \in Watched :
          \/ \E ticks \in 1 .. MaxDeadline :
                \/ Register(t, ticks)
                \/ \E c \in Callers : LookUp(c, t, "set", ticks)
          \/ Unregister(t)
          \/ \E c \in Callers, next \in {"load", "pause", "unpause"} : LookUp(c, t, next, 1)
    \/ \E c \in Callers : Load(c) \/ Store(c) \/ Pause(c) \/ Unpause(c) \/ SetDeadline(c)
    \/ WatchdogTick

-----------------------------------------------------------------------------

\* Unprotected writes never damage the table itself.  Whatever was unregistered
\* and moved between a look-up and its writes, every registered task has exactly
\* one entry among the first wdt_count, nobody else has one, and its countdown
\* is running and ends: it has a deadline and at least one tick left to it, so
\* that the tick neither stops at nor steps over 0 (watchdog.c:96-103, 117-123,
\* 145, 157, 167-168, 181, 221-240).  Not that a call reaches the task it was
\* made for: after a compaction it writes to the entry of another one.
TableExact ==
    /\ {wdt_table[i].tcb : i \in 1 .. wdt_count} = registered
    /\ \A i, j \in 1 .. wdt_count : wdt_table[i].tcb = wdt_table[j].tcb => i = j
    /\ \A i \in 1 .. wdt_count : wdt_table[i].deadline > 0 /\ wdt_table[i].remaining > 0
    /\ \A i \in wdt_count + 1 .. MaxEntries : wdt_table[i].tcb = NoTask
=============================================================================
