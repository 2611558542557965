------------------------------ MODULE WaitLists ------------------------------
(***************************************************************************)
(* The wait lists of the blocking objects, as sequences of tasks.          *)
(* semaphore.c, mutex.c and queue.c each have the same prv_block_task and  *)
(* prv_unblock_task.                                                       *)
(***************************************************************************)
EXTENDS Dispatcher, Sequences

Elements(list) == {list[i] : i \in 1 .. Len(list)}

\* Mutant: the list is first in, first out.
InsertedLast(list, t) == Append(list, t)

\* Mutant: before the tasks of the same priority.
InsertedFirst(list, t) ==
    LET after == {i \in 1 .. Len(list) : priority[t] <= priority[list[i]]}
        n == IF after = {} THEN Len(list)
             ELSE (CHOOSE i \in after : \A j \in after : i <= j) - 1
    IN  SubSeq(list, 1, n) \o <<t>> \o SubSeq(list, n + 1, Len(list))

\* prv_block_task: before the first task of lower priority.
Inserted(list, t) ==
    LET after == {i \in 1 .. Len(list) : priority[t] < priority[list[i]]}
        n == IF after = {} THEN Len(list)
             ELSE (CHOOSE i \in after : \A j \in after : i <= j) - 1
    IN  SubSeq(list, 1, n) \o <<t>> \o SubSeq(list, n + 1, Len(list))

\* prv_unblock_task of every task in gone: the others stay, in their order.
Without(list, gone) ==
    LET kept[i \in 0 .. Len(list)] ==
            IF i = 0 THEN << >>
            ELSE IF list[i] \in gone THEN kept[i - 1]
            ELSE Append(kept[i - 1], list[i])
    IN  kept[Len(list)]

\* Each task once, by priority.
Ordered(list) ==
    \A i, j \in 1 .. Len(list) :
        i < j => /\ list[i] # list[j]
                 /\ priority[list[i]] <= priority[list[j]]
=============================================================================
