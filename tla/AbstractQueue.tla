---------------------------- MODULE AbstractQueue ----------------------------
(***************************************************************************)
(* What the ring of kernel/queue.c promises to those who put items into it *)
(* and take them out, whatever waiting goes on around it: a sequence of at *)
(* most max items, first in, first out.                                    *)
(***************************************************************************)
EXTENDS Integers, Sequences

CONSTANTS Callers, Items, NoItem, Max

VARIABLES
    items,     \* the items in the queue
    max,       \* how many there may be
    item       \* what each caller's item holds: the one it took, or none

vars == <<items, max, item>>

Init ==
    /\ items = << >>
    /\ max \in 1 .. Max
    /\ item = [c \in Callers |-> NoItem]

Put(x) ==
    /\ Len(items) < max
    /\ items' = Append(items, x)
    /\ UNCHANGED <<max, item>>

\* A queue of one item: the new one takes the place of the old one.
Replace(x) ==
    /\ max = 1
    /\ items' = <<x>>
    /\ UNCHANGED <<max, item>>

Take(c) ==
    /\ items # << >>
    /\ item' = [item EXCEPT ![c] = Head(items)]
    /\ items' = Tail(items)
    /\ UNCHANGED max

Peek(c) ==
    /\ items # << >>
    /\ item' = [item EXCEPT ![c] = Head(items)]
    /\ UNCHANGED <<items, max>>

\* A caller waits, with memory nothing was copied to.
Discard(c) ==
    /\ item' = [item EXCEPT ![c] = NoItem]
    /\ UNCHANGED <<items, max>>

Clear == items' = << >> /\ UNCHANGED <<max, item>>

Create ==
    /\ items = << >>
    /\ max' \in 1 .. Max
    /\ UNCHANGED <<items, item>>

Next ==
    \/ \E x \in Items : Put(x) \/ Replace(x)
    \/ \E c \in Callers : Take(c) \/ Peek(c) \/ Discard(c)
    \/ Clear
    \/ Create

Spec == Init /\ [][Next]_vars
=============================================================================
