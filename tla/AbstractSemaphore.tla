-------------------------- MODULE AbstractSemaphore --------------------------
(***************************************************************************)
(* What kernel/semaphore.c promises: a token is available, or tasks wait,  *)
(* never both; a token given while tasks wait belongs to one of them from  *)
(* that moment, and nobody else can take it; a task that returns with      *)
(* success has had a token of its own.                                     *)
(***************************************************************************)
EXTENDS Integers

CONSTANTS Takers, Max

VARIABLES
    avail,     \* tokens nobody has
    waiting,   \* tasks that wait for one
    granted    \* tasks that were given one and have not returned yet

vars == <<avail, waiting, granted>>

Init == avail \in 0 .. Max /\ waiting = {} /\ granted = {}

\* A token is taken without waiting.
Acquire == avail > 0 /\ avail' = avail - 1 /\ UNCHANGED <<waiting, granted>>

Wait(t) ==
    /\ avail = 0
    /\ t \notin waiting \cup granted
    /\ waiting' = waiting \cup {t}
    /\ UNCHANGED <<avail, granted>>

\* A token is given: to a waiting task, or to nobody if none waits.
Grant(t) ==
    /\ t \in waiting
    /\ waiting' = waiting \ {t}
    /\ granted' = granted \cup {t}
    /\ UNCHANGED avail

Release ==
    /\ waiting = {}
    /\ avail < Max
    /\ avail' = avail + 1
    /\ UNCHANGED <<waiting, granted>>

\* A waiting task returns with its token.
Return(t) ==
    /\ t \in granted
    /\ granted' = granted \ {t}
    /\ UNCHANGED <<avail, waiting>>

\* The semaphore is deleted: whoever waits returns without a token.
Delete == avail' = 0 /\ waiting' = {} /\ UNCHANGED granted

\* It is created anew.
Create ==
    /\ avail = 0
    /\ waiting = {}
    /\ avail' \in 0 .. Max
    /\ UNCHANGED <<waiting, granted>>

Next ==
    \/ \E t \in Takers : Wait(t) \/ Grant(t) \/ Return(t)
    \/ Acquire
    \/ Release
    \/ Delete
    \/ Create

Spec == Init /\ [][Next]_vars
=============================================================================
