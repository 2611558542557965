---------------------------- MODULE MutexProofs ----------------------------
(***************************************************************************)
(* Theorems about Mutex: who owns it, who waits for it and at which        *)
(* priority, for any number of tasks and priorities.                       *)
(*                                                                         *)
(* While intact holds the lists are exact (Exact).  After a restoration    *)
(* that left the owner in the list of another priority only this is left,  *)
(* and it is enough for the context switch that follows: from the heads    *)
(* and tails of the ready lists the links lead to ready tasks (Closed).    *)
(***************************************************************************)
EXTENDS Mutex, TaskListTheorems

W == INSTANCE WaitListTheorems WITH
    state <- k.state, priority <- k.priority, current <- k.current

-----------------------------------------------------------------------------
\* The lists.

Exact(kk, B) == ListsOK(kk, Ready(kk), B, {}, NULL)

Ends(kk) == Ready(kk) \cup {NULL}

Closed(kk) ==
    /\ \A p \in Priorities : kk.head[p] \in Ends(kk) /\ kk.tail[p] \in Ends(kk)
    /\ \A t \in Ready(kk) : kk.next[t] \in Ends(kk) /\ kk.prev[t] \in Ends(kk)

\* B is the blocked list, when the lists are exact.
Linked(kk, B, exact) == Closed(kk) /\ (exact => Exact(kk, B))

LEMMA ExactClosed ==
    ASSUME NEW kk \in KernelRecord, NEW B, Exact(kk, B)
    PROVE  Closed(kk)
<1> DEFINE R == Ready(kk)
<1>1. ReadyOK(kk, R) /\ R \subseteq Tasks
  BY DEF Exact, ListsOK
<1>2. kk.priority \in [Tasks -> Priorities] /\ kk.count \in [Priorities -> Nat]
  BY DEF KernelRecord
<1> HIDE DEF R
<1>3. ASSUME NEW p \in Priorities
      PROVE  /\ kk.head[p] \in R \cup {NULL} /\ kk.tail[p] \in R \cup {NULL}
             /\ \A t \in AtPriority(kk, R, p) :
                   kk.next[t] \in R \cup {NULL} /\ kk.prev[t] \in R \cup {NULL}
  <2> DEFINE n == kk.count[p]
             S == AtPriority(kk, R, p)
  <2>1. PICK f : ReadyListOf(kk, R, p, f)
    BY <1>1 DEF ReadyOK
  <2>2. n \in Nat /\ S \subseteq R
    BY <1>2 DEF AtPriority
  <2>3. /\ IsChain(kk.next, kk.prev, f, n, S)
        /\ kk.head[p] = First(f, n) /\ kk.tail[p] = Last(f, n)
    BY <2>1 DEF ReadyListOf
  <2> HIDE DEF n, S
  <2>4. /\ f \in [1 .. n -> S]
        /\ \A t \in S : \E i \in 1 .. n : f[i] = t
        /\ \A i \in 1 .. n : kk.next[f[i]] = IF i = n THEN NULL ELSE f[i + 1]
        /\ \A i \in 1 .. n : kk.prev[f[i]] = IF i = 1 THEN NULL ELSE f[i - 1]
    BY <2>3 DEF IsChain, Enumerates, NextThreads, PrevThreads
  <2>5. kk.head[p] \in R \cup {NULL} /\ kk.tail[p] \in R \cup {NULL}
    BY <2>2, <2>3, <2>4 DEF First, Last
  <2>6. ASSUME NEW t \in S
        PROVE  kk.next[t] \in R \cup {NULL} /\ kk.prev[t] \in R \cup {NULL}
    <3>1. PICK i \in 1 .. n : f[i] = t
      BY <2>4
    <3> QED
      BY <2>2, <2>4, <3>1
  <2> QED
    BY <2>5, <2>6 DEF S
<1>4. ASSUME NEW t \in R
      PROVE  kk.next[t] \in R \cup {NULL} /\ kk.prev[t] \in R \cup {NULL}
  <2>1. kk.priority[t] \in Priorities /\ t \in AtPriority(kk, R, kk.priority[t])
    BY <1>1, <1>2 DEF AtPriority
  <2> QED
    BY <1>3, <2>1
<1> QED
  BY <1>3, <1>4 DEF Closed, Ends, R

\* os_task_add_to_ready, whatever the lists hold.
LEMMA AddClosed ==
    ASSUME NEW kk \in KernelRecord, NEW t \in Tasks, Closed(kk),
           NEW k2, k2 = AddToReady(kk, t)
    PROVE  Closed(k2) /\ Ready(k2) = Ready(kk) \cup {t}
<1> DEFINE p == kk.priority[t]
           last == kk.tail[p]
<1>1. /\ k2 \in KernelRecord
      /\ k2.state = [kk.state EXCEPT ![t] = "READY"]
      /\ k2.next = Store([kk.next EXCEPT ![t] = NULL], last, t)
      /\ k2.prev = [kk.prev EXCEPT ![t] = last]
      /\ k2.head = [kk.head EXCEPT ![p] = IF last = NULL THEN t ELSE kk.head[p]]
      /\ k2.tail = [kk.tail EXCEPT ![p] = t]
  BY AddToReadyFields
<1>2. /\ kk.state \in [Tasks -> TaskStates] /\ p \in Priorities
      /\ kk.next \in [Tasks -> Pointers] /\ kk.prev \in [Tasks -> Pointers]
      /\ kk.head \in [Priorities -> Pointers] /\ kk.tail \in [Priorities -> Pointers]
  BY DEF KernelRecord
<1>3. Ready(k2) = Ready(kk) \cup {t}
  BY <1>1, <1>2 DEF Ready
<1>4. last \in Ends(kk) /\ Ends(kk) \subseteq Ends(k2) /\ t \in Ends(k2) /\ NULL \in Ends(k2)
  BY <1>2, <1>3 DEF Closed, Ends
<1>5. \A q \in Priorities : k2.head[q] \in Ends(k2) /\ k2.tail[q] \in Ends(k2)
  BY <1>1, <1>2, <1>4 DEF Closed
<1>6. ASSUME NEW u \in Ready(k2)
      PROVE  k2.next[u] \in Ends(k2) /\ k2.prev[u] \in Ends(k2)
  <2>1. u \in Tasks /\ (u # t => kk.next[u] \in Ends(kk) /\ kk.prev[u] \in Ends(kk))
    BY <1>3 DEF Closed, Ready
  <2>2. k2.prev[u] \in Ends(k2)
    BY <1>1, <1>2, <1>4, <2>1
  <2>3. k2.next[u] \in {NULL, t, kk.next[u]} /\ (u = t => k2.next[u] \in {NULL, t})
    BY <1>1, <1>2, <2>1 DEF Store, Pointers
  <2> QED
    BY <1>4, <2>1, <2>2, <2>3
<1> QED
  BY <1>3, <1>5, <1>6 DEF Closed

\* os_task_remove_from_ready leaves the state field alone.
LEMMA RemoveClosed ==
    ASSUME NEW kk \in KernelRecord, NEW t \in Ready(kk), Closed(kk),
           NEW k2, k2 = RemoveFromReady(kk, t)
    PROVE  Closed(k2) /\ Ready(k2) = Ready(kk)
<1> DEFINE p == kk.priority[t]
           before == kk.prev[t]
           after == kk.next[t]
           first == IF before = NULL THEN after ELSE kk.head[p]
<1>0. t \in Tasks
  BY DEF Ready
<1>1. /\ k2 \in KernelRecord
      /\ k2.state = kk.state
      /\ k2.next = [Store(kk.next, before, after) EXCEPT ![t] = NULL]
      /\ k2.prev = [Store(kk.prev, after, before) EXCEPT ![t] = NULL]
      /\ k2.head = [kk.head EXCEPT ![p] = first]
      /\ k2.tail = [kk.tail EXCEPT ![p] = IF after = NULL THEN before ELSE kk.tail[p]]
  BY <1>0, RemoveFromReadyFields
<1>2. /\ kk.state \in [Tasks -> TaskStates] /\ p \in Priorities
      /\ kk.next \in [Tasks -> Pointers] /\ kk.prev \in [Tasks -> Pointers]
      /\ kk.head \in [Priorities -> Pointers] /\ kk.tail \in [Priorities -> Pointers]
  BY <1>0 DEF KernelRecord
<1>3. Ready(k2) = Ready(kk) /\ Ends(k2) = Ends(kk)
  BY <1>1 DEF Ready, Ends
<1>4. before \in Ends(kk) /\ after \in Ends(kk) /\ first \in Ends(kk) /\ NULL \in Ends(kk)
  BY <1>2 DEF Closed, Ends
<1>5. \A q \in Priorities : k2.head[q] \in Ends(kk) /\ k2.tail[q] \in Ends(kk)
  BY <1>1, <1>2, <1>4 DEF Closed
<1>6. ASSUME NEW u \in Ready(kk)
      PROVE  k2.next[u] \in Ends(kk) /\ k2.prev[u] \in Ends(kk)
  <2>1. u \in Tasks /\ kk.next[u] \in Ends(kk) /\ kk.prev[u] \in Ends(kk)
    BY DEF Closed, Ready
  <2>2. k2.next[u] \in {NULL, after, kk.next[u]} /\ k2.prev[u] \in {NULL, before, kk.prev[u]}
    BY <1>0, <1>1, <1>2, <2>1 DEF Store, Pointers
  <2> QED
    BY <1>4, <2>1, <2>2
<1> QED
  BY <1>3, <1>5, <1>6 DEF Closed

LEMMA FoundClosed ==
    ASSUME NEW kk \in KernelRecord, Closed(kk)
    PROVE  FindHighestReady(kk) \in Ends(kk)
<1>1. CASE kk.bitmap = {}
  BY <1>1 DEF FindHighestReady, Ends
<1>2. CASE kk.bitmap # {}
  <2> DEFINE p == HighestPriority(kk.bitmap)
  <2>1. kk.bitmap \subseteq Priorities /\ kk.bitmap \subseteq Nat
    BY DEF KernelRecord, Priorities
  <2>2. \E x \in kk.bitmap : \A y \in kk.bitmap : x <= y
    BY <1>2, <2>1, NatMinimum
  <2>3. p \in kk.bitmap
    BY <2>2 DEF HighestPriority
  <2> HIDE DEF p
  <2>4. FindHighestReady(kk) = kk.head[p]
    BY <1>2 DEF FindHighestReady, p
  <2> QED
    BY <2>1, <2>3, <2>4 DEF Closed
<1> QED
  BY <1>1, <1>2

\* os_sched_select_next never chooses a task that is not ready.
LEMMA SelectClosed ==
    ASSUME NEW kk \in KernelRecord, Closed(kk)
    PROVE  LET k2 == SelectNext(kk)
           IN  /\ k2 \in KernelRecord
               /\ Closed(k2) /\ Ready(k2) = Ready(kk)
               /\ \A u \in Tasks : u \notin Ready(kk) => k2.state[u] = kk.state[u]
               /\ k2.priority = kk.priority
<1> DEFINE c == kk.current
           r1 == RemoveFromReady(kk, c)
           r == Rotate(kk)
           d == FindHighestReady(r)
           s1 == IF r.current # NULL /\ r.state[r.current] = "RUNNING"
                 THEN [r.state EXCEPT ![r.current] = "READY"]
                 ELSE r.state
           s2 == [s1 EXCEPT ![d] = "RUNNING"]
           k2 == SelectNext(kk)
<1>1. /\ r \in KernelRecord /\ Closed(r) /\ Ready(r) = Ready(kk)
      /\ \A u \in Tasks : u \notin Ready(kk) => r.state[u] = kk.state[u]
      /\ r.priority = kk.priority
  <2>1. CASE c # NULL /\ FindHighestReady(kk) = c
    <3>1. c \in Ready(kk) /\ c \in Tasks
      BY <2>1, FoundClosed DEF Ends, Ready
    <3>8. r1 \in KernelRecord /\ r1.state = kk.state /\ r1.priority = kk.priority
      BY <3>1, RemoveFromReadyFields
    <3>9. Closed(r1) /\ Ready(r1) = Ready(kk)
      BY <3>1, RemoveClosed
    <3>2. /\ r1 \in KernelRecord /\ r1.state = kk.state /\ r1.priority = kk.priority
          /\ Closed(r1) /\ Ready(r1) = Ready(kk)
      BY <3>8, <3>9
    <3>3. r = AddToReady(r1, c)
      BY <2>1 DEF Rotate
    <3> HIDE DEF r1, r
    <3>4. /\ r \in KernelRecord /\ r.state = [r1.state EXCEPT ![c] = "READY"]
          /\ r.priority = r1.priority
      BY <3>1, <3>2, <3>3, AddToReadyFields
    <3>5. Closed(r) /\ Ready(r) = Ready(r1) \cup {c}
      BY <3>1, <3>2, <3>3, AddClosed
    <3>6. kk.state \in [Tasks -> TaskStates]
      BY DEF KernelRecord
    <3>7. \A u \in Tasks : u \notin Ready(kk) => r.state[u] = kk.state[u]
      BY <3>1, <3>2, <3>4, <3>6
    <3> QED
      BY <3>1, <3>2, <3>4, <3>5, <3>7
  <2>2. CASE ~(c # NULL /\ FindHighestReady(kk) = c)
    BY <2>2 DEF Rotate
  <2> QED
    BY <2>1, <2>2
<1> HIDE DEF r
<1>2. d \in Ends(r)
  BY <1>1, FoundClosed
<1> HIDE DEF d
<1>3. k2 = kk \/ k2 = r \/ (d # NULL /\ k2 = [r EXCEPT !.state = s2, !.current = d])
  BY DEF SelectNext, r, d
<1> HIDE DEF k2
<1>4. CASE k2 = kk \/ k2 = r
  BY <1>1, <1>4 DEF k2
<1>5. CASE d # NULL /\ k2 = [r EXCEPT !.state = s2, !.current = d]
  <2>1. d \in Ready(r) /\ d \in Tasks
    BY <1>2, <1>5 DEF Ends, Ready
  <2>2. r.state \in [Tasks -> TaskStates]
    BY <1>1 DEF KernelRecord
  <2>3. /\ s1 \in [Tasks -> TaskStates]
        /\ \A u \in Tasks : s1[u] = r.state[u]
                            \/ (s1[u] = "READY" /\ r.state[u] = "RUNNING")
    BY <2>2 DEF TaskStates
  <2> HIDE DEF s1
  <2>4. /\ s2 \in [Tasks -> TaskStates]
        /\ s2[d] = "RUNNING" /\ \A u \in Tasks : u # d => s2[u] = s1[u]
    BY <2>1, <2>3 DEF TaskStates
  <2> HIDE DEF s2
  <2>5. /\ k2.state = s2 /\ k2.priority = r.priority /\ k2.next = r.next
        /\ k2.prev = r.prev /\ k2.head = r.head /\ k2.tail = r.tail
    BY <1>1, <1>5 DEF KernelRecord
  <2>6. k2 \in KernelRecord
    BY <1>1, <1>5, <2>1, <2>4 DEF KernelRecord, Pointers
  <2>7. Ready(k2) = Ready(r)
    BY <2>1, <2>3, <2>4, <2>5 DEF Ready
  <2>8. Closed(k2)
    BY <1>1, <2>5, <2>7 DEF Closed, Ends
  <2>9. \A u \in Tasks : u \notin Ready(r) => k2.state[u] = r.state[u]
    BY <2>1, <2>3, <2>4, <2>5 DEF Ready
  <2> QED
    BY <1>1, <2>5, <2>6, <2>7, <2>8, <2>9 DEF k2
<1> QED
  BY <1>3, <1>4, <1>5

\* os_task_set_priority: exact lists stay exact unless the priority of a RUNNING
\* task is changed.
LEMMA SetPriorityLinked ==
    ASSUME NEW kk \in KernelRecord, NEW B, NEW exact, Linked(kk, B, exact),
           NEW t \in Tasks, NEW p \in Priorities,
           NEW k2, k2 = SetPriority(kk, t, p)
    PROVE  /\ k2 \in KernelRecord
           /\ Closed(k2)
           /\ exact /\ (kk.state[t] = "RUNNING" => kk.priority[t] = p) => Exact(k2, B)
           /\ k2.state = kk.state /\ k2.current = kk.current
           /\ k2.priority = [kk.priority EXCEPT ![t] = p]
<1> DEFINE exact2 == exact /\ (kk.state[t] = "RUNNING" => kk.priority[t] = p)
           R == Ready(kk)
           r == RemoveFromReady(kk, t)
           r2 == [r EXCEPT !.priority[t] = p]
<1>0. kk.state \in [Tasks -> TaskStates] /\ kk.priority \in [Tasks -> Priorities]
  BY DEF KernelRecord
<1>1. CASE kk.state[t] = "READY"
  <2>1. t \in R /\ R \subseteq Tasks
    BY <1>1 DEF Ready
  <2>2. /\ r \in KernelRecord /\ r.state = kk.state /\ r.priority = kk.priority
        /\ r.current = kk.current
    BY RemoveFromReadyFields
  <2>3. Closed(kk) /\ (exact2 => ListsOK(kk, R, B, {}, NULL))
    BY DEF Linked, Exact
  <2>4. Closed(r) /\ Ready(r) = R
    BY <2>1, <2>3, RemoveClosed
  <2>5. exact2 => ListsOK(r, R \ {t}, B, {}, NULL)
    BY <2>1, <2>3, RemoveFromReadyLists
  <2>6. k2 = AddToReady(r2, t)
    BY <1>1 DEF SetPriority
  <2> HIDE DEF R, r
  <2>7. /\ r2.state = r.state /\ r2.next = r.next /\ r2.prev = r.prev
        /\ r2.head = r.head /\ r2.tail = r.tail /\ r2.count = r.count
        /\ r2.bitmap = r.bitmap /\ r2.blocked = r.blocked
    BY <2>2 DEF KernelRecord
  <2>8. r2.priority = [r.priority EXCEPT ![t] = p] /\ r2.current = r.current
    BY <2>2 DEF KernelRecord
  <2>9. r2 \in KernelRecord
    BY <2>2 DEF KernelRecord
  <2> HIDE DEF r2
  <2>10. Ready(r2) = R /\ Closed(r2)
    BY <2>4, <2>7 DEF Ready, Closed, Ends
  <2>11. exact2 => ListsOK(r2, R \ {t}, B, {}, NULL)
    <3> SUFFICES ASSUME exact2 PROVE ListsOK(r2, R \ {t}, B, {}, NULL)
      OBVIOUS
    <3>1. \A u \in R \ {t} : r2.priority[u] = r.priority[u]
      BY <1>0, <2>1, <2>2, <2>8
    <3>2. ListsOK(r, R \ {t}, B, {}, NULL)
      BY <2>5
    <3> QED
      BY <2>2, <2>7, <3>1, <3>2, FrameLists
  <2>12. /\ k2 \in KernelRecord /\ k2.state = [r2.state EXCEPT ![t] = "READY"]
         /\ k2.priority = r2.priority /\ k2.current = r2.current
    <3> DEFINE a == AddToReady(r2, t)
    <3>1. /\ a \in KernelRecord /\ a.state = [r2.state EXCEPT ![t] = "READY"]
          /\ a.priority = r2.priority /\ a.current = r2.current
      BY <2>9, AddToReadyFields
    <3> HIDE DEF a
    <3>2. k2 = a
      BY <2>6 DEF a
    <3> QED
      BY <3>1, <3>2
  <2>13. Closed(k2) /\ Ready(k2) = R \cup {t}
    BY <2>6, <2>9, <2>10, AddClosed
  <2>14. exact2 => ListsOK(k2, (R \ {t}) \cup {t}, B, {}, NULL)
    <3> SUFFICES ASSUME exact2 PROVE ListsOK(k2, (R \ {t}) \cup {t}, B, {}, NULL)
      OBVIOUS
    <3>1. ListsOK(r2, R \ {t}, B, {}, NULL) /\ ListsOK(kk, R, B, {}, NULL)
      BY <2>3, <2>11
    <3>2. t \notin (R \ {t}) \cup B \cup {}
      BY <2>1, <3>1 DEF ListsOK
    <3> QED
      BY <2>6, <2>9, <3>1, <3>2, AddToReadyLists
  <2>15. (R \ {t}) \cup {t} = R /\ R \cup {t} = R
    BY <2>1
  <2>16. k2.state = kk.state
    BY <1>0, <1>1, <2>2, <2>7, <2>12
  <2> QED
    BY <2>2, <2>8, <2>12, <2>13, <2>14, <2>15, <2>16 DEF Exact
<1>2. CASE kk.state[t] # "READY"
  <2>1. k2 = [kk EXCEPT !.priority[t] = p]
    BY <1>2 DEF SetPriority
  <2>2. /\ k2.state = kk.state /\ k2.next = kk.next /\ k2.prev = kk.prev
        /\ k2.head = kk.head /\ k2.tail = kk.tail /\ k2.count = kk.count
        /\ k2.bitmap = kk.bitmap /\ k2.blocked = kk.blocked
    BY <2>1 DEF KernelRecord
  <2>3. k2.priority = [kk.priority EXCEPT ![t] = p] /\ k2.current = kk.current
    BY <2>1 DEF KernelRecord
  <2>4. k2 \in KernelRecord
    BY <2>1 DEF KernelRecord
  <2>5. Ready(k2) = R /\ Closed(k2)
    BY <2>2 DEF Ready, Closed, Ends, Linked
  <2>6. ASSUME exact2 PROVE ListsOK(k2, R, B, {}, NULL)
    <3>1. ListsOK(kk, R, B, {}, NULL)
      BY <2>6 DEF Linked, Exact
    <3>2. \A u \in R : k2.priority[u] = kk.priority[u]
      BY <1>0, <1>2, <2>3, <2>6 DEF Ready
    <3> HIDE DEF R
    <3> QED
      BY <2>2, <3>1, <3>2, FrameLists
  <2> QED
    BY <2>2, <2>3, <2>4, <2>5, <2>6 DEF Exact
<1> QED
  BY <1>1, <1>2

\* os_task_add_to_ready of a task that is on no list.
LEMMA AddLinked ==
    ASSUME NEW kk \in KernelRecord, NEW B, NEW exact, Linked(kk, B, exact),
           NEW t \in Tasks, t \notin Ready(kk), t \notin B,
           NEW k2, k2 = AddToReady(kk, t)
    PROVE  /\ k2 \in KernelRecord
           /\ Linked(k2, B, exact)
           /\ Ready(k2) = Ready(kk) \cup {t}
           /\ k2.state = [kk.state EXCEPT ![t] = "READY"]
           /\ k2.current = kk.current /\ k2.priority = kk.priority
<1>1. Closed(kk)
  BY DEF Linked
<1>2. Closed(k2) /\ Ready(k2) = Ready(kk) \cup {t}
  BY <1>1, AddClosed
<1>3. ASSUME exact PROVE Exact(k2, B)
  <2> DEFINE R == Ready(kk)
  <2>1. ListsOK(kk, R, B, {}, NULL) /\ t \notin R \cup B \cup {}
    BY <1>3 DEF Linked, Exact
  <2> HIDE DEF R
  <2>2. ListsOK(k2, R \cup {t}, B, {}, NULL)
    BY <2>1, AddToReadyLists
  <2> QED
    BY <1>2, <2>2 DEF Exact, R
<1>4. /\ k2 \in KernelRecord /\ k2.state = [kk.state EXCEPT ![t] = "READY"]
      /\ k2.current = kk.current /\ k2.priority = kk.priority
  BY AddToReadyFields
<1> QED
  BY <1>2, <1>3, <1>4 DEF Linked

\* os_task_add_to_ready of every task of a list, none of them on another list.
LEMMA AllReadyLinked ==
    ASSUME NEW kk \in KernelRecord, NEW B, NEW exact, Linked(kk, B, exact),
           NEW list \in Seq(Tasks),
           \A i, j \in 1 .. Len(list) : list[i] = list[j] => i = j,
           \A i \in 1 .. Len(list) : list[i] \notin Ready(kk) /\ list[i] \notin B,
           NEW k2, k2 = AllReady(kk, list)
    PROVE  /\ k2 \in KernelRecord
           /\ Linked(k2, B, exact)
           /\ \A u \in Tasks : k2.state[u] = IF u \in Waits!Elements(list) THEN "READY"
                                             ELSE kk.state[u]
           /\ k2.current = kk.current /\ k2.priority = kk.priority
<1> DEFINE n == Len(list)
           After == CHOOSE after : after =
                       [i \in 0 .. n |-> IF i = 0 THEN kk
                                         ELSE AddToReady(after[i - 1], list[i])]
           step == [i \in 1 .. n |-> [x \in KernelRecord |-> AddToReady(x, list[i])]]
<1>1. k2 = After[n]
  BY DEF AllReady
<1>2. n \in Nat /\ \A i \in 1 .. n : list[i] \in Tasks
  OBVIOUS
<1>3. step \in W!Steps(n, KernelRecord)
  <2>1. \A i \in 1 .. n : \A x \in KernelRecord : AddToReady(x, list[i]) \in KernelRecord
    BY <1>2, AddToReadyFields
  <2> QED
    BY <2>1 DEF W!Steps
<1>4. PICK f \in [0 .. n -> KernelRecord] :
          f[0] = kk /\ \A i \in 1 .. n : f[i] = step[i][f[i - 1]]
  <2> DEFINE X == KernelRecord
  <2>1. kk \in X /\ n \in Nat /\ step \in W!Steps(n, X)
    BY <1>2, <1>3
  <2>2. W!IsFiniteSet(Tasks) /\ Idle \in Tasks /\ NumPriorities \in Nat \ {0}
    BY TasksAssumption, PrioritiesAssumption DEF W!IsFiniteSet, IsFiniteSet
  <2> HIDE DEF step, n, X
  <2>3. W!Results(n, X, kk, step) # {}
    BY <2>1, <2>2, W!Iterates
  <2> QED
    BY <2>3 DEF W!Results, X
<1>5. \A i \in 1 .. n : f[i] = AddToReady(f[i - 1], list[i])
  <2> SUFFICES ASSUME NEW i \in 1 .. n PROVE f[i] = AddToReady(f[i - 1], list[i])
    OBVIOUS
  <2>1. f[i - 1] \in KernelRecord
    BY <1>2
  <2>2. f[i] = step[i][f[i - 1]]
    BY <1>4
  <2>3. \A x \in KernelRecord : step[i][x] = AddToReady(x, list[i])
    OBVIOUS
  <2> HIDE DEF step
  <2> QED
    BY <2>1, <2>2, <2>3
<1>6. f = [i \in 0 .. n |-> IF i = 0 THEN kk ELSE AddToReady(f[i - 1], list[i])]
  <2>1. \A i \in 0 .. n : f[i] = IF i = 0 THEN kk ELSE AddToReady(f[i - 1], list[i])
    <3> SUFFICES ASSUME NEW i \in 0 .. n
                 PROVE  f[i] = IF i = 0 THEN kk ELSE AddToReady(f[i - 1], list[i])
      OBVIOUS
    <3>1. i # 0 => i \in 1 .. n
      BY <1>2
    <3> QED
      BY <1>4, <1>5, <3>1
  <2> HIDE DEF n
  <2> QED
    BY <2>1
<1>7. After = [i \in 0 .. n |-> IF i = 0 THEN kk ELSE AddToReady(After[i - 1], list[i])]
  BY <1>6
<1> HIDE DEF After, n, step
<1>8. /\ After[0] = kk
      /\ \A i \in 1 .. n : After[i] = AddToReady(After[i - 1], list[i])
  <2>1. \A i \in 0 .. n : After[i] = IF i = 0 THEN kk ELSE AddToReady(After[i - 1], list[i])
    BY <1>7, Zenon
  <2> QED
    BY <1>2, <2>1
<1> DEFINE Done(i) == {list[j] : j \in 1 .. i}
           Good(i) == /\ After[i] \in KernelRecord
                      /\ Linked(After[i], B, exact)
                      /\ Ready(After[i]) = Ready(kk) \cup Done(i)
                      /\ \A u \in Tasks : After[i].state[u] =
                            IF u \in Done(i) THEN "READY" ELSE kk.state[u]
                      /\ After[i].current = kk.current
                      /\ After[i].priority = kk.priority
           Bad == {i \in 0 .. n : ~Good(i)}
<1>9. Good(0)
  <2>1. Done(0) = {}
    OBVIOUS
  <2> QED
    BY <1>8, <2>1
<1>10. ASSUME NEW i \in 1 .. n, Good(i - 1) PROVE Good(i)
  <2> DEFINE a == After[i - 1]
             u == list[i]
  <2>1. Done(i) = Done(i - 1) \cup {u}
    BY <1>2
  <2>2. u \in Tasks /\ u \notin Ready(kk) /\ u \notin B /\ u \notin Done(i - 1)
    BY <1>2 DEF n
  <2> HIDE DEF Done
  <2>3. u \notin Ready(a)
    BY <1>10, <2>2
  <2>4. After[i] = AddToReady(a, u)
    BY <1>8
  <2>5. a \in KernelRecord /\ Linked(a, B, exact)
    BY <1>10
  <2> HIDE DEF a, u
  <2>6. /\ After[i] \in KernelRecord
        /\ Linked(After[i], B, exact)
        /\ Ready(After[i]) = Ready(a) \cup {u}
        /\ After[i].state = [a.state EXCEPT ![u] = "READY"]
        /\ After[i].current = a.current /\ After[i].priority = a.priority
    BY <2>2, <2>3, <2>4, <2>5, AddLinked
  <2>7. a.state \in [Tasks -> TaskStates]
    BY <2>5 DEF KernelRecord
  <2>8. /\ Ready(a) = Ready(kk) \cup Done(i - 1)
        /\ \A v \in Tasks : a.state[v] = IF v \in Done(i - 1) THEN "READY" ELSE kk.state[v]
        /\ a.current = kk.current /\ a.priority = kk.priority
    BY <1>10 DEF a
  <2>9. \A v \in Tasks : After[i].state[v] = IF v \in Done(i) THEN "READY" ELSE kk.state[v]
    BY <2>1, <2>2, <2>6, <2>7, <2>8
  <2> QED
    BY <2>1, <2>6, <2>8, <2>9
<1>11. Bad = {}
  <2> SUFFICES ASSUME Bad # {} PROVE FALSE
    OBVIOUS
  <2> HIDE DEF Good
  <2>1. Bad \subseteq Nat
    BY <1>2
  <2>2. PICK m \in Bad : \A y \in Bad : m <= y
    BY <2>1, NatMinimum
  <2>3. m # 0 /\ m \in 1 .. n /\ m - 1 \in 0 .. n /\ ~(m - 1 \in Bad)
    BY <1>2, <1>9, <2>2
  <2> QED
    BY <1>10, <2>2, <2>3
<1>12. Good(n)
  <2> HIDE DEF Good
  <2> QED
    BY <1>2, <1>11
<1>13. Done(n) = Waits!Elements(list)
  BY DEF Waits!Elements, n
<1> HIDE DEF Done
<1> QED
  BY <1>1, <1>12, <1>13

\* os_sched_select_next, with exact lists or without.
LEMMA SelectLinked ==
    ASSUME NEW kk \in KernelRecord, NEW B, NEW exact, Linked(kk, B, exact),
           exact => /\ Ready(kk) # {}
                    /\ \A u \in Tasks : kk.state[u] = "RUNNING" => u = kk.current,
           NEW k2, k2 = SelectNext(kk)
    PROVE  /\ k2 \in KernelRecord
           /\ Linked(k2, B, exact)
           /\ Ready(k2) = Ready(kk) /\ k2.priority = kk.priority
           /\ \A u \in Tasks : u \notin Ready(kk) => k2.state[u] = kk.state[u]
           /\ exact =>
                 /\ k2.current \in Ready(k2)
                 /\ \A u \in Tasks : k2.state[u] = "RUNNING" => u = k2.current
                 /\ \A u \in Ready(kk) : k2.priority[k2.current] <= k2.priority[u]
<1>1. Closed(kk)
  BY DEF Linked
<1>2. /\ k2 \in KernelRecord /\ Closed(k2) /\ Ready(k2) = Ready(kk)
      /\ \A u \in Tasks : u \notin Ready(kk) => k2.state[u] = kk.state[u]
      /\ k2.priority = kk.priority
  BY <1>1, SelectClosed
<1>3. ASSUME exact
      PROVE  /\ Exact(k2, B)
             /\ k2.current \in Ready(k2)
             /\ \A u \in Tasks : k2.state[u] = "RUNNING" => u = k2.current
             /\ \A u \in Ready(kk) : k2.priority[k2.current] <= k2.priority[u]
  <2>1. ListsOK(kk, Ready(kk), B, {}, NULL)
    BY <1>3 DEF Linked, Exact
  <2>2. /\ ListsOK(k2, Ready(kk), B, {}, NULL)
        /\ k2.current \in Ready(kk)
        /\ \A u \in Tasks : k2.state[u] = "RUNNING" => u = k2.current
        /\ \A u \in Ready(kk) : k2.priority[k2.current] <= k2.priority[u]
    BY <1>3, <2>1, SelectNextLists
  <2> QED
    BY <1>2, <2>2 DEF Exact
<1> QED
  BY <1>2, <1>3 DEF Linked

-----------------------------------------------------------------------------
\* The wait list.

Sorted(list, pr) ==
    \A i, j \in 1 .. Len(list) :
        i < j => list[i] # list[j] /\ pr[list[i]] <= pr[list[j]]

LEMMA SortedIs ==
    ASSUME k \in KernelRecord, NEW list \in Seq(App)
    PROVE  /\ Waits!Ordered(list) <=> Sorted(list, k.priority)
           /\ Sorted(list, k.priority) <=> W!Distinct(list) /\ W!ByPriority(list)
<1>1. Waits!Ordered(list) <=> Sorted(list, k.priority)
  BY DEF Waits!Ordered, Sorted
<1>2. ASSUME Sorted(list, k.priority) PROVE W!Distinct(list) /\ W!ByPriority(list)
  <2>1. W!ByPriority(list)
    BY <1>2 DEF Sorted, W!ByPriority
  <2>2. W!Distinct(list)
    <3> SUFFICES ASSUME NEW i \in 1 .. Len(list), NEW j \in 1 .. Len(list),
                        list[i] = list[j], i # j
                 PROVE  FALSE
      BY DEF W!Distinct
    <3>1. i < j \/ j < i
      OBVIOUS
    <3> QED
      BY <1>2, <3>1 DEF Sorted
  <2> QED
    BY <2>1, <2>2
<1>3. ASSUME W!Distinct(list), W!ByPriority(list) PROVE Sorted(list, k.priority)
  BY <1>3 DEF Sorted, W!Distinct, W!ByPriority
<1> QED
  BY <1>1, <1>2, <1>3

\* prv_block_task
LEMMA InsertWaits ==
    ASSUME k \in KernelRecord, NEW list \in Seq(App), NEW t \in App,
           Sorted(list, k.priority), t \notin Waits!Elements(list),
           NEW new, new = Waits!Inserted(list, t)
    PROVE  /\ new \in Seq(App)
           /\ Waits!Elements(new) = Waits!Elements(list) \cup {t}
           /\ Sorted(new, k.priority)
<1>1. W!IsFiniteSet(Tasks) /\ Idle \in Tasks /\ NumPriorities \in Nat \ {0}
  BY TasksAssumption, PrioritiesAssumption DEF W!IsFiniteSet, IsFiniteSet
<1>2. App = W!Takers /\ \A l : Waits!Elements(l) = W!Elements(l)
  BY DEF App, W!Takers, W!Elements, Waits!Elements
<1>3. new = W!Inserted(list, t)
  BY DEF Waits!Inserted, W!Inserted
<1>4. /\ k.priority \in [Tasks -> W!Priorities]
      /\ list \in Seq(W!Takers) /\ t \in W!Takers
      /\ W!Distinct(list) /\ W!ByPriority(list) /\ t \notin W!Elements(list)
  BY <1>2, SortedIs DEF KernelRecord, Priorities, W!Priorities
<1>5. /\ W!Inserted(list, t) \in Seq(W!Takers)
      /\ W!Elements(W!Inserted(list, t)) = W!Elements(list) \cup {t}
      /\ W!Distinct(W!Inserted(list, t))
      /\ W!ByPriority(W!Inserted(list, t))
  BY <1>1, <1>4, W!InsertedIs
<1>6. /\ new \in Seq(App) /\ W!Elements(new) = W!Elements(list) \cup {t}
      /\ W!Distinct(new) /\ W!ByPriority(new)
  BY <1>2, <1>3, <1>5
<1> QED
  BY <1>2, <1>6, SortedIs

\* prv_wake_and_transfer takes the first task.
LEMMA TailWaits ==
    ASSUME k \in KernelRecord, NEW list \in Seq(App), list # << >>,
           Sorted(list, k.priority), NEW first, first = Head(list),
           NEW new, new = Tail(list)
    PROVE  /\ new \in Seq(App)
           /\ first \in Waits!Elements(list)
           /\ Waits!Elements(new) = Waits!Elements(list) \ {first}
           /\ Sorted(new, k.priority)
           /\ \A u \in Waits!Elements(new) : k.priority[first] <= k.priority[u]
<1>1. W!IsFiniteSet(Tasks) /\ Idle \in Tasks /\ NumPriorities \in Nat \ {0}
  BY TasksAssumption, PrioritiesAssumption DEF W!IsFiniteSet, IsFiniteSet
<1>2. App = W!Takers /\ \A l : Waits!Elements(l) = W!Elements(l)
  BY DEF App, W!Takers, W!Elements, Waits!Elements
<1>3. /\ k.priority \in [Tasks -> W!Priorities]
      /\ list \in Seq(W!Takers) /\ W!Distinct(list) /\ W!ByPriority(list)
  BY <1>2, SortedIs DEF KernelRecord, Priorities, W!Priorities
<1>4. /\ Tail(list) \in Seq(W!Takers) /\ Head(list) \in W!Elements(list)
      /\ W!Elements(Tail(list)) = W!Elements(list) \ {Head(list)}
      /\ W!Distinct(Tail(list)) /\ W!ByPriority(Tail(list))
  BY <1>1, <1>3, W!TailIs
<1>5. /\ new \in Seq(App) /\ first \in W!Elements(list)
      /\ W!Elements(new) = W!Elements(list) \ {first}
      /\ W!Distinct(new) /\ W!ByPriority(new)
  BY <1>2, <1>4
<1>6. ASSUME NEW i \in 1 .. Len(new) PROVE k.priority[first] <= k.priority[new[i]]
  <2>1. /\ 1 \in 1 .. Len(list) /\ i + 1 \in 1 .. Len(list) /\ 1 < i + 1
        /\ first = list[1] /\ new[i] = list[i + 1]
    OBVIOUS
  <2> QED
    BY <2>1 DEF Sorted
<1>7. \A u \in Waits!Elements(new) : k.priority[first] <= k.priority[u]
  BY <1>6 DEF Waits!Elements
<1> QED
  BY <1>2, <1>5, <1>7, SortedIs

\* A list stays sorted while no task of it has its priority changed.
LEMMA SortedFrame ==
    ASSUME NEW list, NEW pr, NEW pr2, Sorted(list, pr),
           \A u \in Waits!Elements(list) : pr2[u] = pr[u]
    PROVE  Sorted(list, pr2)
BY DEF Sorted, Waits!Elements

-----------------------------------------------------------------------------
\* The inductive invariant.

\* The blocked list holds the delayed tasks, not those that wait for the mutex.
ListsInv == Linked(k, Delayed(k) \ Waiting, intact)

\* While the lists are exact there is a task to switch to, and the task that
\* executes is ready.
RunInv ==
    intact =>
        /\ Idle \in Ready(k)
        /\ \A t \in Tasks : k.state[t] = "RUNNING" => t = k.current
        /\ \A t \in App : Executes(t) /\ pc[t] \notin {"yield", "lock"} => t \in Ready(k)

Blocking == {"lock", "resumed"}

\* Where a task is in its call.  A task that comes back from its wait and is not
\* the owner has been told so, or has lost a mutex it never returned with.
CallInv ==
    \A t \in App :
        /\ held[t] > 0 => pc[t] \in {"run", "yield"}
        /\ pc[t] = "unlock" => woken[t] \in Tasks
        /\ t \in revoked => pc[t] \in Blocking /\ t \notin Waiting /\ t # owner
        /\ pc[t] \in Blocking => t \in Waiting \/ t = owner \/ timed_out[t] \/ t \in revoked

IInv ==
    /\ TypeOK
    /\ ListsInv
    /\ RunInv
    /\ CallInv
    /\ OwnerExclusive
    /\ WaitListExact
    /\ PriorityInherited

LEMMA AppTasks ==
    /\ App \subseteq Tasks /\ Idle \in Tasks
    /\ NULL \notin Tasks /\ NULL \notin App /\ Idle \notin App
BY TasksAssumption DEF App

\* What the invariant says of the tasks that wait and of the one that executes.
LEMMA Parties ==
    ASSUME IInv
    PROVE  /\ Waiting \subseteq App
           /\ \A u \in Waiting : k.state[u] = "BLOCKED" /\ pc[u] \in Blocking
           /\ owner \notin Waiting
           /\ Sorted(wait_list, k.priority)
           /\ wait_list = << >> => Waiting = {}
           /\ \A t \in App : Executes(t) /\ pc[t] \notin {"yield", "lock"} =>
                 t \in Ready(k) /\ t \notin Waiting /\ k.state[t] # "BLOCKED"
<1>1. /\ k \in KernelRecord /\ wait_list \in Seq(App) /\ owner \in App \cup {NULL}
      /\ held \in [Tasks -> 0 .. MaxLocks]
  BY DEF IInv, TypeOK
<1>2. Waiting = {t \in App : pc[t] \in Blocking /\ k.state[t] = "BLOCKED"}
  BY DEF IInv, WaitListExact, Blocking
<1>3. owner \notin Waiting
  <2> SUFFICES ASSUME owner \in Waiting PROVE FALSE
    OBVIOUS
  <2>1. owner \in App /\ owner # NULL /\ pc[owner] \in Blocking
    BY <1>2, AppTasks
  <2>2. held[owner] > 0 => pc[owner] \in {"run", "yield"}
    BY <2>1 DEF IInv, CallInv
  <2>3. held[owner] = 0 => owner \notin Waiting
    BY <2>1 DEF IInv, OwnerExclusive
  <2>4. held[owner] \in Nat
    BY <1>1, <2>1, AppTasks
  <2> QED
    BY <2>1, <2>2, <2>3, <2>4 DEF Blocking
<1>4. Sorted(wait_list, k.priority)
  BY <1>1, SortedIs DEF IInv, WaitListExact
<1>5. wait_list = << >> => Waiting = {}
  BY DEF Waiting, Waits!Elements
<1>6. \A t \in App : Executes(t) /\ pc[t] \notin {"yield", "lock"} => t \in Ready(k)
  BY DEF IInv, RunInv, Executes
<1>7. \A t \in Ready(k) : t \notin Waiting /\ k.state[t] # "BLOCKED"
  BY <1>2 DEF Ready
<1> QED
  BY <1>2, <1>3, <1>4, <1>5, <1>6, <1>7

-----------------------------------------------------------------------------
\* The steps that leave the lists alone.

LEMMA SameLists ==
    ASSUME IInv, UNCHANGED <<k, wait_list, intact>>
    PROVE  /\ ListsInv' /\ Waiting' = Waiting
           /\ Waits!Ordered(wait_list)'
<1>1. Waiting' = Waiting
  BY DEF Waiting, Waits!Elements
<1>2. ListsInv'
  BY <1>1 DEF IInv, ListsInv
<1>3. Waits!Ordered(wait_list)'
  BY DEF IInv, WaitListExact, Waits!Ordered
<1> QED
  BY <1>1, <1>2, <1>3

LEMMA LockFreeStep ==
    ASSUME IInv, NEW t \in App, LockFree(t)
    PROVE  IInv' /\ k'.current = k.current
<1>1. /\ ListsInv' /\ Waiting' = Waiting /\ Waits!Ordered(wait_list)'
  BY SameLists DEF LockFree
<1>2. /\ t \in Tasks /\ t # NULL /\ pc[t] = "run" /\ owner = NULL
      /\ Waiting = {}
  BY AppTasks, Parties DEF LockFree, Calls, IInv, WaitListExact
<1>3. TypeOK'
  BY <1>2, LocksAssumption DEF IInv, TypeOK, LockFree, KernelRecord
<1>4. RunInv'
  BY DEF IInv, RunInv, LockFree, Executes
<1>5. CallInv'
  BY <1>1, <1>2, AppTasks DEF IInv, CallInv, LockFree, TypeOK, Blocking
<1>6. OwnerExclusive'
  BY <1>1, <1>2, AppTasks DEF IInv, OwnerExclusive, LockFree, TypeOK
<1>7. WaitListExact'
  BY <1>1, <1>2 DEF IInv, WaitListExact, LockFree
<1>8. PriorityInherited'
  <2>1. \A u \in App : k.priority[u] = base[u] /\ base[u] \in Int
    BY <1>2, AppTasks DEF IInv, PriorityInherited, TypeOK, Priorities
  <2>2. UNCHANGED <<k, base>> /\ owner' = t /\ original_prio' = k.priority[t] /\ Waiting' = {}
    BY <1>1, <1>2 DEF LockFree
  <2> QED
    BY <2>1, <2>2 DEF PriorityInherited
<1> QED
  BY <1>1, <1>3, <1>4, <1>5, <1>6, <1>7, <1>8 DEF IInv, LockFree

\* Another lock or unlock of the owner's.
LEMMA DepthStep ==
    ASSUME IInv, NEW t \in App, LockAgain(t) \/ UnlockOnce(t)
    PROVE  IInv' /\ k'.current = k.current
<1>1. /\ ListsInv' /\ Waiting' = Waiting /\ Waits!Ordered(wait_list)'
  BY SameLists DEF LockAgain, UnlockOnce
<1>2. /\ t \in Tasks /\ t # NULL /\ pc[t] = "run" /\ owner = t
      /\ held[t] \in 0 .. MaxLocks
  BY AppTasks DEF LockAgain, UnlockOnce, Calls, IInv, TypeOK
<1>3. held[t] = lock_count /\ held[t] > 0
  BY <1>2 DEF IInv, OwnerExclusive
<1>4. /\ UNCHANGED <<k, pendsv, owner, original_prio, wait_list, timed_out, pc,
                     woken, base, intact, revoked>>
      /\ lock_count' \in 1 .. MaxLocks /\ held' = [held EXCEPT ![t] = lock_count']
  BY <1>2, <1>3, LocksAssumption DEF LockAgain, UnlockOnce, IInv, TypeOK
<1>5. TypeOK'
  BY <1>2, <1>4, LocksAssumption DEF IInv, TypeOK
<1>6. RunInv'
  BY <1>4 DEF IInv, RunInv, Executes
<1>7. CallInv'
  BY <1>1, <1>2, <1>3, <1>4, AppTasks DEF IInv, CallInv, TypeOK, Blocking
<1>8. OwnerExclusive'
  BY <1>1, <1>2, <1>3, <1>4, AppTasks DEF IInv, OwnerExclusive, TypeOK
<1>9. WaitListExact'
  BY <1>1, <1>4 DEF IInv, WaitListExact
<1>10. PriorityInherited'
  BY <1>1, <1>4 DEF IInv, PriorityInherited
<1> QED
  BY <1>1, <1>4, <1>5, <1>6, <1>7, <1>8, <1>9, <1>10 DEF IInv

LEMMA YieldStep ==
    ASSUME IInv, NEW t \in App, Yield(t)
    PROVE  IInv' /\ k'.current = k.current
<1>1. /\ ListsInv' /\ Waiting' = Waiting /\ Waits!Ordered(wait_list)'
  BY SameLists DEF Yield, mutex
<1>2. /\ t \in Tasks /\ t # NULL /\ pc[t] \in {"run", "yield", "lock"}
      /\ pc \in [Tasks -> {"run", "yield", "lock", "resumed", "unlock"}]
  BY AppTasks DEF Yield, IInv, TypeOK
<1>3. /\ UNCHANGED <<k, owner, lock_count, original_prio, wait_list, timed_out, woken,
                     base, held, intact, revoked>>
      /\ pc' = [pc EXCEPT ![t] = IF pc[t] = "lock" THEN "resumed" ELSE "run"]
      /\ pendsv' = TRUE
  BY DEF Yield, Goto, mutex
<1>4. /\ \A u \in App : u # t => pc'[u] = pc[u]
      /\ \/ pc[t] = "lock" /\ pc'[t] = "resumed"
         \/ pc[t] \in {"run", "yield"} /\ pc'[t] = "run"
      /\ \A u \in App : (pc'[u] \in Blocking) <=> (pc[u] \in Blocking)
  <2>1. \A u \in App : u # t => pc'[u] = pc[u]
    BY <1>2, <1>3, AppTasks
  <2>2. \/ pc[t] = "lock" /\ pc'[t] = "resumed"
        \/ pc[t] \in {"run", "yield"} /\ pc'[t] = "run"
    BY <1>2, <1>3
  <2> QED
    BY <2>1, <2>2 DEF Blocking
<1>5. TypeOK'
  BY <1>2, <1>3 DEF IInv, TypeOK
<1>6. RunInv'
  BY <1>3 DEF IInv, RunInv, Executes
<1>7. CallInv'
  BY <1>1, <1>3, <1>4 DEF IInv, CallInv, Blocking
<1>8. OwnerExclusive'
  <2>1. owner \in App \cup {NULL}
    BY DEF IInv, TypeOK
  <2> QED
    BY <1>1, <1>3, <1>4, <2>1 DEF IInv, OwnerExclusive, Blocking
<1>9. WaitListExact'
  BY <1>1, <1>3, <1>4 DEF IInv, WaitListExact, Blocking
<1>10. PriorityInherited'
  BY <1>1, <1>3 DEF IInv, PriorityInherited
<1> QED
  BY <1>1, <1>3, <1>5, <1>6, <1>7, <1>8, <1>9, <1>10 DEF IInv

\* os_mutex_lock returns: with OS_OK to the owner alone.
LEMMA ResumedStep ==
    ASSUME IInv, NEW t \in App, Resumed(t)
    PROVE  IInv' /\ k'.current = k.current
<1>1. /\ ListsInv' /\ Waiting' = Waiting /\ Waits!Ordered(wait_list)'
  BY SameLists DEF Resumed, mutex
<1>2. /\ t \in Tasks /\ t # NULL /\ pc[t] = "resumed" /\ Executes(t)
      /\ pc \in [Tasks -> {"run", "yield", "lock", "resumed", "unlock"}]
      /\ held \in [Tasks -> 0 .. MaxLocks] /\ owner \in App \cup {NULL}
      /\ revoked \subseteq App
  BY AppTasks DEF Resumed, IInv, TypeOK
<1>3. t \notin Waiting /\ t \in Ready(k) /\ k.state[t] # "BLOCKED"
  BY <1>2, Parties
<1>4. /\ UNCHANGED <<k, pendsv, owner, lock_count, original_prio, wait_list, timed_out,
                     woken, base, intact>>
      /\ held' = [held EXCEPT ![t] = IF timed_out[t] \/ t \in revoked THEN 0 ELSE 1]
      /\ revoked' = revoked \ {t}
      /\ pc' = [pc EXCEPT ![t] = "run"]
  BY DEF Resumed, Goto, mutex
<1>5. held[t] = 0
  <2>1. ~(held[t] > 0)
    BY <1>2 DEF IInv, CallInv
  <2> QED
    BY <1>2, <2>1
<1>6. /\ owner = t => ~timed_out[t] /\ t \notin revoked /\ lock_count = 1
      /\ owner # t => timed_out[t] \/ t \in revoked
  BY <1>2, <1>3, <1>5 DEF IInv, CallInv, OwnerExclusive, Blocking
<1>7. /\ \A u \in Tasks : u # t => held'[u] = held[u] /\ pc'[u] = pc[u]
      /\ held'[t] = (IF owner = t THEN 1 ELSE 0) /\ pc'[t] = "run"
  BY <1>2, <1>4, <1>6
<1>8. TypeOK'
  <2>1. held' \in [Tasks -> 0 .. MaxLocks]
    BY <1>2, <1>4, LocksAssumption
  <2>2. pc' \in [Tasks -> {"run", "yield", "lock", "resumed", "unlock"}]
    BY <1>2, <1>4
  <2> QED
    BY <1>4, <2>1, <2>2 DEF IInv, TypeOK
<1>9. RunInv'
  BY <1>3, <1>4, <1>7, AppTasks DEF IInv, RunInv, Executes
<1>10. CallInv'
  BY <1>1, <1>4, <1>7, AppTasks DEF IInv, CallInv, Blocking
<1>11. OwnerExclusive'
  <2>1. ASSUME NEW u \in App, held'[u] > 0 PROVE owner = u /\ lock_count = held'[u]
    <3>1. CASE u = t
      BY <1>6, <1>7, <2>1, <3>1
    <3>2. CASE u # t
      BY <1>7, <2>1, <3>2, AppTasks DEF IInv, OwnerExclusive
    <3> QED
      BY <3>1, <3>2
  <2>2. ASSUME owner # NULL, held'[owner] = 0
        PROVE  /\ pc'[owner] \in {"lock", "resumed"} /\ ~timed_out[owner]
               /\ owner \notin Waiting /\ lock_count = 1
    <3>1. owner # t /\ owner \in Tasks
      BY <1>2, <1>7, <2>2, AppTasks
    <3> QED
      BY <1>7, <2>2, <3>1 DEF IInv, OwnerExclusive
  <2> QED
    BY <1>1, <1>4, <2>1, <2>2 DEF OwnerExclusive
<1>12. WaitListExact'
  BY <1>1, <1>3, <1>4, <1>7, AppTasks DEF IInv, WaitListExact
<1>13. PriorityInherited'
  BY <1>1, <1>4 DEF IInv, PriorityInherited
<1> QED
  BY <1>1, <1>4, <1>8, <1>9, <1>10, <1>11, <1>12, <1>13 DEF IInv

LEMMA UnlockPreemptsStep ==
    ASSUME IInv, NEW t \in App, UnlockPreempts(t)
    PROVE  IInv' /\ k'.current = k.current
<1>1. /\ ListsInv' /\ Waiting' = Waiting /\ Waits!Ordered(wait_list)'
  BY SameLists DEF UnlockPreempts, mutex
<1>2. /\ t \in Tasks /\ t # NULL /\ pc[t] = "unlock" /\ t = k.current /\ ~pendsv /\ t # Idle
      /\ pc \in [Tasks -> {"run", "yield", "lock", "resumed", "unlock"}]
      /\ woken \in [Tasks -> Pointers] /\ owner \in App \cup {NULL}
  BY AppTasks DEF UnlockPreempts, IInv, TypeOK
<1>3. /\ UNCHANGED <<k, owner, lock_count, original_prio, wait_list, timed_out,
                     base, held, revoked, intact>>
      /\ woken' = [woken EXCEPT ![t] = NULL]
      /\ pc' = [pc EXCEPT ![t] = "run"]
  BY DEF UnlockPreempts, Goto, mutex
<1>4. /\ \A u \in Tasks : u # t => woken'[u] = woken[u] /\ pc'[u] = pc[u]
      /\ pc'[t] = "run"
  BY <1>2, <1>3
<1>5. TypeOK'
  <2>1. pendsv' \in BOOLEAN
    BY DEF UnlockPreempts
  <2>2. /\ woken' \in [Tasks -> Pointers]
        /\ pc' \in [Tasks -> {"run", "yield", "lock", "resumed", "unlock"}]
    BY <1>2, <1>3 DEF Pointers
  <2> QED
    BY <1>3, <2>1, <2>2 DEF IInv, TypeOK
<1>6. RunInv'
  <2>1. intact => t \in Ready(k)
    BY <1>2 DEF IInv, RunInv, Executes
  <2>2. ASSUME NEW u \in App, Executes(u)', intact PROVE u \in Ready(k)
    BY <1>2, <1>3, <2>1, <2>2 DEF Executes
  <2>3. intact => /\ Idle \in Ready(k)
                  /\ \A u \in Tasks : k.state[u] = "RUNNING" => u = k.current
    BY DEF IInv, RunInv
  <2> QED
    BY <1>3, <2>2, <2>3 DEF RunInv
<1>7. CallInv'
  BY <1>1, <1>2, <1>3, <1>4, AppTasks DEF IInv, CallInv, Blocking
<1>8. OwnerExclusive'
  BY <1>1, <1>2, <1>3, <1>4, AppTasks DEF IInv, OwnerExclusive
<1>9. WaitListExact'
  BY <1>1, <1>2, <1>3, <1>4, AppTasks DEF IInv, WaitListExact
<1>10. PriorityInherited'
  BY <1>1, <1>3 DEF IInv, PriorityInherited
<1> QED
  BY <1>1, <1>3, <1>5, <1>6, <1>7, <1>8, <1>9, <1>10 DEF IInv

LEMMA RequestSwitchStep ==
    ASSUME IInv, RequestSwitch
    PROVE  IInv' /\ k'.current = k.current
<1>1. /\ ListsInv' /\ Waiting' = Waiting /\ Waits!Ordered(wait_list)'
  BY SameLists DEF RequestSwitch, mutex
<1>2. /\ UNCHANGED <<k, owner, lock_count, original_prio, wait_list, timed_out,
                     pc, woken, base, held, revoked, intact>>
      /\ pendsv' = TRUE
  BY DEF RequestSwitch, mutex
<1>3. TypeOK'
  BY <1>2 DEF IInv, TypeOK
<1>4. RunInv'
  BY <1>2 DEF IInv, RunInv, Executes
<1>5. CallInv' /\ OwnerExclusive'
  BY <1>1, <1>2 DEF IInv, CallInv, OwnerExclusive
<1>6. WaitListExact' /\ PriorityInherited'
  BY <1>1, <1>2 DEF IInv, WaitListExact, PriorityInherited
<1> QED
  BY <1>1, <1>2, <1>3, <1>4, <1>5, <1>6 DEF IInv

\* The context switch.
LEMMA SwitchStep ==
    ASSUME IInv, Switch
    PROVE  IInv'
<1>1. /\ UNCHANGED <<owner, lock_count, original_prio, wait_list, timed_out,
                     pc, woken, base, held, revoked, intact>>
      /\ pendsv' = FALSE /\ k' = SelectNext(k)
  BY DEF Switch, mutex
<1>2. Waiting' = Waiting
  BY <1>1 DEF Waiting, Waits!Elements
<1>3. k \in KernelRecord /\ Linked(k, Delayed(k) \ Waiting, intact)
  BY DEF IInv, TypeOK, ListsInv
<1>4. intact => /\ Ready(k) # {}
                /\ \A u \in Tasks : k.state[u] = "RUNNING" => u = k.current
  BY DEF IInv, RunInv
<1>5. /\ k' \in KernelRecord
      /\ Linked(k', Delayed(k) \ Waiting, intact)
      /\ Ready(k') = Ready(k) /\ k'.priority = k.priority
      /\ \A u \in Tasks : u \notin Ready(k) => k'.state[u] = k.state[u]
      /\ intact => /\ k'.current \in Ready(k')
                   /\ \A u \in Tasks : k'.state[u] = "RUNNING" => u = k'.current
  BY <1>1, <1>3, <1>4, SelectLinked
<1>6. /\ Delayed(k') = Delayed(k)
      /\ \A u \in Tasks : k'.state[u] = "BLOCKED" <=> k.state[u] = "BLOCKED"
  BY <1>5 DEF Ready, Delayed
<1>7. TypeOK'
  BY <1>1, <1>5 DEF IInv, TypeOK
<1>8. ListsInv'
  BY <1>1, <1>2, <1>5, <1>6 DEF ListsInv
<1>9. RunInv'
  BY <1>1, <1>5 DEF IInv, RunInv, Executes
<1>10. CallInv' /\ OwnerExclusive'
  BY <1>1, <1>2 DEF IInv, CallInv, OwnerExclusive
<1>11. WaitListExact'
  <2>1. Waits!Ordered(wait_list)'
    BY <1>1, <1>5 DEF IInv, WaitListExact, Waits!Ordered
  <2> QED
    BY <1>1, <1>2, <1>6, <2>1, AppTasks DEF IInv, WaitListExact
<1>12. PriorityInherited'
  BY <1>1, <1>2, <1>5 DEF IInv, PriorityInherited
<1> QED
  BY <1>7, <1>8, <1>9, <1>10, <1>11, <1>12 DEF IInv

-----------------------------------------------------------------------------
\* The steps that change the lists.

\* prv_boost_priority by a task that finds the mutex taken.
LEMMA BoostIs ==
    ASSUME IInv, NEW t \in App, Calls(t), owner \notin {NULL, t},
           NEW kb, kb = Boost(k, t)
    PROVE  /\ kb \in KernelRecord
           /\ Linked(kb, Delayed(k) \ Waiting, intact)
           /\ kb.state = k.state /\ kb.current = k.current
           /\ \A u \in Tasks : u # owner => kb.priority[u] = k.priority[u]
           /\ kb.priority[owner] <= k.priority[owner]
           /\ kb.priority[owner] <= k.priority[t]
<1> DEFINE B == Delayed(k) \ Waiting
           p == k.priority[t]
<1>1. /\ k \in KernelRecord /\ Linked(k, B, intact)
      /\ owner \in App /\ owner \in Tasks /\ t \in Tasks
  BY AppTasks DEF IInv, TypeOK, ListsInv
<1>2. k.priority \in [Tasks -> Priorities] /\ Priorities \subseteq Int
  BY <1>1 DEF KernelRecord, Priorities
<1>6. k.priority[owner] \in Int /\ k.priority[t] \in Int
  BY <1>1, <1>2
<1>3. k.state[owner] # "RUNNING"
  BY <1>1 DEF IInv, RunInv, Calls, Executes
<1> HIDE DEF B
<1>4. CASE k.priority[t] < k.priority[owner]
  <2>1. kb = SetPriority(k, owner, p) /\ p \in Priorities
    BY <1>1, <1>2, <1>4 DEF Boost
  <2> HIDE DEF p
  <2>2. /\ kb \in KernelRecord /\ Closed(kb)
        /\ intact /\ (k.state[owner] = "RUNNING" => k.priority[owner] = p) => Exact(kb, B)
        /\ kb.state = k.state /\ kb.current = k.current
        /\ kb.priority = [k.priority EXCEPT ![owner] = p]
    BY <1>1, <2>1, SetPriorityLinked
  <2>5. Linked(kb, B, intact)
    BY <1>3, <2>2 DEF Linked
  <2>3. \A u \in Tasks : u # owner => kb.priority[u] = k.priority[u]
    BY <1>2, <2>2
  <2>4. kb.priority[owner] = p /\ p <= k.priority[owner] /\ p <= k.priority[t]
    BY <1>1, <1>2, <1>4, <1>6, <2>2 DEF p
  <2> QED
    BY <2>2, <2>3, <2>4, <2>5 DEF B
<1>5. CASE ~(k.priority[t] < k.priority[owner])
  <2>1. kb = k
    BY <1>5 DEF Boost
  <2> QED
    <3>1. kb.priority[owner] <= k.priority[owner] /\ kb.priority[owner] <= k.priority[t]
      BY <1>5, <1>6, <2>1
    <3>2. kb \in KernelRecord /\ Linked(kb, B, intact)
      BY <1>1, <2>1
    <3>3. kb.state = k.state /\ kb.current = k.current /\ kb.priority = k.priority
      BY <2>1
    <3> QED
      BY <3>1, <3>2, <3>3 DEF B
<1> QED
  BY <1>4, <1>5

\* A boost disturbs neither the order of the list nor the inheritance.
LEMMA BoostOrder ==
    ASSUME IInv, owner \in App, NEW pr \in [Tasks -> Priorities],
           \A u \in Tasks : u # owner => pr[u] = k.priority[u],
           pr[owner] <= k.priority[owner]
    PROVE  /\ Sorted(wait_list, pr)
           /\ \A u \in App : IF u = owner
                             THEN /\ original_prio = base[u]
                                  /\ pr[u] <= base[u]
                                  /\ \A v \in Waiting : pr[u] <= pr[v]
                             ELSE pr[u] = base[u]
<1>1. /\ Waiting \subseteq App /\ owner \notin Waiting /\ Sorted(wait_list, k.priority)
  BY Parties
<1>2. \A u \in Waiting : pr[u] = k.priority[u]
  BY <1>1, AppTasks
<1>3. Sorted(wait_list, pr)
  BY <1>1, <1>2, SortedFrame DEF Waiting
<1>4. /\ k.priority \in [Tasks -> Priorities] /\ base \in [Tasks -> Priorities]
      /\ Priorities \subseteq Int
  BY DEF IInv, TypeOK, KernelRecord, Priorities
<1>5. /\ original_prio = base[owner] /\ k.priority[owner] <= base[owner]
      /\ \A v \in Waiting : k.priority[owner] <= k.priority[v]
      /\ \A u \in App : u # owner => k.priority[u] = base[u]
  BY DEF IInv, PriorityInherited
<1>9. \A u \in App : pr[u] \in Int /\ k.priority[u] \in Int /\ base[u] \in Int
  BY <1>4, AppTasks
<1>6. pr[owner] <= base[owner]
  BY <1>5, <1>9
<1>7. ASSUME NEW v \in Waiting PROVE pr[owner] <= pr[v]
  <2>1. v \in App /\ pr[v] = k.priority[v] /\ k.priority[owner] <= k.priority[v]
    BY <1>1, <1>2, <1>5
  <2> QED
    BY <1>9, <2>1
<1>8. ASSUME NEW u \in App, u # owner PROVE pr[u] = base[u]
  BY <1>5, <1>8, AppTasks
<1> QED
  BY <1>3, <1>5, <1>6, <1>7, <1>8

LEMMA LockGivesUpStep ==
    ASSUME IInv, NEW t \in App, LockGivesUp(t)
    PROVE  IInv' /\ k'.current = k.current
<1>1. /\ UNCHANGED <<pendsv, owner, lock_count, original_prio, wait_list, timed_out,
                     pc, woken, base, held, revoked, intact>>
      /\ Calls(t) /\ owner \notin {NULL, t} /\ k' = Boost(k, t)
  BY DEF LockGivesUp, mutex
<1>2. Waiting' = Waiting
  BY <1>1 DEF Waiting, Waits!Elements
<1>3. /\ k' \in KernelRecord
      /\ Linked(k', Delayed(k) \ Waiting, intact)
      /\ k'.state = k.state /\ k'.current = k.current
      /\ \A u \in Tasks : u # owner => k'.priority[u] = k.priority[u]
      /\ k'.priority[owner] <= k.priority[owner]
  BY <1>1, BoostIs
<1>4. owner \in App /\ k'.priority \in [Tasks -> Priorities]
  BY <1>1, <1>3 DEF IInv, TypeOK, KernelRecord
<1>5. TypeOK'
  BY <1>1, <1>3 DEF IInv, TypeOK
<1>6. Ready(k') = Ready(k) /\ Delayed(k') = Delayed(k)
  BY <1>3 DEF Ready, Delayed
<1>7. ListsInv'
  BY <1>1, <1>2, <1>3, <1>6 DEF ListsInv
<1>8. RunInv'
  BY <1>1, <1>3, <1>6 DEF IInv, RunInv, Executes
<1>9. CallInv' /\ OwnerExclusive'
  BY <1>1, <1>2 DEF IInv, CallInv, OwnerExclusive
<1> DEFINE pr == k'.priority
<1>10. /\ Sorted(wait_list, pr)
       /\ \A u \in App : IF u = owner
                         THEN /\ original_prio = base[u]
                              /\ pr[u] <= base[u]
                              /\ \A v \in Waiting : pr[u] <= pr[v]
                         ELSE pr[u] = base[u]
  <2>1. /\ pr \in [Tasks -> Priorities] /\ pr[owner] <= k.priority[owner]
        /\ \A u \in Tasks : u # owner => pr[u] = k.priority[u]
    BY <1>3, <1>4
  <2> HIDE DEF pr
  <2> QED
    BY <1>4, <2>1, BoostOrder
<1>11. WaitListExact'
  <2>1. Waits!Ordered(wait_list)'
    BY <1>1, <1>10 DEF Waits!Ordered, Sorted
  <2> QED
    BY <1>1, <1>2, <1>3, <2>1 DEF IInv, WaitListExact
<1>12. PriorityInherited'
  BY <1>1, <1>2, <1>10 DEF PriorityInherited
<1> QED
  BY <1>3, <1>5, <1>7, <1>8, <1>9, <1>11, <1>12 DEF IInv

\* os_mutex_lock that blocks: the task leaves the ready list and joins the wait
\* list, which is no list of the kernel's.
LEMMA LockBlocksStep ==
    ASSUME IInv, NEW t \in App, LockBlocks(t)
    PROVE  IInv' /\ k'.current = k.current
<1> DEFINE kb == Boost(k, t)
           r == RemoveFromReady(kb, t)
           B == Delayed(k) \ Waiting
           pr == k'.priority
<1>1. /\ UNCHANGED <<pendsv, owner, lock_count, original_prio, woken, base, held,
                     revoked, intact>>
      /\ Calls(t) /\ owner \notin {NULL, t}
      /\ k' = [r EXCEPT !.state[t] = "BLOCKED"]
      /\ wait_list' = Waits!Inserted(wait_list, t)
      /\ timed_out' = [timed_out EXCEPT ![t] = FALSE]
      /\ pc' = [pc EXCEPT ![t] = "lock"]
  BY DEF LockBlocks, Goto
<1>2. /\ t \in Tasks /\ t # NULL /\ t # Idle /\ pc[t] = "run" /\ t = k.current
      /\ owner \in App /\ owner \in Tasks /\ k \in KernelRecord
      /\ wait_list \in Seq(App)
      /\ pc \in [Tasks -> {"run", "yield", "lock", "resumed", "unlock"}]
      /\ timed_out \in [Tasks -> BOOLEAN] /\ held \in [Tasks -> 0 .. MaxLocks]
  BY <1>1, AppTasks DEF IInv, TypeOK, Calls, Executes
<1>3. /\ t \in Ready(k) /\ t \notin Waiting /\ k.state[t] # "BLOCKED"
      /\ owner \notin Waiting /\ Waiting \subseteq App
      /\ Sorted(wait_list, k.priority)
  BY <1>1, <1>2, Parties DEF Calls
<1>4. /\ kb \in KernelRecord
      /\ Linked(kb, B, intact)
      /\ kb.state = k.state /\ kb.current = k.current
      /\ \A u \in Tasks : u # owner => kb.priority[u] = k.priority[u]
      /\ kb.priority[owner] <= k.priority[owner]
      /\ kb.priority[owner] <= k.priority[t]
  BY <1>1, BoostIs
<1> HIDE DEF kb
<1>5. Exact(kb, B)
  BY <1>1, <1>4 DEF Linked, Calls, Executes
<1>6. /\ r \in KernelRecord /\ r.state = kb.state /\ r.priority = kb.priority
      /\ r.current = kb.current
  BY <1>2, <1>4, RemoveFromReadyFields
<1>7. Ready(kb) = Ready(k) /\ k.state \in [Tasks -> TaskStates]
  BY <1>2, <1>4 DEF Ready, KernelRecord
<1>8. ListsOK(r, Ready(k) \ {t}, B, {}, NULL)
  BY <1>3, <1>4, <1>5, <1>7, RemoveFromReadyLists DEF Exact
<1> HIDE DEF r
<1>9. /\ k'.next = r.next /\ k'.prev = r.prev /\ k'.head = r.head
      /\ k'.tail = r.tail /\ k'.count = r.count /\ k'.bitmap = r.bitmap
      /\ k'.blocked = r.blocked /\ k'.priority = r.priority /\ k'.current = r.current
  BY <1>1, <1>6 DEF KernelRecord
<1>10. k'.state = [k.state EXCEPT ![t] = "BLOCKED"]
  BY <1>1, <1>4, <1>6 DEF KernelRecord
<1>11. k' \in KernelRecord
  BY <1>1, <1>2, <1>6 DEF KernelRecord, TaskStates
<1>12. /\ Ready(k') = Ready(k) \ {t}
       /\ Delayed(k') = Delayed(k) \cup {t}
       /\ \A u \in Tasks : k'.state[u] = IF u = t THEN "BLOCKED" ELSE k.state[u]
  BY <1>2, <1>7, <1>10 DEF Ready, Delayed
<1>13. /\ wait_list' \in Seq(App)
       /\ Waiting' = Waiting \cup {t}
       /\ Sorted(wait_list', k.priority)
  <2> DEFINE new == Waits!Inserted(wait_list, t)
  <2>1. t \notin Waits!Elements(wait_list)
    BY <1>3 DEF Waiting
  <2>2. /\ new \in Seq(App) /\ Waits!Elements(new) = Waits!Elements(wait_list) \cup {t}
        /\ Sorted(new, k.priority)
    BY <1>2, <1>3, <2>1, InsertWaits
  <2> HIDE DEF new
  <2>3. wait_list' = new
    BY <1>1 DEF new
  <2> QED
    BY <2>2, <2>3 DEF Waiting, Waits!Elements
<1>14. /\ \A u \in Tasks : u # t => pc'[u] = pc[u] /\ timed_out'[u] = timed_out[u]
       /\ pc'[t] = "lock"
  BY <1>1, <1>2
<1>15. TypeOK'
  <2>1. timed_out' \in [Tasks -> BOOLEAN]
    BY <1>1, <1>2
  <2>2. pc' \in [Tasks -> {"run", "yield", "lock", "resumed", "unlock"}]
    BY <1>1, <1>2
  <2> QED
    BY <1>1, <1>11, <1>13, <2>1, <2>2 DEF IInv, TypeOK
<1>16. ListsInv'
  <2>1. (Delayed(k) \cup {t}) \ (Waiting \cup {t}) = B
    BY <1>3 DEF Delayed
  <2> HIDE DEF B
  <2>2. \A u \in Ready(k) \ {t} : k'.priority[u] = r.priority[u]
    BY <1>9
  <2>3. ListsOK(k', Ready(k) \ {t}, B, {}, NULL)
    BY <1>6, <1>8, <1>9, <2>2, FrameLists
  <2>4. Exact(k', B)
    BY <1>12, <2>3 DEF Exact
  <2>5. Closed(k')
    BY <1>11, <2>4, ExactClosed
  <2>6. (Delayed(k) \ Waiting)' = B
    BY <1>12, <1>13, <2>1
  <2> QED
    BY <2>4, <2>5, <2>6 DEF ListsInv, Linked
<1>17. RunInv'
  <2>1. \A u \in App : ~(u = k'.current /\ pc'[u] # "lock")
    BY <1>2, <1>4, <1>6, <1>9, <1>14
  <2>2. Idle \in Ready(k) /\ \A u \in Tasks : k.state[u] = "RUNNING" => u = k.current
    BY <1>1 DEF IInv, RunInv, Calls, Executes
  <2>3. Idle \in Ready(k') /\ \A u \in Tasks : k'.state[u] = "RUNNING" => u = k'.current
    BY <1>2, <1>4, <1>6, <1>9, <1>12, <2>2
  <2> QED
    BY <2>1, <2>3 DEF RunInv, Executes
<1>18. held[t] = 0
  <2>1. ~(held[t] > 0)
    BY <1>1, <1>2 DEF IInv, OwnerExclusive
  <2> QED
    BY <1>2, <2>1
<1>19. CallInv'
  BY <1>1, <1>2, <1>3, <1>13, <1>14, <1>18, AppTasks DEF IInv, CallInv, Blocking
<1>20. OwnerExclusive'
  BY <1>1, <1>2, <1>3, <1>13, <1>14, AppTasks DEF IInv, OwnerExclusive
<1>21. \A u \in Waiting \cup {t} : pr[u] = k.priority[u]
  <2>1. pr = kb.priority
    BY <1>6, <1>9
  <2>2. \A u \in Waiting \cup {t} : u \in Tasks /\ u # owner
    BY <1>1, <1>2, <1>3, AppTasks
  <2> HIDE DEF pr
  <2> QED
    BY <1>4, <2>1, <2>2
<1>22. WaitListExact'
  <2>1. Sorted(wait_list', pr)
    <3>1. \A u \in Waits!Elements(wait_list') : pr[u] = k.priority[u]
      BY <1>13, <1>21 DEF Waiting, Waits!Elements
    <3> HIDE DEF pr
    <3> QED
      BY <1>13, <3>1, SortedFrame
  <2>2. Waits!Ordered(wait_list)'
    BY <2>1 DEF Waits!Ordered, Sorted
  <2>3. Waiting' = {u \in App : pc'[u] \in {"lock", "resumed"} /\ k'.state[u] = "BLOCKED"}
    BY <1>2, <1>3, <1>12, <1>13, <1>14, AppTasks DEF IInv, WaitListExact
  <2> QED
    BY <1>1, <2>2, <2>3 DEF WaitListExact
<1>23. PriorityInherited'
  <2>1. /\ pr \in [Tasks -> Priorities] /\ pr[owner] <= k.priority[owner]
        /\ pr[owner] <= k.priority[t]
        /\ \A u \in Tasks : u # owner => pr[u] = k.priority[u]
    BY <1>4, <1>6, <1>9, <1>11 DEF KernelRecord
  <2> HIDE DEF pr
  <2>2. \A u \in App : IF u = owner
                       THEN /\ original_prio = base[u]
                            /\ pr[u] <= base[u]
                            /\ \A v \in Waiting : pr[u] <= pr[v]
                       ELSE pr[u] = base[u]
    BY <1>2, <2>1, BoostOrder
  <2>3. \A v \in Waiting \cup {t} : pr[owner] <= pr[v]
    BY <1>1, <1>2, <2>1, <2>2
  <2> QED
    BY <1>1, <1>13, <2>2, <2>3 DEF PriorityInherited, pr
<1> QED
  BY <1>4, <1>6, <1>9, <1>15, <1>16, <1>17, <1>19, <1>20, <1>22, <1>23 DEF IInv

\* os_task_delay
LEMMA DelayStep ==
    ASSUME IInv, NEW t \in App, Delay(t)
    PROVE  IInv' /\ k'.current = k.current
<1> DEFINE B == Delayed(k) \ Waiting
<1>1. /\ UNCHANGED <<pendsv, owner, lock_count, original_prio, wait_list, timed_out,
                     woken, base, held, revoked, intact>>
      /\ Calls(t) /\ k' = AddToBlocked(k, t, 1)
      /\ pc' = [pc EXCEPT ![t] = "yield"]
  BY DEF Delay, Goto, mutex
<1>2. /\ t \in Tasks /\ t # NULL /\ t # Idle /\ pc[t] = "run" /\ t = k.current
      /\ k \in KernelRecord /\ owner \in App \cup {NULL}
      /\ pc \in [Tasks -> {"run", "yield", "lock", "resumed", "unlock"}]
  BY <1>1, AppTasks DEF IInv, TypeOK, Calls, Executes
<1>3. t \in Ready(k) /\ t \notin Waiting /\ k.state[t] # "BLOCKED"
  BY <1>1, <1>2, Parties DEF Calls
<1>4. Exact(k, B)
  BY <1>1 DEF IInv, ListsInv, Linked, Calls, Executes
<1>5. Waiting' = Waiting
  BY <1>1 DEF Waiting, Waits!Elements
<1>6. k' \in KernelRecord /\ ListsOK(k', Ready(k) \ {t}, B \cup {t}, {}, NULL)
  <2> DEFINE R == Ready(k)
  <2>1. ListsOK(k, R, B, {}, NULL) /\ t \in R
    BY <1>3, <1>4 DEF Exact
  <2> HIDE DEF R, B
  <2> QED
    BY <1>1, <1>2, <2>1, AddToBlockedLists DEF R
<1>7. /\ k'.state = [k.state EXCEPT ![t] = "BLOCKED"]
      /\ k'.priority = k.priority /\ k'.current = k.current
  BY <1>1, <1>2, AddToBlockedFields
<1>8. /\ Ready(k') = Ready(k) \ {t}
      /\ Delayed(k') = Delayed(k) \cup {t}
      /\ \A u \in Tasks : k'.state[u] = IF u = t THEN "BLOCKED" ELSE k.state[u]
  <2>1. k.state \in [Tasks -> TaskStates]
    BY <1>2 DEF KernelRecord
  <2> QED
    BY <1>2, <1>7, <2>1 DEF Ready, Delayed
<1>9. /\ \A u \in Tasks : u # t => pc'[u] = pc[u]
      /\ pc'[t] = "yield"
  BY <1>1, <1>2
<1>10. TypeOK'
  BY <1>1, <1>2, <1>6 DEF IInv, TypeOK
<1>11. ListsInv'
  <2>1. (Delayed(k) \ Waiting)' = B \cup {t}
    BY <1>3, <1>5, <1>8
  <2>2. Exact(k', B \cup {t})
    BY <1>6, <1>8 DEF Exact
  <2>3. Closed(k')
    BY <1>6, <2>2, ExactClosed
  <2> QED
    BY <2>1, <2>2, <2>3 DEF ListsInv, Linked
<1>12. RunInv'
  <2>1. \A u \in App : ~(u = k'.current /\ pc'[u] # "yield")
    BY <1>2, <1>7, <1>9
  <2>2. Idle \in Ready(k) /\ \A u \in Tasks : k.state[u] = "RUNNING" => u = k.current
    BY <1>1 DEF IInv, RunInv, Calls, Executes
  <2>3. Idle \in Ready(k') /\ \A u \in Tasks : k'.state[u] = "RUNNING" => u = k'.current
    BY <1>2, <1>7, <1>8, <2>2
  <2> QED
    BY <2>1, <2>3 DEF RunInv, Executes
<1>13. CallInv'
  BY <1>1, <1>2, <1>5, <1>9, AppTasks DEF IInv, CallInv, Blocking
<1>14. OwnerExclusive'
  BY <1>1, <1>2, <1>5, <1>9, AppTasks DEF IInv, OwnerExclusive
<1>15. WaitListExact'
  <2>1. Waits!Ordered(wait_list)'
    BY <1>1, <1>7 DEF IInv, WaitListExact, Waits!Ordered
  <2>2. Waiting' = {u \in App : pc'[u] \in {"lock", "resumed"} /\ k'.state[u] = "BLOCKED"}
    BY <1>2, <1>3, <1>5, <1>8, <1>9, AppTasks DEF IInv, WaitListExact
  <2> QED
    BY <1>1, <2>1, <2>2 DEF IInv, WaitListExact
<1>16. PriorityInherited'
  BY <1>1, <1>5, <1>7 DEF IInv, PriorityInherited
<1> QED
  BY <1>7, <1>10, <1>11, <1>12, <1>13, <1>14, <1>15, <1>16 DEF IInv

\* os_task_tick ends a delay.
LEMMA DelayEndsStep ==
    ASSUME IInv, NEW t \in App, DelayEnds(t)
    PROVE  IInv' /\ k'.current = k.current
<1> DEFINE B == Delayed(k) \ Waiting
           r == RemoveFromBlocked(k, t)
           r2 == [r EXCEPT !.delay[t] = 0]
<1>1. /\ UNCHANGED <<pendsv, owner, lock_count, original_prio, wait_list, timed_out,
                     pc, woken, base, held, revoked, intact>>
      /\ k.state[t] = "BLOCKED" /\ t \notin Waiting
      /\ k' = AddToReady(r2, t)
  BY DEF DelayEnds, mutex
<1>2. /\ t \in Tasks /\ k \in KernelRecord /\ k.state \in [Tasks -> TaskStates]
  BY AppTasks DEF IInv, TypeOK, KernelRecord
<1>3. t \in B /\ t \notin Ready(k)
  BY <1>1, <1>2 DEF Delayed, Ready
<1>4. Exact(k, B)
  BY DEF IInv, ListsInv, Linked, DelayEnds
<1>5. Waiting' = Waiting
  BY <1>1 DEF Waiting, Waits!Elements
<1>6. /\ r \in KernelRecord /\ r.state = k.state /\ r.priority = k.priority
      /\ r.current = k.current
  BY <1>2, RemoveFromBlockedFields
<1>7. ListsOK(r, Ready(k), B \ {t}, {}, NULL)
  BY <1>2, <1>3, <1>4, RemoveFromBlockedLists DEF Exact
<1> HIDE DEF r
<1>8. /\ r2.state = r.state /\ r2.next = r.next /\ r2.prev = r.prev
      /\ r2.head = r.head /\ r2.tail = r.tail /\ r2.count = r.count
      /\ r2.bitmap = r.bitmap /\ r2.blocked = r.blocked
      /\ r2.priority = r.priority /\ r2.current = r.current
  BY <1>6 DEF KernelRecord
<1>9. r2 \in KernelRecord
  BY <1>6 DEF KernelRecord
<1> HIDE DEF r2
<1>10. Exact(r2, B \ {t}) /\ Ready(r2) = Ready(k)
  <2> DEFINE R == Ready(k)
             C == B \ {t}
  <2>1. ListsOK(r, R, C, {}, NULL)
    BY <1>7
  <2>2. R = Ready(r2)
    BY <1>6, <1>8 DEF Ready
  <2> HIDE DEF R, C
  <2>3. ListsOK(r2, R, C, {}, NULL)
    BY <1>6, <1>8, <2>1, FrameLists
  <2> QED
    BY <2>2, <2>3 DEF Exact, R, C
<1>11. Linked(r2, B \ {t}, TRUE)
  BY <1>9, <1>10, ExactClosed DEF Linked
<1>12. /\ k' \in KernelRecord /\ Linked(k', B \ {t}, TRUE)
       /\ Ready(k') = Ready(k) \cup {t}
       /\ k'.state = [k.state EXCEPT ![t] = "READY"]
       /\ k'.current = k.current /\ k'.priority = k.priority
  <2> DEFINE C == B \ {t}
             yes == TRUE
             a == AddToReady(r2, t)
  <2>1. t \notin Ready(r2) /\ t \notin C /\ Linked(r2, C, yes)
    BY <1>3, <1>10, <1>11
  <2> HIDE DEF C, yes
  <2>2. /\ a \in KernelRecord /\ Linked(a, C, yes)
        /\ Ready(a) = Ready(r2) \cup {t}
        /\ a.state = [r2.state EXCEPT ![t] = "READY"]
        /\ a.current = r2.current /\ a.priority = r2.priority
    BY <1>2, <1>9, <2>1, AddLinked
  <2> HIDE DEF a
  <2>3. k' = a
    BY <1>1 DEF a
  <2> QED
    BY <1>6, <1>8, <1>10, <2>2, <2>3 DEF C, yes
<1>13. /\ Delayed(k') = Delayed(k) \ {t}
       /\ \A u \in Tasks : k'.state[u] = IF u = t THEN "READY" ELSE k.state[u]
  BY <1>2, <1>12 DEF Delayed
<1>14. TypeOK'
  BY <1>1, <1>12 DEF IInv, TypeOK
<1>15. ListsInv'
  <2>1. (Delayed(k) \ Waiting)' = B \ {t}
    BY <1>5, <1>13
  <2> QED
    BY <1>12, <2>1 DEF ListsInv, Linked
<1>16. RunInv'
  BY <1>1, <1>12, <1>13 DEF IInv, RunInv, Executes
<1>17. CallInv' /\ OwnerExclusive'
  BY <1>1, <1>5 DEF IInv, CallInv, OwnerExclusive
<1>18. WaitListExact'
  <2>1. Waits!Ordered(wait_list)'
    BY <1>1, <1>12 DEF IInv, WaitListExact, Waits!Ordered
  <2>2. Waiting' = {u \in App : pc'[u] \in {"lock", "resumed"} /\ k'.state[u] = "BLOCKED"}
    BY <1>1, <1>5, <1>13, AppTasks DEF IInv, WaitListExact
  <2> QED
    BY <1>1, <2>1, <2>2 DEF IInv, WaitListExact
<1>19. PriorityInherited'
  BY <1>1, <1>5, <1>12 DEF IInv, PriorityInherited
<1> QED
  BY <1>12, <1>14, <1>15, <1>16, <1>17, <1>18, <1>19 DEF IInv

\* prv_restore_priority: every application task has the priority it was created
\* with.  The lists stay exact unless the owner runs with another one.
LEMMA RestoreIs ==
    ASSUME IInv, NEW t \in App, Calls(t), NEW kr, kr = Restore(k)
    PROVE  /\ kr \in KernelRecord
           /\ Linked(kr, Delayed(k) \ Waiting, RestoreKeepsLists)
           /\ kr.state = k.state /\ kr.current = k.current
           /\ \A u \in App : kr.priority[u] = base[u]
<1> DEFINE B == Delayed(k) \ Waiting
           p == original_prio
<1>1. /\ k \in KernelRecord /\ Linked(k, B, intact)
      /\ owner \in App \cup {NULL} /\ p \in Priorities
  BY DEF IInv, TypeOK, ListsInv
<1>2. intact
  BY DEF Calls, Executes
<1> HIDE DEF B
<1>3. CASE owner = NULL
  <2>1. kr = k
    BY <1>3 DEF Restore
  <2>2. \A u \in App : k.priority[u] = base[u]
    BY <1>3, AppTasks DEF IInv, PriorityInherited
  <2>3. Linked(k, B, RestoreKeepsLists)
    BY <1>1, <1>2 DEF Linked
  <2> QED
    BY <1>1, <2>1, <2>2, <2>3 DEF B
<1>4. CASE owner # NULL
  <2>1. kr = SetPriority(k, owner, p) /\ owner \in Tasks /\ owner \in App
    BY <1>1, <1>4, AppTasks DEF Restore
  <2> HIDE DEF p
  <2>2. /\ kr \in KernelRecord /\ Closed(kr)
        /\ intact /\ (k.state[owner] = "RUNNING" => k.priority[owner] = p) => Exact(kr, B)
        /\ kr.state = k.state /\ kr.current = k.current
        /\ kr.priority = [k.priority EXCEPT ![owner] = p]
    BY <1>1, <2>1, SetPriorityLinked
  <2>3. Linked(kr, B, RestoreKeepsLists)
    BY <1>2, <1>4, <2>2 DEF Linked, RestoreKeepsLists, p
  <2>4. p = base[owner] /\ \A u \in App : u # owner => k.priority[u] = base[u]
    BY <2>1 DEF IInv, PriorityInherited, p
  <2>5. k.priority \in [Tasks -> Priorities]
    BY <1>1 DEF KernelRecord
  <2>6. \A u \in App : kr.priority[u] = base[u]
    BY <2>1, <2>2, <2>4, <2>5, AppTasks
  <2> QED
    BY <2>2, <2>3, <2>6 DEF B
<1> QED
  BY <1>3, <1>4

\* os_mutex_unlock with nobody waiting.
LEMMA ReleaseStep ==
    ASSUME IInv, NEW t \in App, Release(t)
    PROVE  IInv' /\ k'.current = k.current
<1>1. /\ UNCHANGED <<pendsv, original_prio, wait_list, timed_out, pc, woken, base, revoked>>
      /\ Calls(t) /\ owner = t /\ owner' = NULL /\ lock_count' = 0
      /\ held' = [held EXCEPT ![t] = 0]
      /\ k' = Restore(k) /\ intact' = RestoreKeepsLists /\ wait_list = << >>
  BY DEF Release
<1>2. Waiting' = Waiting /\ Waiting = {}
  BY <1>1, Parties DEF Waiting, Waits!Elements
<1>3. /\ k' \in KernelRecord
      /\ Linked(k', Delayed(k) \ Waiting, RestoreKeepsLists)
      /\ k'.state = k.state /\ k'.current = k.current
      /\ \A u \in App : k'.priority[u] = base[u]
  BY <1>1, RestoreIs
<1>4. /\ t \in Tasks /\ pc[t] = "run" /\ held \in [Tasks -> 0 .. MaxLocks]
  BY <1>1, AppTasks DEF IInv, TypeOK, Calls
<1>5. Ready(k') = Ready(k) /\ Delayed(k') = Delayed(k)
  BY <1>3 DEF Ready, Delayed
<1>6. \A u \in App : held'[u] = 0
  <2> SUFFICES ASSUME NEW u \in App, u # t PROVE held[u] = 0
    BY <1>1, <1>4, AppTasks
  <2>1. ~(held[u] > 0) /\ held[u] \in Nat
    BY <1>1, <1>4, AppTasks DEF IInv, OwnerExclusive
  <2> QED
    BY <2>1
<1>7. TypeOK'
  <2>1. held' \in [Tasks -> 0 .. MaxLocks] /\ 0 \in 0 .. MaxLocks
    BY <1>1, <1>4, LocksAssumption
  <2>2. intact' \in BOOLEAN
    BY <1>1 DEF RestoreKeepsLists
  <2> QED
    BY <1>1, <1>3, <2>1, <2>2 DEF IInv, TypeOK
<1>8. ListsInv'
  BY <1>1, <1>2, <1>3, <1>5 DEF ListsInv
<1>9. RunInv'
  <2>1. /\ Idle \in Ready(k) /\ \A u \in Tasks : k.state[u] = "RUNNING" => u = k.current
        /\ \A u \in App : u = k.current => u \in Ready(k)
    BY <1>1, <1>4 DEF IInv, RunInv, Calls, Executes
  <2> QED
    BY <1>3, <1>5, <2>1 DEF RunInv, Executes
<1>10. CallInv'
  BY <1>1, <1>2, <1>4, <1>6, AppTasks DEF IInv, CallInv, Blocking
<1>11. OwnerExclusive'
  BY <1>1, <1>6 DEF OwnerExclusive
<1>12. WaitListExact'
  <2>1. Waits!Ordered(wait_list)'
    BY <1>1 DEF Waits!Ordered
  <2> QED
    BY <1>1, <1>2, <1>3, <2>1 DEF IInv, WaitListExact
<1>13. PriorityInherited'
  BY <1>1, <1>3, AppTasks DEF PriorityInherited
<1> QED
  BY <1>3, <1>7, <1>8, <1>9, <1>10, <1>11, <1>12, <1>13 DEF IInv

\* os_mutex_unlock that hands the mutex over.
LEMMA TransferStep ==
    ASSUME IInv, NEW t \in App, Transfer(t)
    PROVE  IInv' /\ k'.current = k.current
<1> DEFINE first == Head(wait_list)
           kr == Restore(k)
           B == Delayed(k) \ Waiting
           pr == k'.priority
<1>1. /\ UNCHANGED <<pendsv, base, revoked>>
      /\ Calls(t) /\ owner = t /\ owner' = first /\ lock_count' = 1
      /\ original_prio' = k.priority[first]
      /\ wait_list # << >> /\ wait_list' = Tail(wait_list)
      /\ timed_out' = [timed_out EXCEPT ![first] = FALSE]
      /\ woken' = [woken EXCEPT ![t] = first]
      /\ held' = [held EXCEPT ![t] = 0]
      /\ pc' = [pc EXCEPT ![t] = "unlock"]
      /\ k' = AddToReady(kr, first) /\ intact' = RestoreKeepsLists
  BY DEF Transfer, Goto
<1>2. /\ t \in Tasks /\ pc[t] = "run" /\ held \in [Tasks -> 0 .. MaxLocks]
      /\ k \in KernelRecord /\ wait_list \in Seq(App)
      /\ timed_out \in [Tasks -> BOOLEAN] /\ woken \in [Tasks -> Pointers]
      /\ pc \in [Tasks -> {"run", "yield", "lock", "resumed", "unlock"}]
      /\ k.state \in [Tasks -> TaskStates]
  BY <1>1, AppTasks DEF IInv, TypeOK, Calls, KernelRecord
<1>3. /\ Waiting \subseteq App /\ owner \notin Waiting
      /\ Sorted(wait_list, k.priority)
      /\ \A u \in Waiting : k.state[u] = "BLOCKED" /\ pc[u] \in Blocking
  BY Parties
<1> HIDE DEF first
<1>4. /\ wait_list' \in Seq(App) /\ first \in Waiting
      /\ Waiting' = Waiting \ {first}
      /\ Sorted(wait_list', k.priority)
      /\ \A u \in Waiting' : k.priority[first] <= k.priority[u]
  <2> DEFINE new == Tail(wait_list)
  <2>1. /\ new \in Seq(App) /\ first \in Waits!Elements(wait_list)
        /\ Waits!Elements(new) = Waits!Elements(wait_list) \ {first}
        /\ Sorted(new, k.priority)
        /\ \A u \in Waits!Elements(new) : k.priority[first] <= k.priority[u]
    BY <1>1, <1>2, <1>3, TailWaits DEF first
  <2> HIDE DEF new
  <2>2. wait_list' = new
    BY <1>1 DEF new
  <2> QED
    BY <2>1, <2>2 DEF Waiting, Waits!Elements
<1>5. /\ first \in App /\ first \in Tasks /\ first # NULL /\ first # t
      /\ first \notin Ready(k) /\ first \notin B /\ pc[first] \in Blocking
  BY <1>1, <1>3, <1>4, AppTasks DEF Ready
<1>6. /\ kr \in KernelRecord
      /\ Linked(kr, B, RestoreKeepsLists)
      /\ kr.state = k.state /\ kr.current = k.current
      /\ \A u \in App : kr.priority[u] = base[u]
  BY <1>1, RestoreIs
<1>7. Ready(kr) = Ready(k)
  BY <1>6 DEF Ready
<1>8. /\ k' \in KernelRecord
      /\ Linked(k', B, RestoreKeepsLists)
      /\ Ready(k') = Ready(k) \cup {first}
      /\ k'.state = [k.state EXCEPT ![first] = "READY"]
      /\ k'.current = k.current
      /\ \A u \in App : k'.priority[u] = base[u]
  <2> DEFINE a == AddToReady(kr, first)
             keeps == RestoreKeepsLists
  <2>1. first \notin Ready(kr) /\ Linked(kr, B, keeps)
    BY <1>5, <1>6, <1>7
  <2> HIDE DEF kr, keeps, B
  <2>2. /\ a \in KernelRecord /\ Linked(a, B, keeps)
        /\ Ready(a) = Ready(kr) \cup {first}
        /\ a.state = [kr.state EXCEPT ![first] = "READY"]
        /\ a.current = kr.current /\ a.priority = kr.priority
    BY <1>5, <1>6, <2>1, AddLinked
  <2> HIDE DEF a
  <2>3. k' = a
    BY <1>1 DEF a
  <2> QED
    BY <1>6, <1>7, <2>2, <2>3 DEF keeps
<1>9. /\ Delayed(k') = Delayed(k) \ {first}
      /\ \A u \in Tasks : k'.state[u] = IF u = first THEN "READY" ELSE k.state[u]
  BY <1>2, <1>5, <1>8 DEF Delayed
<1>10. /\ \A u \in Tasks : u # first => timed_out'[u] = timed_out[u]
       /\ timed_out'[first] = FALSE
       /\ \A u \in Tasks : u # t => pc'[u] = pc[u] /\ woken'[u] = woken[u]
       /\ pc'[t] = "unlock" /\ woken'[t] = first
  BY <1>1, <1>2, <1>5
<1>11. \A u \in App : held'[u] = 0
  <2> SUFFICES ASSUME NEW u \in App, u # t PROVE held[u] = 0
    BY <1>1, <1>2, AppTasks
  <2>1. ~(held[u] > 0) /\ held[u] \in Nat
    BY <1>1, <1>2, AppTasks DEF IInv, OwnerExclusive
  <2> QED
    BY <2>1
<1>12. TypeOK'
  <2>1. /\ held' \in [Tasks -> 0 .. MaxLocks] /\ 1 \in 0 .. MaxLocks
    BY <1>1, <1>2, LocksAssumption
  <2>2. intact' \in BOOLEAN
    BY <1>1 DEF RestoreKeepsLists
  <2>3. timed_out' \in [Tasks -> BOOLEAN]
    BY <1>1, <1>2
  <2>4. /\ woken' \in [Tasks -> Pointers]
        /\ pc' \in [Tasks -> {"run", "yield", "lock", "resumed", "unlock"}]
    BY <1>1, <1>2, <1>5 DEF Pointers
  <2>5. original_prio' \in Priorities
    BY <1>1, <1>2, <1>5 DEF KernelRecord
  <2> QED
    BY <1>1, <1>4, <1>5, <1>8, <2>1, <2>2, <2>3, <2>4, <2>5 DEF IInv, TypeOK
<1>13. ListsInv'
  <2>1. (Delayed(k) \ Waiting)' = B
    BY <1>4, <1>9
  <2> QED
    BY <1>1, <1>8, <2>1 DEF ListsInv
<1>14. RunInv'
  <2>1. /\ Idle \in Ready(k) /\ \A u \in Tasks : k.state[u] = "RUNNING" => u = k.current
        /\ \A u \in App : u = k.current => u \in Ready(k)
    BY <1>1, <1>2 DEF IInv, RunInv, Calls, Executes
  <2> QED
    BY <1>8, <1>9, <2>1 DEF RunInv, Executes
<1>15. CallInv'
  BY <1>1, <1>2, <1>4, <1>5, <1>10, <1>11, AppTasks DEF IInv, CallInv, Blocking
<1>16. OwnerExclusive'
  BY <1>1, <1>4, <1>5, <1>10, <1>11 DEF OwnerExclusive, Blocking
<1>17. \A u \in Waiting : k.priority[u] = base[u]
  BY <1>3 DEF IInv, PriorityInherited
<1>18. WaitListExact'
  <2>1. Sorted(wait_list', pr)
    <3>1. \A u \in Waiting' : pr[u] = k.priority[u]
      BY <1>3, <1>4, <1>8, <1>17
    <3>2. \A u \in Waits!Elements(wait_list') : pr[u] = k.priority[u]
      BY <3>1 DEF Waiting, Waits!Elements
    <3> HIDE DEF pr
    <3> QED
      BY <1>4, <3>2, SortedFrame
  <2>2. Waits!Ordered(wait_list)'
    BY <2>1 DEF Waits!Ordered, Sorted
  <2>3. Waiting' = {u \in App : pc'[u] \in {"lock", "resumed"} /\ k'.state[u] = "BLOCKED"}
    BY <1>2, <1>4, <1>5, <1>9, <1>10, AppTasks DEF IInv, WaitListExact
  <2> QED
    BY <1>1, <1>5, <2>2, <2>3 DEF WaitListExact
<1>19. PriorityInherited'
  <2>1. k.priority[first] = base[first] /\ base[first] \in Int
    BY <1>4, <1>5, <1>17 DEF IInv, TypeOK, Priorities
  <2>2. \A u \in Waiting' : k'.priority[first] <= k'.priority[u]
    BY <1>3, <1>4, <1>5, <1>8, <1>17
  <2> QED
    BY <1>1, <1>5, <1>8, <2>1, <2>2 DEF PriorityInherited
<1> QED
  BY <1>8, <1>12, <1>13, <1>14, <1>15, <1>16, <1>18, <1>19 DEF IInv

\* os_mutex_delete: the tasks of the wait list become ready one after another.
LEMMA DeleteStep ==
    ASSUME IInv, NEW t \in App, Delete(t)
    PROVE  IInv' /\ k'.current = k.current
<1> DEFINE kr == Restore(k)
           B == Delayed(k) \ Waiting
<1>1. /\ UNCHANGED <<pendsv, original_prio, pc, woken, base>>
      /\ Calls(t) /\ owner' = NULL /\ lock_count' = 0 /\ wait_list' = << >>
      /\ timed_out' = [u \in Tasks |-> IF u \in Waiting THEN TRUE ELSE timed_out[u]]
      /\ revoked' = IF owner # NULL /\ held[owner] = 0 THEN revoked \cup {owner}
                    ELSE revoked
      /\ held' = [u \in Tasks |-> 0]
      /\ k' = AllReady(kr, wait_list) /\ intact' = RestoreKeepsLists
  BY DEF Delete
<1>2. /\ t \in Tasks /\ pc[t] = "run" /\ owner \in App \cup {NULL}
      /\ k \in KernelRecord /\ wait_list \in Seq(App)
      /\ timed_out \in [Tasks -> BOOLEAN] /\ revoked \subseteq App
      /\ k.state \in [Tasks -> TaskStates] /\ held \in [Tasks -> 0 .. MaxLocks]
  BY <1>1, AppTasks DEF IInv, TypeOK, Calls, KernelRecord
<1>3. /\ Waiting \subseteq App /\ Sorted(wait_list, k.priority)
      /\ \A u \in Waiting : k.state[u] = "BLOCKED" /\ pc[u] \in Blocking
  BY Parties
<1>4. Waiting' = {}
  BY <1>1 DEF Waiting, Waits!Elements
<1>5. /\ kr \in KernelRecord
      /\ Linked(kr, B, RestoreKeepsLists)
      /\ kr.state = k.state /\ kr.current = k.current
      /\ \A u \in App : kr.priority[u] = base[u]
  BY <1>1, RestoreIs
<1>6. \A i, j \in 1 .. Len(wait_list) : wait_list[i] = wait_list[j] => i = j
  <2>1. W!Distinct(wait_list)
    BY <1>2, <1>3, SortedIs
  <2> QED
    BY <2>1 DEF W!Distinct
<1>7. \A i \in 1 .. Len(wait_list) : wait_list[i] \notin Ready(kr) /\ wait_list[i] \notin B
  <2>1. \A i \in 1 .. Len(wait_list) : wait_list[i] \in Waiting
    BY DEF Waiting, Waits!Elements
  <2>2. \A u \in Waiting : u \notin Ready(kr)
    BY <1>3, <1>5 DEF Ready
  <2> QED
    BY <2>1, <2>2
<1>8. /\ k' \in KernelRecord
      /\ Linked(k', B, RestoreKeepsLists)
      /\ \A u \in Tasks : k'.state[u] = IF u \in Waiting THEN "READY" ELSE k.state[u]
      /\ k'.current = k.current
      /\ \A u \in App : k'.priority[u] = base[u]
  <2> DEFINE a == AllReady(kr, wait_list)
             keeps == RestoreKeepsLists
  <2>1. kr \in KernelRecord /\ Linked(kr, B, keeps)
    BY <1>5
  <2>4. wait_list \in Seq(Tasks)
    BY <1>2, AppTasks
  <2> HIDE DEF kr, keeps, B
  <2>2. /\ a \in KernelRecord /\ Linked(a, B, keeps)
        /\ \A u \in Tasks : a.state[u] = IF u \in Waits!Elements(wait_list) THEN "READY"
                                         ELSE kr.state[u]
        /\ a.current = kr.current /\ a.priority = kr.priority
    BY <1>6, <1>7, <2>1, <2>4, AllReadyLinked
  <2> HIDE DEF a
  <2>3. k' = a
    BY <1>1 DEF a
  <2> QED
    BY <1>5, <2>2, <2>3 DEF keeps, Waiting
<1>9. Delayed(k') = B /\ Ready(k') = Ready(k) \cup Waiting
  BY <1>3, <1>8, AppTasks DEF Delayed, Ready
<1>10. /\ \A u \in App : held'[u] = 0
       /\ \A u \in App : u \in Waiting => timed_out'[u]
       /\ \A u \in App : u \notin Waiting => timed_out'[u] = timed_out[u]
  BY <1>1, AppTasks
<1>11. TypeOK'
  <2>1. /\ held' \in [Tasks -> 0 .. MaxLocks] /\ 0 \in 0 .. MaxLocks
    BY <1>1, LocksAssumption
  <2>2. intact' \in BOOLEAN
    BY <1>1 DEF RestoreKeepsLists
  <2>3. timed_out' \in [Tasks -> BOOLEAN]
    BY <1>1, <1>2
  <2>4. revoked' \subseteq App /\ wait_list' \in Seq(App)
    BY <1>1, <1>2
  <2> QED
    BY <1>1, <1>8, <2>1, <2>2, <2>3, <2>4 DEF IInv, TypeOK
<1>12. ListsInv'
  <2>1. (Delayed(k) \ Waiting)' = B
    BY <1>4, <1>9
  <2> QED
    BY <1>1, <1>8, <2>1 DEF ListsInv
<1>13. RunInv'
  <2>1. /\ Idle \in Ready(k) /\ \A u \in Tasks : k.state[u] = "RUNNING" => u = k.current
        /\ \A u \in App : u = k.current => u \in Ready(k)
    BY <1>1, <1>2 DEF IInv, RunInv, Calls, Executes
  <2>2. \A u \in Tasks : k'.state[u] = "RUNNING" => u = k'.current
    BY <1>8, <2>1
  <2> QED
    BY <1>8, <1>9, <2>1, <2>2 DEF RunInv, Executes
<1>14. CallInv'
  <2> SUFFICES ASSUME NEW u \in App
               PROVE  /\ u \in revoked' => pc[u] \in Blocking
                      /\ pc[u] = "unlock" => woken[u] \in Tasks
                      /\ pc[u] \in Blocking => timed_out'[u] \/ u \in revoked'
    <3>1. \A u \in App : u \notin Waiting' /\ u # owner' /\ ~(held'[u] > 0)
      BY <1>1, <1>4, <1>10, AppTasks
    <3> QED
      BY <1>1, <3>1 DEF CallInv
  <2>1. u \in revoked' => pc[u] \in Blocking
    <3>1. u \in revoked => pc[u] \in Blocking
      BY DEF IInv, CallInv
    <3>2. u = owner /\ held[owner] = 0 => pc[u] \in Blocking
      BY AppTasks DEF IInv, OwnerExclusive, Blocking
    <3> QED
      BY <1>1, <3>1, <3>2
  <2>2. pc[u] = "unlock" => woken[u] \in Tasks
    BY DEF IInv, CallInv
  <2>3. ASSUME pc[u] \in Blocking PROVE timed_out'[u] \/ u \in revoked'
    <3>1. u \in Waiting \/ u = owner \/ timed_out[u] \/ u \in revoked
      BY <2>3 DEF IInv, CallInv
    <3>2. CASE u \in Waiting
      BY <1>10, <3>2
    <3>3. CASE u = owner
      <4>1. ~(held[u] > 0) /\ held[u] \in Nat
        BY <1>2, <2>3, AppTasks DEF IInv, CallInv, Blocking
      <4>2. held[owner] = 0 /\ owner # NULL
        BY <3>3, <4>1, AppTasks
      <4> QED
        BY <1>1, <3>3, <4>2
    <3>4. CASE timed_out[u]
      BY <1>10, <3>4
    <3>5. CASE u \in revoked
      BY <1>1, <3>5
    <3> QED
      BY <3>1, <3>2, <3>3, <3>4, <3>5
  <2> QED
    BY <2>1, <2>2, <2>3
<1>15. OwnerExclusive'
  BY <1>1, <1>10 DEF OwnerExclusive
<1>16. WaitListExact'
  <2>1. Waits!Ordered(wait_list)'
    BY <1>1 DEF Waits!Ordered
  <2>2. Waiting' = {u \in App : pc'[u] \in {"lock", "resumed"} /\ k'.state[u] = "BLOCKED"}
    BY <1>1, <1>4, <1>8, AppTasks DEF IInv, WaitListExact
  <2> QED
    BY <1>1, <2>1, <2>2 DEF WaitListExact
<1>17. PriorityInherited'
  BY <1>1, <1>8, AppTasks DEF PriorityInherited
<1> QED
  BY <1>8, <1>11, <1>12, <1>13, <1>14, <1>15, <1>16, <1>17 DEF IInv

-----------------------------------------------------------------------------
\* The initial states and the theorems.

LEMMA EmptyLinked ==
    ASSUME NEW pr \in [Tasks -> Priorities],
           NEW e, e = [EmptyKernel EXCEPT !.priority = pr]
    PROVE  /\ e \in KernelRecord /\ Linked(e, {}, TRUE)
           /\ Ready(e) = {} /\ \A u \in Tasks : e.state[u] = "DELETED"
           /\ e.priority = pr /\ e.current = NULL
<1>1. /\ e.state = [u \in Tasks |-> "DELETED"] /\ e.priority = pr
      /\ e.next = [u \in Tasks |-> NULL] /\ e.prev = [u \in Tasks |-> NULL]
      /\ e.delay = [u \in Tasks |-> 0]
      /\ e.head = [p \in Priorities |-> NULL] /\ e.tail = [p \in Priorities |-> NULL]
      /\ e.count = [p \in Priorities |-> 0] /\ e.bitmap = {}
      /\ e.blocked = NULL /\ e.deferred = NULL /\ e.current = NULL
  BY DEF EmptyKernel
<1>2. e \in KernelRecord
  BY DEF EmptyKernel, KernelRecord, TaskStates, Pointers
<1>3. Ready(e) = {} /\ \A u \in Tasks : e.state[u] = "DELETED"
  BY <1>1 DEF Ready
<1>4. Closed(e)
  BY <1>1, <1>3 DEF Closed, Ends
<1> DEFINE f == [i \in 1 .. 0 |-> NULL]
<1>5. Enumerates(f, 0, {})
  BY DEF Enumerates
<1> HIDE DEF f
<1>6. /\ IsChain(e.next, e.prev, f, 0, {}) /\ First(f, 0) = NULL /\ Last(f, 0) = NULL
  BY <1>5 DEF IsChain, NextThreads, PrevThreads, First, Last
<1>7. ReadyOK(e, {})
  <2> SUFFICES ASSUME NEW p \in Priorities PROVE ReadyListOf(e, {}, p, f)
    BY DEF ReadyOK
  <2>1. AtPriority(e, {}, p) = {} /\ e.count[p] = 0 /\ e.head[p] = NULL /\ e.tail[p] = NULL
    BY <1>1 DEF AtPriority
  <2> QED
    BY <1>1, <1>6, <2>1 DEF ReadyListOf
<1>8. BlockedOK(e, {}) /\ DeferredOK(e.next, {}, NULL)
  <2>1. /\ 0 \in Nat /\ IsChain(e.next, e.prev, f, 0, {}) /\ e.blocked = First(f, 0)
        /\ Enumerates(f, 0, {}) /\ NextThreads(e.next, f, 0) /\ NULL = First(f, 0)
    BY <1>1, <1>6 DEF IsChain
  <2> QED
    BY <2>1 DEF BlockedOK, DeferredOK
<1>9. Exact(e, {})
  BY <1>3, <1>7, <1>8 DEF Exact, ListsOK
<1> QED
  BY <1>1, <1>2, <1>3, <1>4, <1>9 DEF Linked

LEMMA InitInv ==
    ASSUME Init
    PROVE  IInv
<1>1. PICK order \in [1 .. Cardinality(App) -> App] :
          /\ \A i, j \in DOMAIN order : order[i] = order[j] => i = j
          /\ k = SelectNext(AllReady([EmptyKernel EXCEPT !.priority = base],
                                     Append(order, Idle)))
  BY DEF Init
<1> DEFINE n == Cardinality(App)
           e == [EmptyKernel EXCEPT !.priority = base]
           list == Append(order, Idle)
           a == AllReady(e, list)
<1>2. n \in Nat
  <2>1. IsFiniteSet(App)
    BY TasksAssumption, FS_Difference DEF App
  <2> QED
    BY <2>1, FS_CardinalityType
<1>3. base \in [Tasks -> Priorities] /\ k = SelectNext(a)
  BY <1>1 DEF Init
<1> HIDE DEF n
<1>4. order \in Seq(App) /\ order \in Seq(Tasks) /\ Len(order) = n
      /\ \A i, j \in 1 .. n : order[i] = order[j] => i = j
  BY <1>1, <1>2, AppTasks DEF n
<1>5. /\ list \in Seq(Tasks) /\ Len(list) = n + 1
      /\ \A i \in 1 .. n : list[i] = order[i] /\ list[i] # Idle
      /\ list[n + 1] = Idle
  <2>1. list \in Seq(Tasks) /\ Len(list) = n + 1
    BY <1>2, <1>4, AppTasks
  <2>2. \A i \in 1 .. n : list[i] = order[i]
    BY <1>2, <1>4
  <2>3. list[n + 1] = Idle
    BY <1>2, <1>4
  <2>4. \A i \in 1 .. n : order[i] \in App
    BY <1>1 DEF n
  <2> HIDE DEF list
  <2> QED
    BY <2>1, <2>2, <2>3, <2>4, AppTasks
<1> HIDE DEF list
<1>6. \A i, j \in 1 .. Len(list) : list[i] = list[j] => i = j
  <2> SUFFICES ASSUME NEW i \in 1 .. n + 1, NEW j \in 1 .. n + 1, list[i] = list[j]
               PROVE  i = j
    BY <1>5
  <2>1. (i \in 1 .. n \/ i = n + 1) /\ (j \in 1 .. n \/ j = n + 1)
    BY <1>2
  <2> QED
    BY <1>4, <1>5, <2>1
<1>7. Idle \in Waits!Elements(list)
  <2>1. n + 1 \in 1 .. Len(list)
    BY <1>2, <1>5
  <2> QED
    BY <1>5, <2>1 DEF Waits!Elements
<1>8. /\ e \in KernelRecord /\ Linked(e, {}, TRUE)
      /\ Ready(e) = {} /\ \A u \in Tasks : e.state[u] = "DELETED"
      /\ e.priority = base /\ e.current = NULL
  BY <1>3, EmptyLinked
<1> DEFINE yes == TRUE
           B == {}
<1>9. Linked(e, B, yes) /\ \A i \in 1 .. Len(list) : list[i] \notin Ready(e) /\ list[i] \notin B
  BY <1>8
<1> HIDE DEF e, yes, B
<1>10. /\ a \in KernelRecord /\ Linked(a, B, yes)
       /\ \A u \in Tasks : a.state[u] = IF u \in Waits!Elements(list) THEN "READY"
                                        ELSE e.state[u]
       /\ a.current = e.current /\ a.priority = e.priority
  BY <1>5, <1>6, <1>8, <1>9, AllReadyLinked
<1> HIDE DEF a
<1>11. Idle \in Ready(a) /\ \A u \in Tasks : a.state[u] \in {"READY", "DELETED"}
  BY <1>7, <1>8, <1>10, AppTasks DEF Ready
<1>12. /\ k \in KernelRecord /\ Linked(k, B, yes)
       /\ Ready(k) = Ready(a) /\ k.priority = a.priority
       /\ \A u \in Tasks : u \notin Ready(a) => k.state[u] = a.state[u]
       /\ yes => /\ k.current \in Ready(k)
                 /\ \A u \in Tasks : k.state[u] = "RUNNING" => u = k.current
  <2>1. yes => /\ Ready(a) # {}
               /\ \A u \in Tasks : a.state[u] = "RUNNING" => u = a.current
    BY <1>11
  <2> QED
    BY <1>3, <1>10, <2>1, SelectLinked
<1>13. /\ k \in KernelRecord /\ Closed(k) /\ Exact(k, {})
       /\ Idle \in Ready(k) /\ k.current \in Ready(k)
       /\ \A u \in Tasks : k.state[u] = "RUNNING" => u = k.current
       /\ k.priority = base
  BY <1>8, <1>10, <1>11, <1>12 DEF Linked, yes, B
<1>14. \A u \in Tasks : k.state[u] # "BLOCKED"
  BY <1>11, <1>12 DEF Ready
<1>15. Delayed(k) = {} /\ Waiting = {}
  BY <1>14 DEF Delayed, Waiting, Waits!Elements, Init
<1>16. TypeOK
  <2>1. original_prio \in Priorities /\ 0 \in 0 .. MaxLocks
    BY PrioritiesAssumption, LocksAssumption DEF Init, Priorities
  <2>2. /\ timed_out \in [Tasks -> BOOLEAN] /\ held \in [Tasks -> 0 .. MaxLocks]
        /\ woken \in [Tasks -> Pointers] /\ wait_list \in Seq(App)
        /\ pc \in [Tasks -> {"run", "yield", "lock", "resumed", "unlock"}]
    BY <2>1 DEF Init, Pointers
  <2>3. pendsv \in BOOLEAN /\ intact \in BOOLEAN
    BY DEF Init
  <2> QED
    BY <1>3, <1>13, <2>1, <2>2, <2>3 DEF Init, TypeOK
<1>17. ListsInv
  BY <1>13, <1>15 DEF ListsInv, Linked
<1>18. RunInv
  BY <1>13 DEF RunInv, Executes
<1>19. CallInv /\ OwnerExclusive
  BY AppTasks DEF CallInv, OwnerExclusive, Init, Blocking
<1>20. WaitListExact
  <2>1. Waits!Ordered(wait_list)
    BY DEF Waits!Ordered, Init
  <2> QED
    BY <1>14, <1>15, <2>1, AppTasks DEF WaitListExact, Init
<1>21. PriorityInherited
  BY <1>13, AppTasks DEF PriorityInherited, Init
<1> QED
  BY <1>16, <1>17, <1>18, <1>19, <1>20, <1>21 DEF IInv

LEMMA NextInv ==
    ASSUME IInv, [Next]_vars
    PROVE  IInv'
<1>1. CASE UNCHANGED vars
  <2>1. /\ ListsInv' /\ Waiting' = Waiting /\ Waits!Ordered(wait_list)'
    BY <1>1, SameLists DEF vars
  <2>2. /\ UNCHANGED <<k, owner, lock_count, original_prio, wait_list, timed_out,
                       pc, woken, base, held, revoked, intact>>
        /\ UNCHANGED pendsv
    BY <1>1 DEF vars
  <2>3. TypeOK'
    BY <2>2 DEF IInv, TypeOK
  <2>4. RunInv'
    BY <2>2 DEF IInv, RunInv, Executes
  <2>5. CallInv' /\ OwnerExclusive'
    BY <2>1, <2>2 DEF IInv, CallInv, OwnerExclusive
  <2>6. WaitListExact' /\ PriorityInherited'
    BY <2>1, <2>2 DEF IInv, WaitListExact, PriorityInherited
  <2> QED
    BY <2>1, <2>3, <2>4, <2>5, <2>6 DEF IInv
<1>2. ASSUME NEW t \in App, os_mutex_lock(t) PROVE IInv'
  BY <1>2, LockFreeStep, DepthStep, LockGivesUpStep, LockBlocksStep, ResumedStep
     DEF os_mutex_lock
<1>3. ASSUME NEW t \in App, os_mutex_unlock(t) PROVE IInv'
  BY <1>3, DepthStep, ReleaseStep, TransferStep, UnlockPreemptsStep DEF os_mutex_unlock
<1>4. ASSUME NEW t \in App, Delete(t) \/ Yield(t) \/ Delay(t) \/ DelayEnds(t) PROVE IInv'
  BY <1>4, DeleteStep, YieldStep, DelayStep, DelayEndsStep
<1>5. CASE RequestSwitch
  BY <1>5, RequestSwitchStep
<1>6. CASE Switch
  BY <1>6, SwitchStep
<1> QED
  BY <1>1, <1>2, <1>3, <1>4, <1>5, <1>6 DEF Next

\* The inductive invariant holds in every reachable state (mutex.c, with the
\* lists of task.c and the selection of scheduler.c).
THEOREM MutexInvariant == Spec => []IInv
<1>1. Init => IInv
  BY InitInv
<1>2. IInv /\ [Next]_vars => IInv'
  BY NextInv
<1> QED
  BY <1>1, <1>2, PTL DEF Spec

\* Every variable of the mutex keeps its type, the kernel record included, also
\* after a restoration has spoiled the lists.
THEOREM MutexTypeCorrect == Spec => []TypeOK
<1>1. IInv => TypeOK
  BY DEF IInv
<1> QED
  BY <1>1, MutexInvariant, PTL

\* Mutual exclusion, for any number of tasks and any depth of locking: the task
\* that returned from os_mutex_lock is the owner, and an owner that has not
\* returned yet cannot lose the mutex except by deletion (mutex.c:168-267).
THEOREM OwnerCorrect == Spec => []OwnerExclusive
<1>1. IInv => OwnerExclusive
  BY DEF IInv
<1> QED
  BY <1>1, MutexInvariant, PTL

\* The wait list holds exactly the tasks blocked in os_mutex_lock, by priority,
\* and is empty while the mutex is free (mutex.c:25-99).
THEOREM MutexWaitListCorrect == Spec => []WaitListExact
<1>1. IInv => WaitListExact
  BY DEF IInv
<1> QED
  BY <1>1, MutexInvariant, PTL

\* Priority inheritance: only the owner has a priority it was not created with,
\* and it precedes none of the waiting ones (mutex.c:104-122).
THEOREM InheritanceCorrect == Spec => []PriorityInherited
<1>1. IInv => PriorityInherited
  BY DEF IInv
<1> QED
  BY <1>1, MutexInvariant, PTL

\* Only a context switch changes the running task.
LEMMA CurrentChanges ==
    ASSUME IInv, [Next]_vars, k'.current # k.current
    PROVE  Switch
<1>1. ~UNCHANGED vars
  BY DEF vars
<1>2. ASSUME NEW t \in App, os_mutex_lock(t) PROVE FALSE
  BY <1>2, LockFreeStep, DepthStep, LockGivesUpStep, LockBlocksStep, ResumedStep
     DEF os_mutex_lock
<1>3. ASSUME NEW t \in App, os_mutex_unlock(t) PROVE FALSE
  BY <1>3, DepthStep, ReleaseStep, TransferStep, UnlockPreemptsStep DEF os_mutex_unlock
<1>4. ASSUME NEW t \in App, Delete(t) \/ Yield(t) \/ Delay(t) \/ DelayEnds(t) PROVE FALSE
  BY <1>4, DeleteStep, YieldStep, DelayStep, DelayEndsStep
<1>5. ~RequestSwitch
  BY RequestSwitchStep
<1> QED
  BY <1>1, <1>2, <1>3, <1>4, <1>5 DEF Next

\* No priority inversion: with a ready owner the switch goes to no task that a
\* waiting one precedes, whatever the number of tasks between them in priority
\* (mutex.c:196, scheduler.c, docs/miniRTOS_technical_design.md 19.3).
THEOREM NoInversionCorrect == Spec => NoInversion
<1>1. ASSUME IInv, [Next]_vars, intact, k'.current # k.current, owner \in Ready(k),
             NEW u \in Waiting
      PROVE  k'.priority[k'.current] <= k.priority[u]
  <2>1. k' = SelectNext(k)
    BY <1>1, CurrentChanges DEF Switch
  <2>2. k \in KernelRecord /\ Linked(k, Delayed(k) \ Waiting, intact)
    BY <1>1 DEF IInv, TypeOK, ListsInv
  <2>3. intact => /\ Ready(k) # {}
                  /\ \A v \in Tasks : k.state[v] = "RUNNING" => v = k.current
    BY <1>1 DEF IInv, RunInv
  <2>4. /\ k' \in KernelRecord /\ Ready(k') = Ready(k) /\ k'.priority = k.priority
        /\ intact => /\ k'.current \in Ready(k')
                     /\ \A v \in Ready(k) : k'.priority[k'.current] <= k'.priority[v]
    BY <2>1, <2>2, <2>3, SelectLinked
  <2>5. /\ k'.current \in Tasks /\ k'.priority[k'.current] <= k.priority[owner]
    BY <1>1, <2>4 DEF Ready
  <2>6. owner \in App /\ u \in App
    BY <1>1, Parties, AppTasks DEF IInv, TypeOK, Ready
  <2>7. k.priority[owner] <= k.priority[u]
    BY <1>1, <2>6 DEF IInv, PriorityInherited
  <2>8. /\ k.priority[owner] \in Int /\ k.priority[u] \in Int
        /\ k'.priority[k'.current] \in Int
    BY <2>2, <2>4, <2>5, <2>6, AppTasks DEF KernelRecord, Priorities
  <2> QED
    BY <2>5, <2>7, <2>8
<1>2. IInv /\ [Next]_vars =>
          [intact /\ k'.current # k.current /\ owner \in Ready(k) =>
              \A u \in Waiting : k'.priority[k'.current] <= k.priority[u]]_vars
  BY <1>1
<1> QED
  BY <1>2, MutexInvariant, PTL DEF NoInversion, Spec
=============================================================================
