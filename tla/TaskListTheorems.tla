-------------------------- MODULE TaskListTheorems --------------------------
(***************************************************************************)
(* What the list operations of TaskLists do to lists that are well linked. *)
(* A list is given by an enumeration f of its members, 1 .. n: appending,  *)
(* pushing and unlinking a task turn it into the enumeration one expects,  *)
(* and leave the lists of other tasks alone.                               *)
(***************************************************************************)
EXTENDS TaskLists, FiniteSetTheorems, WellFoundedInduction, TLAPS

Links == [Tasks -> Pointers]

\* f is a doubly linked list of exactly the members of S.
IsChain(next, prev, f, n, S) ==
    /\ Enumerates(f, n, S)
    /\ NextThreads(next, f, n)
    /\ PrevThreads(prev, f, n)

Appended(f, n, t) == [i \in 1 .. n + 1 |-> IF i = n + 1 THEN t ELSE f[i]]
Pushed(f, n, t) == [i \in 1 .. n + 1 |-> IF i = 1 THEN t ELSE f[i - 1]]
Without(f, n, j) == [i \in 1 .. n - 1 |-> IF i < j THEN f[i] ELSE f[i + 1]]

\* os_task_add_to_ready links a new task behind the last one.
LEMMA AppendChain ==
    ASSUME NEW next \in Links, NEW prev \in Links, NEW S \in SUBSET Tasks,
           NEW n \in Nat, NEW f, IsChain(next, prev, f, n, S),
           NEW t \in Tasks, t \notin S,
           NEW next2, next2 = Store([next EXCEPT ![t] = NULL], Last(f, n), t),
           NEW prev2, prev2 = [prev EXCEPT ![t] = Last(f, n)]
    PROVE  IsChain(next2, prev2, Appended(f, n, t), n + 1, S \cup {t})
<1> DEFINE g == Appended(f, n, t)
<1>1. /\ f \in [1 .. n -> S]
      /\ \A i, j \in 1 .. n : f[i] = f[j] => i = j
      /\ \A u \in S : \E i \in 1 .. n : f[i] = u
      /\ \A i \in 1 .. n : next[f[i]] = IF i = n THEN NULL ELSE f[i + 1]
      /\ \A i \in 1 .. n : prev[f[i]] = IF i = 1 THEN NULL ELSE f[i - 1]
  BY DEF IsChain, Enumerates, NextThreads, PrevThreads
<1>2. /\ g \in [1 .. n + 1 -> S \cup {t}]
      /\ g[n + 1] = t
      /\ \A i \in 1 .. n : g[i] = f[i]
  BY <1>1 DEF Appended
<1>3. Enumerates(g, n + 1, S \cup {t})
  <2>1. \A i, j \in 1 .. n + 1 : g[i] = g[j] => i = j
    BY <1>1, <1>2
  <2>2. \A u \in S \cup {t} : \E i \in 1 .. n + 1 : g[i] = u
    BY <1>1, <1>2
  <2> QED
    BY <1>2, <2>1, <2>2 DEF Enumerates
<1>4. NextThreads(next2, g, n + 1)
  <2>1. next2[t] = NULL /\ (n > 0 => next2[f[n]] = t)
    BY <1>1, TasksAssumption DEF Store, Last, Links, Pointers
  <2>2. \A i \in 1 .. n : i # n => next2[f[i]] = f[i + 1]
    BY <1>1, TasksAssumption DEF Store, Last, Links, Pointers
  <2>3. SUFFICES ASSUME NEW i \in 1 .. n + 1
                 PROVE  next2[g[i]] = IF i = n + 1 THEN NULL ELSE g[i + 1]
    BY DEF NextThreads
  <2>4. CASE i = n + 1
    BY <1>2, <2>1, <2>4
  <2>5. CASE i = n
    BY <1>2, <2>1, <2>5
  <2>6. CASE i \in 1 .. n /\ i # n
    <3>1. i + 1 \in 1 .. n /\ i # n + 1
      BY <2>6
    <3>2. g[i] = f[i] /\ g[i + 1] = f[i + 1]
      BY <1>2, <2>6, <3>1
    <3>3. next2[f[i]] = f[i + 1]
      BY <2>2, <2>6
    <3> QED
      BY <3>1, <3>2, <3>3
  <2> QED
    BY <2>4, <2>5, <2>6
<1>5. PrevThreads(prev2, g, n + 1)
  BY <1>1, <1>2 DEF PrevThreads, Last, Links, Pointers
<1> QED
  BY <1>3, <1>4, <1>5 DEF IsChain

\* os_task_add_to_blocked links a task before the first one.
LEMMA PushChain ==
    ASSUME NEW next \in Links, NEW prev \in Links, NEW S \in SUBSET Tasks,
           NEW n \in Nat, NEW f, IsChain(next, prev, f, n, S),
           NEW t \in Tasks, t \notin S, prev[t] = NULL,
           NEW next2, next2 = [next EXCEPT ![t] = First(f, n)],
           NEW prev2, prev2 = Store(prev, First(f, n), t)
    PROVE  IsChain(next2, prev2, Pushed(f, n, t), n + 1, S \cup {t})
<1> DEFINE g == Pushed(f, n, t)
<1>1. /\ f \in [1 .. n -> S]
      /\ \A i, j \in 1 .. n : f[i] = f[j] => i = j
      /\ \A u \in S : \E i \in 1 .. n : f[i] = u
      /\ \A i \in 1 .. n : next[f[i]] = IF i = n THEN NULL ELSE f[i + 1]
      /\ \A i \in 1 .. n : prev[f[i]] = IF i = 1 THEN NULL ELSE f[i - 1]
  BY DEF IsChain, Enumerates, NextThreads, PrevThreads
<1>2. /\ g \in [1 .. n + 1 -> S \cup {t}]
      /\ g[1] = t
      /\ \A i \in 1 .. n : g[i + 1] = f[i]
      /\ \A i \in 2 .. n + 1 : i - 1 \in 1 .. n /\ g[i] = f[i - 1]
  BY <1>1 DEF Pushed
<1>3. Enumerates(g, n + 1, S \cup {t})
  <2>1. \A i, j \in 1 .. n + 1 : g[i] = g[j] => i = j
    BY <1>1, <1>2
  <2>2. \A u \in S \cup {t} : \E i \in 1 .. n + 1 : g[i] = u
    <3>1. ASSUME NEW u \in S PROVE \E i \in 1 .. n + 1 : g[i] = u
      BY <1>1, <1>2
    <3>2. 1 \in 1 .. n + 1
      OBVIOUS
    <3> QED
      BY <1>2, <3>1, <3>2
  <2> QED
    BY <1>2, <2>1, <2>2 DEF Enumerates
<1>4. NextThreads(next2, g, n + 1)
  <2>1. next2[t] = IF n = 0 THEN NULL ELSE f[1]
    BY DEF First, Links
  <2>2. \A i \in 1 .. n : next2[f[i]] = IF i = n THEN NULL ELSE f[i + 1]
    BY <1>1 DEF Links
  <2>3. SUFFICES ASSUME NEW i \in 1 .. n + 1
                 PROVE  next2[g[i]] = IF i = n + 1 THEN NULL ELSE g[i + 1]
    BY DEF NextThreads
  <2>4. CASE i = 1
    BY <1>2, <2>1, <2>4
  <2>5. CASE i \in 2 .. n + 1
    <3>1. i - 1 \in 1 .. n /\ g[i] = f[i - 1]
      BY <1>2, <2>5
    <3>2. i # n + 1 => g[i + 1] = f[i]
      BY <1>2, <2>5
    <3> QED
      BY <2>2, <2>5, <3>1, <3>2
  <2> QED
    BY <2>4, <2>5
<1>5. PrevThreads(prev2, g, n + 1)
  <2>1. prev2[t] = NULL /\ (n > 0 => prev2[f[1]] = t)
    BY <1>1, TasksAssumption DEF Store, First, Links, Pointers
  <2>2. \A i \in 2 .. n : prev2[f[i]] = f[i - 1]
    BY <1>1, TasksAssumption DEF Store, First, Links, Pointers
  <2> QED
    BY <1>1, <1>2, <2>1, <2>2 DEF PrevThreads
<1> QED
  BY <1>3, <1>4, <1>5 DEF IsChain

\* os_task_remove_from_ready and os_task_remove_from_blocked join the two
\* neighbours of the task.
LEMMA UnlinkChain ==
    ASSUME NEW next \in Links, NEW prev \in Links, NEW S \in SUBSET Tasks,
           NEW n \in Nat, NEW f, IsChain(next, prev, f, n, S),
           NEW j \in 1 .. n, NEW t \in S, f[j] = t,
           NEW next2 \in Links, NEW prev2 \in Links,
           \A u \in S \ {t} :
               /\ next2[u] = IF u = prev[t] THEN next[t] ELSE next[u]
               /\ prev2[u] = IF u = next[t] THEN prev[t] ELSE prev[u]
    PROVE  IsChain(next2, prev2, Without(f, n, j), n - 1, S \ {t})
<1> DEFINE g == Without(f, n, j)
<1>1. /\ f \in [1 .. n -> S]
      /\ \A i, m \in 1 .. n : f[i] = f[m] => i = m
      /\ \A u \in S : \E i \in 1 .. n : f[i] = u
      /\ \A i \in 1 .. n : next[f[i]] = IF i = n THEN NULL ELSE f[i + 1]
      /\ \A i \in 1 .. n : prev[f[i]] = IF i = 1 THEN NULL ELSE f[i - 1]
  BY DEF IsChain, Enumerates, NextThreads, PrevThreads
<1>2. /\ n - 1 \in Nat
      /\ \A i \in 1 .. n - 1 : i < j => i \in 1 .. n /\ g[i] = f[i]
      /\ \A i \in 1 .. n - 1 : i >= j => i + 1 \in 1 .. n /\ g[i] = f[i + 1]
  BY DEF Without
<1>3. /\ t \in S
      /\ \A i \in 1 .. n : f[i] \in Tasks /\ f[i] # NULL
      /\ next[t] = IF j = n THEN NULL ELSE f[j + 1]
      /\ prev[t] = IF j = 1 THEN NULL ELSE f[j - 1]
  BY <1>1, TasksAssumption
<1>4. Enumerates(g, n - 1, S \ {t})
  <2>1. ASSUME NEW i \in 1 .. n - 1 PROVE g[i] \in S \ {t}
    <3>1. CASE i < j
      BY <1>1, <1>2, <3>1
    <3>2. CASE i >= j
      BY <1>1, <1>2, <3>2
    <3> QED
      BY <3>1, <3>2
  <2>2. g \in [1 .. n - 1 -> S \ {t}]
    BY <2>1 DEF Without
  <2>3. ASSUME NEW i \in 1 .. n - 1, NEW m \in 1 .. n - 1, g[i] = g[m]
        PROVE  i = m
    <3>1. CASE i < j /\ m < j
      BY <1>1, <1>2, <2>3, <3>1
    <3>2. CASE i >= j /\ m >= j
      <4>1. i + 1 \in 1 .. n /\ m + 1 \in 1 .. n /\ f[i + 1] = f[m + 1]
        BY <1>2, <2>3, <3>2
      <4>2. i + 1 = m + 1
        BY <1>1, <4>1
      <4> QED
        BY <4>2
    <3>3. CASE i < j /\ m >= j
      <4>1. i \in 1 .. n /\ m + 1 \in 1 .. n /\ f[i] = f[m + 1]
        BY <1>2, <2>3, <3>3
      <4>2. i = m + 1
        BY <1>1, <4>1
      <4> QED
        BY <3>3, <4>2
    <3>4. CASE i >= j /\ m < j
      <4>1. m \in 1 .. n /\ i + 1 \in 1 .. n /\ f[m] = f[i + 1]
        BY <1>2, <2>3, <3>4
      <4>2. m = i + 1
        BY <1>1, <4>1
      <4> QED
        BY <3>4, <4>2
    <3> QED
      BY <3>1, <3>2, <3>3, <3>4
  <2>4. ASSUME NEW u \in S \ {t} PROVE \E i \in 1 .. n - 1 : g[i] = u
    <3>1. PICK m \in 1 .. n : f[m] = u
      BY <1>1
    <3>2. CASE m < j
      <4>1. m \in 1 .. n - 1 /\ g[m] = u
        BY <1>2, <3>1, <3>2
      <4> QED
        BY <4>1
    <3>3. CASE m > j
      <4>1. m - 1 \in 1 .. n - 1 /\ m - 1 >= j /\ (m - 1) + 1 = m
        BY <3>3
      <4>2. g[m - 1] = u
        BY <1>2, <3>1, <4>1
      <4> QED
        BY <4>1, <4>2
    <3>4. m # j
      BY <3>1
    <3> QED
      BY <3>2, <3>3, <3>4
  <2> QED
    BY <2>2, <2>3, <2>4 DEF Enumerates
<1>5. \A i \in 1 .. n : i # j =>
          /\ next2[f[i]] = IF i = j - 1 THEN next[t] ELSE next[f[i]]
          /\ prev2[f[i]] = IF i = j + 1 THEN prev[t] ELSE prev[f[i]]
  <2>1. SUFFICES ASSUME NEW i \in 1 .. n, i # j
                 PROVE  /\ next2[f[i]] = IF i = j - 1 THEN next[t] ELSE next[f[i]]
                        /\ prev2[f[i]] = IF i = j + 1 THEN prev[t] ELSE prev[f[i]]
    OBVIOUS
  <2>2. f[i] \in S \ {t}
    BY <1>1, <2>1
  <2>3. f[i] = prev[t] <=> i = j - 1
    BY <1>1, <1>3
  <2>4. f[i] = next[t] <=> i = j + 1
    BY <1>1, <1>3
  <2>5. next2[f[i]] = IF f[i] = prev[t] THEN next[t] ELSE next[f[i]]
    BY <2>2
  <2>6. prev2[f[i]] = IF f[i] = next[t] THEN prev[t] ELSE prev[f[i]]
    BY <2>2
  <2> QED
    BY <2>3, <2>4, <2>5, <2>6
<1>6. NextThreads(next2, g, n - 1)
  <2>1. SUFFICES ASSUME NEW i \in 1 .. n - 1
                 PROVE  next2[g[i]] = IF i = n - 1 THEN NULL ELSE g[i + 1]
    BY DEF NextThreads
  <2>2. CASE i < j - 1
    <3>1. i \in 1 .. n /\ i # j /\ i # n /\ i + 1 \in 1 .. n - 1 /\ i + 1 < j
      BY <2>2
    <3>2. g[i] = f[i] /\ g[i + 1] = f[i + 1]
      BY <1>2, <3>1
    <3>3. next2[f[i]] = next[f[i]]
      BY <1>5, <2>2, <3>1
    <3>4. next[f[i]] = f[i + 1]
      BY <1>1, <3>1
    <3> QED
      BY <3>1, <3>2, <3>3, <3>4
  <2>3. CASE i = j - 1
    <3>1. i \in 1 .. n /\ i # j /\ g[i] = f[i]
      BY <1>2, <2>3
    <3>2. next2[f[i]] = next[t]
      BY <1>5, <2>3, <3>1
    <3>3. i # n - 1 => g[i + 1] = f[j + 1]
      BY <1>2, <2>3
    <3> QED
      BY <1>3, <2>3, <3>1, <3>2, <3>3
  <2>4. CASE i >= j
    <3>1. i + 1 \in 1 .. n /\ i + 1 # j /\ i + 1 # j - 1 /\ g[i] = f[i + 1]
      BY <1>2, <2>4
    <3>2. next2[f[i + 1]] = IF i + 1 = n THEN NULL ELSE f[(i + 1) + 1]
      BY <1>1, <1>5, <3>1
    <3>3. i # n - 1 => g[i + 1] = f[(i + 1) + 1]
      BY <1>2, <2>4
    <3> QED
      BY <3>1, <3>2, <3>3
  <2> QED
    BY <2>2, <2>3, <2>4
<1>7. PrevThreads(prev2, g, n - 1)
  <2>1. SUFFICES ASSUME NEW i \in 1 .. n - 1
                 PROVE  prev2[g[i]] = IF i = 1 THEN NULL ELSE g[i - 1]
    BY DEF PrevThreads
  <2>2. CASE i < j
    <3>1. i \in 1 .. n /\ i # j /\ i # j + 1 /\ g[i] = f[i]
      BY <1>2, <2>2
    <3>2. prev2[f[i]] = IF i = 1 THEN NULL ELSE f[i - 1]
      BY <1>1, <1>5, <3>1
    <3>3. i # 1 => g[i - 1] = f[i - 1]
      BY <1>2, <2>2
    <3> QED
      BY <3>1, <3>2, <3>3
  <2>3. CASE i = j
    <3>1. i + 1 \in 1 .. n /\ i + 1 = j + 1 /\ g[i] = f[i + 1]
      BY <1>2, <2>3
    <3>2. prev2[f[i + 1]] = prev[t]
      BY <1>5, <3>1
    <3>3. i # 1 => g[i - 1] = f[j - 1]
      BY <1>2, <2>3
    <3> QED
      BY <1>3, <2>3, <3>1, <3>2, <3>3
  <2>4. CASE i > j
    <3>1. i + 1 \in 1 .. n /\ i + 1 # j /\ i + 1 # j + 1 /\ i + 1 # 1 /\ g[i] = f[i + 1]
      BY <1>2, <2>4
    <3>2. prev2[f[i + 1]] = prev[f[i + 1]]
      BY <1>5, <3>1
    <3>4. prev[f[i + 1]] = f[(i + 1) - 1] /\ (i + 1) - 1 = i
      BY <1>1, <3>1
    <3>3. i # 1 /\ g[i - 1] = f[i]
      BY <1>2, <2>4
    <3> QED
      BY <3>1, <3>2, <3>3, <3>4
  <2> QED
    BY <2>2, <2>3, <2>4
<1> QED
  BY <1>4, <1>6, <1>7 DEF IsChain

\* The ends of the list after the unlinking.
LEMMA UnlinkEnds ==
    ASSUME NEW next \in Links, NEW prev \in Links, NEW S \in SUBSET Tasks,
           NEW n \in Nat, NEW f, IsChain(next, prev, f, n, S),
           NEW j \in 1 .. n, NEW t \in S, f[j] = t
    PROVE  /\ First(Without(f, n, j), n - 1)
                 = IF prev[t] = NULL THEN next[t] ELSE First(f, n)
           /\ Last(Without(f, n, j), n - 1)
                 = IF next[t] = NULL THEN prev[t] ELSE Last(f, n)
<1> DEFINE g == Without(f, n, j)
<1>1. /\ f \in [1 .. n -> S]
      /\ \A i \in 1 .. n : next[f[i]] = IF i = n THEN NULL ELSE f[i + 1]
      /\ \A i \in 1 .. n : prev[f[i]] = IF i = 1 THEN NULL ELSE f[i - 1]
  BY DEF IsChain, Enumerates, NextThreads, PrevThreads
<1>2. /\ n - 1 \in Nat
      /\ \A i \in 1 .. n - 1 : i < j => i \in 1 .. n /\ g[i] = f[i]
      /\ \A i \in 1 .. n - 1 : i >= j => i + 1 \in 1 .. n /\ g[i] = f[i + 1]
  BY DEF Without
<1>3. /\ \A i \in 1 .. n : f[i] \in Tasks /\ f[i] # NULL
      /\ next[t] = IF j = n THEN NULL ELSE f[j + 1]
      /\ prev[t] = IF j = 1 THEN NULL ELSE f[j - 1]
  BY <1>1, TasksAssumption
<1>8. First(g, n - 1) = IF prev[t] = NULL THEN next[t] ELSE First(f, n)
  <2>1. CASE j = 1
    BY <1>2, <1>3, <2>1 DEF First
  <2>2. CASE j > 1
    <3>1. prev[t] # NULL /\ n - 1 # 0 /\ n # 0
      BY <1>3, <2>2
    <3>2. g[1] = f[1]
      BY <1>2, <2>2
    <3> QED
      BY <3>1, <3>2 DEF First
  <2> QED
    BY <2>1, <2>2
<1>9. Last(g, n - 1) = IF next[t] = NULL THEN prev[t] ELSE Last(f, n)
  <2>1. CASE j = n
    <3>1. next[t] = NULL
      BY <1>3, <2>1
    <3>2. n # 1 => g[n - 1] = f[n - 1]
      BY <1>2, <2>1
    <3> QED
      BY <1>3, <2>1, <3>1, <3>2 DEF Last
  <2>2. CASE j < n
    <3>1. next[t] # NULL /\ n - 1 # 0 /\ n # 0
      BY <1>3, <2>2
    <3>2. g[n - 1] = f[n]
      BY <1>2, <2>2
    <3> QED
      BY <3>1, <3>2 DEF Last
  <2> QED
    BY <2>1, <2>2
<1> QED
  BY <1>8, <1>9

\* A list is left alone by stores to the link fields of other tasks.
LEMMA FrameChain ==
    ASSUME NEW next, NEW prev, NEW S, NEW n \in Nat, NEW f,
           IsChain(next, prev, f, n, S), NEW next2, NEW prev2,
           \A u \in S : next2[u] = next[u] /\ prev2[u] = prev[u]
    PROVE  IsChain(next2, prev2, f, n, S)
BY DEF IsChain, Enumerates, NextThreads, PrevThreads

-----------------------------------------------------------------------------
\* The lists of a kernel record, with their members given as sets: R on the
\* ready lists, B on the blocked list, D on the deferred delete list that
\* starts at h.  Between two operations of one call the members of a list are
\* not yet what the state fields say.

AtPriority(k, R, p) == {t \in R : k.priority[t] = p}

ReadyListOf(k, R, p, f) ==
    /\ IsChain(k.next, k.prev, f, k.count[p], AtPriority(k, R, p))
    /\ k.head[p] = First(f, k.count[p])
    /\ k.tail[p] = Last(f, k.count[p])
    /\ p \in k.bitmap <=> k.count[p] > 0

ReadyOK(k, R) == \A p \in Priorities : \E f : ReadyListOf(k, R, p, f)

BlockedOK(k, B) ==
    \E n \in Nat : \E f : IsChain(k.next, k.prev, f, n, B) /\ k.blocked = First(f, n)

DeferredOK(next, D, h) ==
    \E n \in Nat : \E f : /\ Enumerates(f, n, D)
                          /\ NextThreads(next, f, n)
                          /\ h = First(f, n)

ListsOK(k, R, B, D, h) ==
    /\ R \subseteq Tasks /\ B \subseteq Tasks /\ D \subseteq Tasks
    /\ R \cap B = {} /\ R \cap D = {} /\ B \cap D = {}
    /\ ReadyOK(k, R)
    /\ BlockedOK(k, B)
    /\ DeferredOK(k.next, D, h)

\* Lists whose members keep their links are still lists.
LEMMA FrameBlocked ==
    ASSUME NEW k, NEW k2, NEW B, BlockedOK(k, B), k2.blocked = k.blocked,
           \A u \in B : k2.next[u] = k.next[u] /\ k2.prev[u] = k.prev[u]
    PROVE  BlockedOK(k2, B)
<1>n. PICK n \in Nat : \E f : IsChain(k.next, k.prev, f, n, B) /\ k.blocked = First(f, n)
  BY DEF BlockedOK
<1>1. PICK f : IsChain(k.next, k.prev, f, n, B) /\ k.blocked = First(f, n)
  BY <1>n
<1>2. IsChain(k2.next, k2.prev, f, n, B)
  BY <1>1, FrameChain
<1> QED
  BY <1>1, <1>2 DEF BlockedOK

LEMMA FrameDeferred ==
    ASSUME NEW next, NEW next2, NEW D, NEW h, DeferredOK(next, D, h),
           \A u \in D : next2[u] = next[u]
    PROVE  DeferredOK(next2, D, h)
<1>n. PICK n \in Nat : \E f : Enumerates(f, n, D) /\ NextThreads(next, f, n) /\ h = First(f, n)
  BY DEF DeferredOK
<1>1. PICK f : Enumerates(f, n, D) /\ NextThreads(next, f, n) /\ h = First(f, n)
  BY <1>n
<1>2. NextThreads(next2, f, n)
  BY <1>1 DEF NextThreads, Enumerates
<1> QED
  BY <1>1, <1>2 DEF DeferredOK

LEMMA FrameReadyList ==
    ASSUME NEW k, NEW k2, NEW R, NEW R2, NEW p, NEW f, k.count[p] \in Nat,
           ReadyListOf(k, R, p, f), AtPriority(k2, R2, p) = AtPriority(k, R, p),
           k2.head[p] = k.head[p], k2.tail[p] = k.tail[p],
           k2.count[p] = k.count[p], p \in k2.bitmap <=> p \in k.bitmap,
           \A u \in AtPriority(k, R, p) :
               k2.next[u] = k.next[u] /\ k2.prev[u] = k.prev[u]
    PROVE  ReadyListOf(k2, R2, p, f)
<1>1. IsChain(k2.next, k2.prev, f, k.count[p], AtPriority(k, R, p))
  BY FrameChain DEF ReadyListOf
<1> QED
  BY <1>1 DEF ReadyListOf

\* The fields os_task_add_to_ready assigns.
LEMMA AddToReadyFields ==
    ASSUME NEW k \in KernelRecord, NEW t \in Tasks
    PROVE  LET p == k.priority[t]
               last == k.tail[p]
               k2 == AddToReady(k, t)
           IN  /\ k2 \in KernelRecord
               /\ k2.state = [k.state EXCEPT ![t] = "READY"]
               /\ k2.priority = k.priority
               /\ k2.next = Store([k.next EXCEPT ![t] = NULL], last, t)
               /\ k2.prev = [k.prev EXCEPT ![t] = last]
               /\ k2.delay = k.delay
               /\ k2.head = [k.head EXCEPT ![p] = IF last = NULL THEN t ELSE k.head[p]]
               /\ k2.tail = [k.tail EXCEPT ![p] = t]
               /\ k2.count = [k.count EXCEPT ![p] = k.count[p] + 1]
               /\ k2.bitmap = IF last = NULL THEN k.bitmap \cup {p} ELSE k.bitmap
               /\ k2.blocked = k.blocked
               /\ k2.deferred = k.deferred
               /\ k2.current = k.current
<1> DEFINE p == k.priority[t]
           last == k.tail[p]
           next2 == Store([k.next EXCEPT ![t] = NULL], last, t)
           k2 == AddToReady(k, t)
<1>1. /\ p \in Priorities /\ last \in Pointers
      /\ NULL \in Pointers /\ t \in Pointers /\ "READY" \in TaskStates
  BY DEF KernelRecord, Pointers, TaskStates
<1>2. next2 \in [Tasks -> Pointers]
  BY <1>1 DEF KernelRecord, Store, Pointers
<1>3. /\ k2.state = [k.state EXCEPT ![t] = "READY"]
      /\ k2.priority = k.priority
      /\ k2.next = next2
      /\ k2.prev = [k.prev EXCEPT ![t] = last]
      /\ k2.delay = k.delay
  BY DEF AddToReady, KernelRecord
<1>4. /\ k2.head = [k.head EXCEPT ![p] = IF last = NULL THEN t ELSE k.head[p]]
      /\ k2.tail = [k.tail EXCEPT ![p] = t]
      /\ k2.count = [k.count EXCEPT ![p] = k.count[p] + 1]
      /\ k2.bitmap = IF last = NULL THEN k.bitmap \cup {p} ELSE k.bitmap
  BY DEF AddToReady, KernelRecord
<1>5. /\ k2.blocked = k.blocked
      /\ k2.deferred = k.deferred
      /\ k2.current = k.current
  BY DEF AddToReady, KernelRecord
<1>6. /\ k2.state \in [Tasks -> TaskStates]
      /\ k2.priority \in [Tasks -> Priorities]
      /\ k2.next \in [Tasks -> Pointers]
      /\ k2.prev \in [Tasks -> Pointers]
      /\ k2.delay \in [Tasks -> Nat]
  BY <1>1, <1>2, <1>3, <1>4, <1>5 DEF KernelRecord
<1>7. /\ k2.head \in [Priorities -> Pointers]
      /\ k2.tail \in [Priorities -> Pointers]
      /\ k2.count \in [Priorities -> Nat]
      /\ k2.bitmap \in SUBSET Priorities
      /\ k2.blocked \in Pointers
      /\ k2.deferred \in Pointers
      /\ k2.current \in Pointers
  BY <1>1, <1>2, <1>3, <1>4, <1>5 DEF KernelRecord
<1>8. k2 \in KernelRecord
  BY <1>6, <1>7 DEF AddToReady, KernelRecord
<1> QED
  BY <1>3, <1>4, <1>5, <1>8

\* The fields os_task_remove_from_ready assigns.
LEMMA RemoveFromReadyFields ==
    ASSUME NEW k \in KernelRecord, NEW t \in Tasks
    PROVE  LET p == k.priority[t]
               before == k.prev[t]
               after == k.next[t]
               first == IF before = NULL THEN after ELSE k.head[p]
               k2 == RemoveFromReady(k, t)
           IN  /\ k2 \in KernelRecord
               /\ k2.state = k.state
               /\ k2.priority = k.priority
               /\ k2.next = [Store(k.next, before, after) EXCEPT ![t] = NULL]
               /\ k2.prev = [Store(k.prev, after, before) EXCEPT ![t] = NULL]
               /\ k2.delay = k.delay
               /\ k2.head = [k.head EXCEPT ![p] = first]
               /\ k2.tail = [k.tail EXCEPT ![p] = IF after = NULL THEN before
                                                  ELSE k.tail[p]]
               /\ k2.count = [k.count EXCEPT ![p] = IF k.count[p] > 0
                                                    THEN k.count[p] - 1
                                                    ELSE k.count[p]]
               /\ k2.bitmap = IF first = NULL THEN k.bitmap \ {p} ELSE k.bitmap
               /\ k2.blocked = k.blocked
               /\ k2.deferred = k.deferred
               /\ k2.current = k.current
<1>1. /\ k.priority[t] \in Priorities
      /\ k.prev[t] \in Pointers /\ k.next[t] \in Pointers
      /\ k.next \in [Tasks -> Pointers] /\ k.prev \in [Tasks -> Pointers]
  BY DEF KernelRecord
<1>2. /\ Store(k.next, k.prev[t], k.next[t]) \in [Tasks -> Pointers]
      /\ Store(k.prev, k.next[t], k.prev[t]) \in [Tasks -> Pointers]
  BY <1>1 DEF Store, Pointers
<1>3. NULL \in Pointers
  BY DEF Pointers
<1> DEFINE p == k.priority[t]
           first == IF k.prev[t] = NULL THEN k.next[t] ELSE k.head[p]
           next2 == [Store(k.next, k.prev[t], k.next[t]) EXCEPT ![t] = NULL]
           prev2 == [Store(k.prev, k.next[t], k.prev[t]) EXCEPT ![t] = NULL]
           k2 == RemoveFromReady(k, t)
<1>4. next2 \in [Tasks -> Pointers] /\ prev2 \in [Tasks -> Pointers]
  BY <1>2, <1>3
<1>5. /\ k2.state = k.state
      /\ k2.priority = k.priority
      /\ k2.next = next2
      /\ k2.prev = prev2
      /\ k2.delay = k.delay
  BY DEF RemoveFromReady, KernelRecord
<1>6. /\ k2.head = [k.head EXCEPT ![p] = first]
      /\ k2.tail = [k.tail EXCEPT ![p] = IF k.next[t] = NULL THEN k.prev[t]
                                         ELSE k.tail[p]]
      /\ k2.count = [k.count EXCEPT ![p] = IF k.count[p] > 0 THEN k.count[p] - 1
                                           ELSE k.count[p]]
      /\ k2.bitmap = IF first = NULL THEN k.bitmap \ {p} ELSE k.bitmap
  BY DEF RemoveFromReady, KernelRecord
<1>7. /\ k2.blocked = k.blocked
      /\ k2.deferred = k.deferred
      /\ k2.current = k.current
  BY DEF RemoveFromReady, KernelRecord
<1>8. /\ k2.state \in [Tasks -> TaskStates]
      /\ k2.priority \in [Tasks -> Priorities]
      /\ k2.next \in [Tasks -> Pointers]
      /\ k2.prev \in [Tasks -> Pointers]
      /\ k2.delay \in [Tasks -> Nat]
  BY <1>1, <1>4, <1>5, <1>6, <1>7 DEF KernelRecord
<1>9. /\ k2.head \in [Priorities -> Pointers]
      /\ k2.tail \in [Priorities -> Pointers]
      /\ k2.count \in [Priorities -> Nat]
      /\ k2.bitmap \in SUBSET Priorities
      /\ k2.blocked \in Pointers
      /\ k2.deferred \in Pointers
      /\ k2.current \in Pointers
  BY <1>1, <1>4, <1>5, <1>6, <1>7 DEF KernelRecord
<1>10. k2 \in KernelRecord
  BY <1>8, <1>9 DEF RemoveFromReady, KernelRecord
<1> QED
  BY <1>5, <1>6, <1>7, <1>10

\* The fields os_task_remove_from_blocked assigns.
LEMMA RemoveFromBlockedFields ==
    ASSUME NEW k \in KernelRecord, NEW t \in Tasks
    PROVE  LET before == k.prev[t]
               after == k.next[t]
               k2 == RemoveFromBlocked(k, t)
           IN  /\ k2 \in KernelRecord
               /\ k2.state = k.state
               /\ k2.priority = k.priority
               /\ k2.next = [Store(k.next, before, after) EXCEPT ![t] = NULL]
               /\ k2.prev = [Store(k.prev, after, before) EXCEPT ![t] = NULL]
               /\ k2.delay = k.delay
               /\ k2.head = k.head
               /\ k2.tail = k.tail
               /\ k2.count = k.count
               /\ k2.bitmap = k.bitmap
               /\ k2.blocked = IF before = NULL THEN after ELSE k.blocked
               /\ k2.deferred = k.deferred
               /\ k2.current = k.current
<1>1. /\ k.priority[t] \in Priorities
      /\ k.prev[t] \in Pointers /\ k.next[t] \in Pointers
      /\ k.next \in [Tasks -> Pointers] /\ k.prev \in [Tasks -> Pointers]
  BY DEF KernelRecord
<1>2. /\ Store(k.next, k.prev[t], k.next[t]) \in [Tasks -> Pointers]
      /\ Store(k.prev, k.next[t], k.prev[t]) \in [Tasks -> Pointers]
  BY <1>1 DEF Store, Pointers
<1>3. NULL \in Pointers
  BY DEF Pointers
<1> QED
  BY <1>1, <1>2, <1>3 DEF RemoveFromBlocked, KernelRecord

\* Of the priorities with a ready task the smallest number is found.
LEMMA NatMinimum ==
    ASSUME NEW S, S \subseteq Nat, S # {}
    PROVE  \E x \in S : \A y \in S : x <= y
<1>1. PICK x \in S : \A y \in S : ~(<<y, x>> \in OpToRel(<, Nat))
  BY WFMin, NatLessThanWellFounded
<1>2. ASSUME NEW y \in S PROVE x <= y
  <2>1. ~(y < x)
    BY <1>1 DEF OpToRel
  <2> QED
    BY <2>1
<1> QED
  BY <1>2

-----------------------------------------------------------------------------
\* The operations on the lists.

\* os_task_add_to_ready of a task that is on no list.
LEMMA AddToReadyLists ==
    ASSUME NEW k \in KernelRecord, NEW R, NEW B, NEW D, NEW h,
           ListsOK(k, R, B, D, h),
           NEW t \in Tasks, t \notin R \cup B \cup D
    PROVE  ListsOK(AddToReady(k, t), R \cup {t}, B, D, h)
<1> DEFINE p == k.priority[t]
           k2 == AddToReady(k, t)
<1>1. /\ R \subseteq Tasks /\ B \subseteq Tasks /\ D \subseteq Tasks
      /\ R \cap B = {} /\ R \cap D = {} /\ B \cap D = {}
      /\ ReadyOK(k, R) /\ BlockedOK(k, B) /\ DeferredOK(k.next, D, h)
  BY DEF ListsOK
<1>2. /\ p \in Priorities /\ k.next \in Links /\ k.prev \in Links
      /\ k.count \in [Priorities -> Nat] /\ k.head \in [Priorities -> Pointers]
      /\ k.tail \in [Priorities -> Pointers] /\ k.bitmap \subseteq Priorities
      /\ k.priority \in [Tasks -> Priorities]
  BY DEF KernelRecord, Links
<1>3. PICK f : ReadyListOf(k, R, p, f)
  BY <1>1, <1>2 DEF ReadyOK
<1> DEFINE S == AtPriority(k, R, p)
           n == k.count[p]
<1>4. /\ IsChain(k.next, k.prev, f, n, S) /\ n \in Nat /\ S \subseteq Tasks
      /\ S \subseteq R /\ t \notin S
      /\ k.head[p] = First(f, n) /\ k.tail[p] = Last(f, n) /\ (p \in k.bitmap <=> n > 0)
  BY <1>1, <1>2, <1>3 DEF ReadyListOf, AtPriority
<1>5. /\ k2.priority = k.priority
      /\ k2.next = Store([k.next EXCEPT ![t] = NULL], Last(f, n), t)
      /\ k2.prev = [k.prev EXCEPT ![t] = Last(f, n)]
      /\ k2.head = [k.head EXCEPT ![p] = IF Last(f, n) = NULL THEN t ELSE k.head[p]]
      /\ k2.tail = [k.tail EXCEPT ![p] = t]
      /\ k2.count = [k.count EXCEPT ![p] = n + 1]
      /\ k2.bitmap = IF Last(f, n) = NULL THEN k.bitmap \cup {p} ELSE k.bitmap
      /\ k2.blocked = k.blocked
  <2>1. /\ k2.priority = k.priority
        /\ k2.next = Store([k.next EXCEPT ![t] = NULL], k.tail[p], t)
        /\ k2.prev = [k.prev EXCEPT ![t] = k.tail[p]]
        /\ k2.head = [k.head EXCEPT ![p] = IF k.tail[p] = NULL THEN t ELSE k.head[p]]
        /\ k2.tail = [k.tail EXCEPT ![p] = t]
        /\ k2.count = [k.count EXCEPT ![p] = n + 1]
        /\ k2.bitmap = IF k.tail[p] = NULL THEN k.bitmap \cup {p} ELSE k.bitmap
        /\ k2.blocked = k.blocked
    BY AddToReadyFields
  <2>2. k.tail[p] = Last(f, n)
    BY <1>4
  <2> QED
    BY <2>1, <2>2
<1>6. Last(f, n) \in S \cup {NULL} /\ (Last(f, n) = NULL <=> n = 0)
  BY <1>1, <1>4, TasksAssumption DEF Last, IsChain, Enumerates
<1>7. \A u \in Tasks : u # t /\ u \notin S =>
          k2.next[u] = k.next[u] /\ k2.prev[u] = k.prev[u]
  BY <1>2, <1>5, <1>6 DEF Store, Links
<1>8. ReadyListOf(k2, R \cup {t}, p, Appended(f, n, t))
  <2>1. IsChain(k2.next, k2.prev, Appended(f, n, t), n + 1, S \cup {t})
    BY <1>2, <1>4, <1>5, AppendChain
  <2>2. AtPriority(k2, R \cup {t}, p) = S \cup {t}
    BY <1>5 DEF AtPriority
  <2>3. k2.count[p] = n + 1 /\ k2.tail[p] = t /\ p \in k2.bitmap
    BY <1>2, <1>4, <1>5, <1>6
  <2>4. k2.head[p] = IF n = 0 THEN t ELSE f[1]
    BY <1>2, <1>4, <1>5, <1>6 DEF First
  <2>5. First(Appended(f, n, t), n + 1) = k2.head[p] /\ Last(Appended(f, n, t), n + 1) = t
    BY <1>4, <2>4 DEF First, Last, Appended
  <2>6. IsChain(k2.next, k2.prev, Appended(f, n, t), k2.count[p], AtPriority(k2, R \cup {t}, p))
    BY <2>1, <2>2, <2>3
  <2>7. k2.count[p] > 0
    BY <1>4, <2>3
  <2> QED
    BY <2>3, <2>5, <2>6, <2>7 DEF ReadyListOf
<1>9. ASSUME NEW q \in Priorities, q # p
      PROVE  \E g : ReadyListOf(k2, R \cup {t}, q, g)
  <2>1. PICK g : ReadyListOf(k, R, q, g)
    BY <1>1 DEF ReadyOK
  <2>2. AtPriority(k2, R \cup {t}, q) = AtPriority(k, R, q)
    BY <1>5, <1>9 DEF AtPriority
  <2>3. \A u \in AtPriority(k, R, q) : u \in Tasks /\ u # t /\ u \notin S
    BY <1>1, <1>9 DEF AtPriority
  <2>4. \A u \in AtPriority(k, R, q) : k2.next[u] = k.next[u] /\ k2.prev[u] = k.prev[u]
    BY <1>7, <2>3
  <2>5. /\ k.count[q] \in Nat /\ k2.count[q] = k.count[q]
        /\ k2.head[q] = k.head[q] /\ k2.tail[q] = k.tail[q]
        /\ q \in k2.bitmap <=> q \in k.bitmap
    BY <1>2, <1>5, <1>9
  <2> QED
    BY <2>1, <2>2, <2>4, <2>5, FrameReadyList
<1>10. ReadyOK(k2, R \cup {t})
  BY <1>8, <1>9 DEF ReadyOK
<1>11. BlockedOK(k2, B)
  <2>1. \A u \in B : k2.next[u] = k.next[u] /\ k2.prev[u] = k.prev[u]
    BY <1>1, <1>4, <1>7
  <2> QED
    BY <1>1, <1>5, <2>1, FrameBlocked
<1>12. DeferredOK(k2.next, D, h)
  <2>1. \A u \in D : k2.next[u] = k.next[u]
    BY <1>1, <1>4, <1>7
  <2> QED
    BY <1>1, <2>1, FrameDeferred
<1> QED
  BY <1>1, <1>10, <1>11, <1>12 DEF ListsOK

\* os_task_remove_from_ready of a task on the ready list of its priority.
LEMMA RemoveFromReadyLists ==
    ASSUME NEW k \in KernelRecord, NEW R, NEW B, NEW D, NEW h,
           ListsOK(k, R, B, D, h), NEW t \in R
    PROVE  /\ ListsOK(RemoveFromReady(k, t), R \ {t}, B, D, h)
           /\ RemoveFromReady(k, t).next[t] = NULL
           /\ RemoveFromReady(k, t).prev[t] = NULL
<1> DEFINE p == k.priority[t]
           k2 == RemoveFromReady(k, t)
<1>1. /\ R \subseteq Tasks /\ B \subseteq Tasks /\ D \subseteq Tasks
      /\ R \cap B = {} /\ R \cap D = {} /\ B \cap D = {} /\ t \in Tasks
      /\ ReadyOK(k, R) /\ BlockedOK(k, B) /\ DeferredOK(k.next, D, h)
  BY DEF ListsOK
<1>2. /\ p \in Priorities /\ k.next \in Links /\ k.prev \in Links
      /\ k.count \in [Priorities -> Nat] /\ k.head \in [Priorities -> Pointers]
      /\ k.tail \in [Priorities -> Pointers] /\ k.bitmap \subseteq Priorities
      /\ k.priority \in [Tasks -> Priorities]
  BY <1>1 DEF KernelRecord, Links
<1>3. PICK f : ReadyListOf(k, R, p, f)
  BY <1>1, <1>2 DEF ReadyOK
<1> DEFINE S == AtPriority(k, R, p)
           n == k.count[p]
           first == IF k.prev[t] = NULL THEN k.next[t] ELSE k.head[p]
<1>4. /\ IsChain(k.next, k.prev, f, n, S) /\ n \in Nat /\ S \in SUBSET Tasks
      /\ S \subseteq R /\ t \in S
      /\ k.head[p] = First(f, n) /\ k.tail[p] = Last(f, n) /\ (p \in k.bitmap <=> n > 0)
  BY <1>1, <1>2, <1>3 DEF ReadyListOf, AtPriority
<1>5. PICK j \in 1 .. n : f[j] = t
  BY <1>4 DEF IsChain, Enumerates
<1>6. /\ k2.priority = k.priority
      /\ k2.next = [Store(k.next, k.prev[t], k.next[t]) EXCEPT ![t] = NULL]
      /\ k2.prev = [Store(k.prev, k.next[t], k.prev[t]) EXCEPT ![t] = NULL]
      /\ k2.head = [k.head EXCEPT ![p] = first]
      /\ k2.tail = [k.tail EXCEPT ![p] = IF k.next[t] = NULL THEN k.prev[t] ELSE k.tail[p]]
      /\ k2.count = [k.count EXCEPT ![p] = IF n > 0 THEN n - 1 ELSE n]
      /\ k2.bitmap = IF first = NULL THEN k.bitmap \ {p} ELSE k.bitmap
      /\ k2.blocked = k.blocked
  BY <1>1, RemoveFromReadyFields
<1> DEFINE g == Without(f, n, j)
<1>7. /\ IsChain(k2.next, k2.prev, g, n - 1, S \ {t})
      /\ First(g, n - 1) = IF k.prev[t] = NULL THEN k.next[t] ELSE First(f, n)
      /\ Last(g, n - 1) = IF k.next[t] = NULL THEN k.prev[t] ELSE Last(f, n)
  <2>1. \A u \in S \ {t} :
            /\ k2.next[u] = IF u = k.prev[t] THEN k.next[t] ELSE k.next[u]
            /\ k2.prev[u] = IF u = k.next[t] THEN k.prev[t] ELSE k.prev[u]
    BY <1>2, <1>4, <1>6, TasksAssumption DEF Store, Links
  <2>2. /\ IsChain(k.next, k.prev, f, n, S) /\ n \in Nat /\ S \in SUBSET Tasks
        /\ f[j] = t /\ t \in S
    BY <1>4, <1>5
  <2>3. j \in 1 .. n
    BY <1>5
  <2>4. k.next \in Links /\ k.prev \in Links /\ k2.next \in Links /\ k2.prev \in Links
    BY <1>1, <1>2, RemoveFromReadyFields DEF KernelRecord, Links
  <2> HIDE DEF p, k2, S, n
  <2>5. IsChain(k2.next, k2.prev, g, n - 1, S \ {t})
    BY <2>1, <2>2, <2>3, <2>4, UnlinkChain
  <2>6. /\ First(g, n - 1) = IF k.prev[t] = NULL THEN k.next[t] ELSE First(f, n)
        /\ Last(g, n - 1) = IF k.next[t] = NULL THEN k.prev[t] ELSE Last(f, n)
    BY <2>2, <2>3, <2>4, UnlinkEnds
  <2> QED
    BY <2>5, <2>6
<1>8. k.next[t] \in S \cup {NULL} /\ k.prev[t] \in S \cup {NULL}
  BY <1>4, <1>5 DEF IsChain, Enumerates, NextThreads, PrevThreads
<1>9. \A u \in Tasks : u \notin S =>
          k2.next[u] = k.next[u] /\ k2.prev[u] = k.prev[u]
  BY <1>2, <1>4, <1>6, <1>8 DEF Store, Links
<1>10. ReadyListOf(k2, R \ {t}, p, g)
  <2>1. AtPriority(k2, R \ {t}, p) = S \ {t}
    BY <1>6 DEF AtPriority
  <2>2. k2.count[p] = n - 1 /\ n - 1 \in Nat
    BY <1>2, <1>4, <1>5, <1>6
  <2>3. k2.head[p] = First(g, n - 1) /\ k2.tail[p] = Last(g, n - 1)
    BY <1>2, <1>4, <1>6, <1>7
  <2>4. k2.head[p] = NULL <=> n - 1 = 0
    <3>1. n - 1 > 0 => g[1] \in S \ {t}
      BY <1>7, <2>2 DEF IsChain, Enumerates
    <3>2. n - 1 > 0 => g[1] # NULL
      BY <1>4, <3>1, TasksAssumption
    <3>3. n - 1 = 0 \/ n - 1 > 0
      BY <1>4, <2>2
    <3>4. k2.head[p] = IF n - 1 = 0 THEN NULL ELSE g[1]
      BY <2>3 DEF First
    <3> HIDE DEF n, k2, p, g
    <3> QED
      BY <2>2, <3>2, <3>3, <3>4
  <2>5. p \in k2.bitmap <=> n - 1 > 0
    BY <1>2, <1>4, <1>5, <1>6, <2>2, <2>4
  <2> QED
    BY <1>7, <2>1, <2>2, <2>3, <2>5 DEF ReadyListOf
<1>11. ASSUME NEW q \in Priorities, q # p
       PROVE  \E e : ReadyListOf(k2, R \ {t}, q, e)
  <2>1. PICK e : ReadyListOf(k, R, q, e)
    BY <1>1 DEF ReadyOK
  <2>2. AtPriority(k2, R \ {t}, q) = AtPriority(k, R, q)
    BY <1>6, <1>11 DEF AtPriority
  <2>3. \A u \in AtPriority(k, R, q) : u \in Tasks /\ u \notin S
    BY <1>1, <1>11 DEF AtPriority
  <2>4. \A u \in AtPriority(k, R, q) : k2.next[u] = k.next[u] /\ k2.prev[u] = k.prev[u]
    BY <1>9, <2>3
  <2>5. /\ k.count[q] \in Nat /\ k2.count[q] = k.count[q]
        /\ k2.head[q] = k.head[q] /\ k2.tail[q] = k.tail[q]
        /\ q \in k2.bitmap <=> q \in k.bitmap
    BY <1>2, <1>6, <1>11
  <2> QED
    BY <2>1, <2>2, <2>4, <2>5, FrameReadyList
<1>12. ReadyOK(k2, R \ {t})
  BY <1>10, <1>11 DEF ReadyOK
<1>13. BlockedOK(k2, B)
  <2>1. \A u \in B : k2.next[u] = k.next[u] /\ k2.prev[u] = k.prev[u]
    BY <1>1, <1>4, <1>9
  <2> QED
    BY <1>1, <1>6, <2>1, FrameBlocked
<1>14. DeferredOK(k2.next, D, h)
  <2>1. \A u \in D : k2.next[u] = k.next[u]
    BY <1>1, <1>4, <1>9
  <2> QED
    BY <1>1, <2>1, FrameDeferred
<1>15. k2.next[t] = NULL /\ k2.prev[t] = NULL
  BY <1>1, <1>2, <1>6 DEF Store, Links
<1> QED
  BY <1>1, <1>12, <1>13, <1>14, <1>15 DEF ListsOK

\* os_task_remove_from_blocked of a task on the blocked list.
LEMMA RemoveFromBlockedLists ==
    ASSUME NEW k \in KernelRecord, NEW R, NEW B, NEW D, NEW h,
           ListsOK(k, R, B, D, h), NEW t \in B
    PROVE  ListsOK(RemoveFromBlocked(k, t), R, B \ {t}, D, h)
<1> DEFINE k2 == RemoveFromBlocked(k, t)
<1>1. /\ R \subseteq Tasks /\ B \subseteq Tasks /\ D \subseteq Tasks
      /\ R \cap B = {} /\ R \cap D = {} /\ B \cap D = {} /\ t \in Tasks
      /\ ReadyOK(k, R) /\ BlockedOK(k, B) /\ DeferredOK(k.next, D, h)
  BY DEF ListsOK
<1>2. k.next \in Links /\ k.prev \in Links /\ k.count \in [Priorities -> Nat]
  BY DEF KernelRecord, Links
<1>3. /\ k2.next = [Store(k.next, k.prev[t], k.next[t]) EXCEPT ![t] = NULL]
      /\ k2.prev = [Store(k.prev, k.next[t], k.prev[t]) EXCEPT ![t] = NULL]
      /\ k2.blocked = IF k.prev[t] = NULL THEN k.next[t] ELSE k.blocked
      /\ k2.priority = k.priority /\ k2.head = k.head /\ k2.tail = k.tail
      /\ k2.count = k.count /\ k2.bitmap = k.bitmap /\ k2 \in KernelRecord
  BY <1>1, RemoveFromBlockedFields
<1> HIDE DEF k2
<1>n. PICK n \in Nat : \E f : IsChain(k.next, k.prev, f, n, B) /\ k.blocked = First(f, n)
  BY <1>1 DEF BlockedOK
<1>4. PICK f : IsChain(k.next, k.prev, f, n, B) /\ k.blocked = First(f, n)
  BY <1>n
<1>5. PICK j \in 1 .. n : f[j] = t
  BY <1>4 DEF IsChain, Enumerates
<1>6. k.next[t] \in B \cup {NULL} /\ k.prev[t] \in B \cup {NULL}
  BY <1>4, <1>5 DEF IsChain, Enumerates, NextThreads, PrevThreads
<1>7. \A u \in Tasks : u \notin B =>
          k2.next[u] = k.next[u] /\ k2.prev[u] = k.prev[u]
  BY <1>2, <1>3, <1>6 DEF Store, Links
<1>8. \A u \in B \ {t} :
          /\ k2.next[u] = IF u = k.prev[t] THEN k.next[t] ELSE k.next[u]
          /\ k2.prev[u] = IF u = k.next[t] THEN k.prev[t] ELSE k.prev[u]
  BY <1>1, <1>2, <1>3, TasksAssumption DEF Store, Links
<1>9. BlockedOK(k2, B \ {t})
  <2>1. B \in SUBSET Tasks /\ k2.next \in Links /\ k2.prev \in Links
    BY <1>1, <1>3 DEF KernelRecord, Links
  <2>chain. IsChain(k.next, k.prev, f, n, B)
    BY <1>4
  <2>2. IsChain(k2.next, k2.prev, Without(f, n, j), n - 1, B \ {t})
    BY <1>2, <1>5, <1>8, <2>1, <2>chain, UnlinkChain
  <2>3. First(Without(f, n, j), n - 1) = k2.blocked
    BY <1>2, <1>3, <1>4, <1>5, <2>1, UnlinkEnds
  <2>4. n - 1 \in Nat
    BY <1>5
  <2> QED
    BY <2>2, <2>3, <2>4 DEF BlockedOK
<1>10. ReadyOK(k2, R)
  <2>1. ASSUME NEW q \in Priorities PROVE \E e : ReadyListOf(k2, R, q, e)
    <3>1. PICK e : ReadyListOf(k, R, q, e)
      BY <1>1 DEF ReadyOK
    <3>2. AtPriority(k2, R, q) = AtPriority(k, R, q)
      BY <1>3 DEF AtPriority
    <3>3. \A u \in AtPriority(k, R, q) : u \in Tasks /\ u \notin B
      BY <1>1 DEF AtPriority
    <3>4. \A u \in AtPriority(k, R, q) : k2.next[u] = k.next[u] /\ k2.prev[u] = k.prev[u]
      BY <1>7, <3>3
    <3>5. k.count[q] \in Nat
      BY <1>2
    <3> QED
      BY <1>3, <3>1, <3>2, <3>4, <3>5, FrameReadyList
  <2> QED
    BY <2>1 DEF ReadyOK
<1>11. DeferredOK(k2.next, D, h)
  <2>1. \A u \in D : k2.next[u] = k.next[u]
    BY <1>1, <1>7
  <2> QED
    BY <1>1, <2>1, FrameDeferred
<1> QED
  BY <1>1, <1>9, <1>10, <1>11 DEF ListsOK, k2

\* Changing fields that are not part of any list.  The links of a task are part
\* of the list it is on, and the priority of a ready task is part of its list.
LEMMA FrameLists ==
    ASSUME NEW k \in KernelRecord, NEW R, NEW B, NEW D, NEW h,
           ListsOK(k, R, B, D, h), NEW k2,
           \A u \in R \cup B \cup D : k2.next[u] = k.next[u] /\ k2.prev[u] = k.prev[u],
           k2.head = k.head, k2.tail = k.tail, k2.count = k.count,
           k2.bitmap = k.bitmap, k2.blocked = k.blocked,
           \A u \in R : k2.priority[u] = k.priority[u]
    PROVE  ListsOK(k2, R, B, D, h)
<1>1. BlockedOK(k2, B)
  <2>1. BlockedOK(k, B) /\ \A u \in B : k2.next[u] = k.next[u] /\ k2.prev[u] = k.prev[u]
    BY DEF ListsOK
  <2> QED
    BY <2>1, FrameBlocked
<1>2. ReadyOK(k2, R)
  <2>1. ASSUME NEW q \in Priorities PROVE \E e : ReadyListOf(k2, R, q, e)
    <3>1. PICK e : ReadyListOf(k, R, q, e)
      BY DEF ListsOK, ReadyOK
    <3>2. AtPriority(k2, R, q) = AtPriority(k, R, q)
      BY DEF AtPriority
    <3>3. \A u \in AtPriority(k, R, q) : k2.next[u] = k.next[u] /\ k2.prev[u] = k.prev[u]
      BY DEF AtPriority
    <3>4. k.count[q] \in Nat
      BY DEF KernelRecord
    <3> QED
      BY <3>1, <3>2, <3>3, <3>4, FrameReadyList
  <2> QED
    BY <2>1 DEF ReadyOK
<1>3. DeferredOK(k2.next, D, h)
  <2>1. DeferredOK(k.next, D, h) /\ \A u \in D : k2.next[u] = k.next[u]
    BY DEF ListsOK
  <2> QED
    BY <2>1, FrameDeferred
<1> QED
  BY <1>1, <1>2, <1>3 DEF ListsOK

\* The push of os_task_add_to_blocked, of a task that was just unlinked.
LEMMA PushBlockedLists ==
    ASSUME NEW k \in KernelRecord, NEW R, NEW B, NEW D, NEW h,
           ListsOK(k, R, B, D, h),
           NEW t \in Tasks, t \notin R \cup B \cup D, k.prev[t] = NULL,
           NEW k2,
           k2.next = [k.next EXCEPT ![t] = k.blocked],
           k2.prev = Store(k.prev, k.blocked, t), k2.blocked = t,
           k2.head = k.head, k2.tail = k.tail, k2.count = k.count,
           k2.bitmap = k.bitmap, k2.priority = k.priority
    PROVE  ListsOK(k2, R, B \cup {t}, D, h)
<1>1. /\ R \subseteq Tasks /\ B \subseteq Tasks /\ D \subseteq Tasks
      /\ R \cap B = {} /\ R \cap D = {} /\ B \cap D = {}
      /\ ReadyOK(k, R) /\ BlockedOK(k, B) /\ DeferredOK(k.next, D, h)
  BY DEF ListsOK
<1>2. k.next \in Links /\ k.prev \in Links /\ k.count \in [Priorities -> Nat]
  BY DEF KernelRecord, Links
<1>n. PICK n \in Nat : \E f : IsChain(k.next, k.prev, f, n, B) /\ k.blocked = First(f, n)
  BY <1>1 DEF BlockedOK
<1>3. PICK f : IsChain(k.next, k.prev, f, n, B) /\ k.blocked = First(f, n)
  BY <1>n
<1>4. k.blocked \in B \cup {NULL}
  BY <1>3 DEF First, IsChain, Enumerates
<1>5. \A u \in Tasks : u # t /\ u \notin B =>
          k2.next[u] = k.next[u] /\ k2.prev[u] = k.prev[u]
  BY <1>2, <1>4 DEF Store, Links
<1>6. BlockedOK(k2, B \cup {t})
  <2>1. B \in SUBSET Tasks /\ t \notin B /\ n + 1 \in Nat
    BY <1>1
  <2>2. k2.next = [k.next EXCEPT ![t] = First(f, n)] /\ k2.prev = Store(k.prev, First(f, n), t)
    BY <1>3
  <2>3. IsChain(k2.next, k2.prev, Pushed(f, n, t), n + 1, B \cup {t})
    BY <1>2, <1>3, <2>1, <2>2, PushChain
  <2>4. First(Pushed(f, n, t), n + 1) = t
    BY DEF First, Pushed
  <2> QED
    BY <2>1, <2>3, <2>4 DEF BlockedOK
<1>7. ReadyOK(k2, R)
  <2>1. ASSUME NEW q \in Priorities PROVE \E e : ReadyListOf(k2, R, q, e)
    <3>1. PICK e : ReadyListOf(k, R, q, e)
      BY <1>1 DEF ReadyOK
    <3>2. AtPriority(k2, R, q) = AtPriority(k, R, q)
      BY DEF AtPriority
    <3>3. \A u \in AtPriority(k, R, q) : u \in Tasks /\ u # t /\ u \notin B
      BY <1>1 DEF AtPriority
    <3>4. \A u \in AtPriority(k, R, q) : k2.next[u] = k.next[u] /\ k2.prev[u] = k.prev[u]
      BY <1>5, <3>3
    <3>5. k.count[q] \in Nat
      BY <1>2
    <3> QED
      BY <3>1, <3>2, <3>4, <3>5, FrameReadyList
  <2> QED
    BY <2>1 DEF ReadyOK
<1>8. DeferredOK(k2.next, D, h)
  <2>1. \A u \in D : k2.next[u] = k.next[u]
    BY <1>1, <1>5
  <2> QED
    BY <1>1, <2>1, FrameDeferred
<1> QED
  BY <1>1, <1>6, <1>7, <1>8 DEF ListsOK

\* The push of self-deletion on the deferred delete list, through next alone.
LEMMA PushDeferredLists ==
    ASSUME NEW k \in KernelRecord, NEW R, NEW B, NEW D, NEW h,
           ListsOK(k, R, B, D, h),
           NEW t \in Tasks, t \notin R \cup B \cup D,
           NEW k2,
           k2.next = [k.next EXCEPT ![t] = h], k2.prev = k.prev,
           k2.blocked = k.blocked, k2.head = k.head, k2.tail = k.tail,
           k2.count = k.count, k2.bitmap = k.bitmap, k2.priority = k.priority
    PROVE  ListsOK(k2, R, B, D \cup {t}, t)
<1>1. /\ R \subseteq Tasks /\ B \subseteq Tasks /\ D \subseteq Tasks
      /\ R \cap B = {} /\ R \cap D = {} /\ B \cap D = {}
      /\ ReadyOK(k, R) /\ BlockedOK(k, B) /\ DeferredOK(k.next, D, h)
  BY DEF ListsOK
<1>2. k.next \in Links /\ k.count \in [Priorities -> Nat]
  BY DEF KernelRecord, Links
<1>3. \A u \in Tasks : u # t => k2.next[u] = k.next[u] /\ k2.prev[u] = k.prev[u]
  BY <1>2 DEF Links
<1>4. DeferredOK(k2.next, D \cup {t}, t)
  <2>n. PICK n \in Nat : \E f : Enumerates(f, n, D) /\ NextThreads(k.next, f, n) /\ h = First(f, n)
    BY <1>1 DEF DeferredOK
  <2>1. PICK f : Enumerates(f, n, D) /\ NextThreads(k.next, f, n) /\ h = First(f, n)
    BY <2>n
  <2> DEFINE g == Pushed(f, n, t)
             m == n + 1
  <2>2. /\ f \in [1 .. n -> D]
        /\ \A i, j \in 1 .. n : f[i] = f[j] => i = j
        /\ \A u \in D : \E i \in 1 .. n : f[i] = u
        /\ \A i \in 1 .. n : k.next[f[i]] = IF i = n THEN NULL ELSE f[i + 1]
    BY <2>1 DEF Enumerates, NextThreads
  <2>3. /\ m \in Nat /\ g \in [1 .. m -> D \cup {t}]
        /\ g[1] = t /\ 1 \in 1 .. m
        /\ \A i \in 1 .. n : i + 1 \in 1 .. m /\ g[i + 1] = f[i]
        /\ \A i \in 2 .. m : i - 1 \in 1 .. n /\ g[i] = f[i - 1]
    BY <2>2 DEF Pushed
  <2>4. \A i, j \in 1 .. m : g[i] = g[j] => i = j
    <3>1. SUFFICES ASSUME NEW i \in 1 .. m, NEW j \in 1 .. m, g[i] = g[j] PROVE i = j
      OBVIOUS
    <3>2. \A l \in 2 .. m : g[l] \in D
      BY <2>2, <2>3
    <3>3. CASE i = 1 \/ j = 1
      BY <2>3, <3>1, <3>2, <3>3
    <3>4. CASE i \in 2 .. m /\ j \in 2 .. m
      BY <2>2, <2>3, <3>1, <3>4
    <3> QED
      BY <3>3, <3>4
  <2>5. \A u \in D \cup {t} : \E i \in 1 .. m : g[i] = u
    <3>1. ASSUME NEW u \in D PROVE \E i \in 1 .. m : g[i] = u
      BY <2>2, <2>3
    <3> QED
      BY <2>3, <3>1
  <2>6. NextThreads(k2.next, g, m)
    <3>1. SUFFICES ASSUME NEW i \in 1 .. m
                   PROVE  k2.next[g[i]] = IF i = m THEN NULL ELSE g[i + 1]
      BY DEF NextThreads
    <3>2. CASE i = 1
      <4>1. k2.next[t] = IF n = 0 THEN NULL ELSE f[1]
        BY <1>2, <2>1 DEF First, Links
      <4>2. n # 0 => g[2] = f[1]
        BY <2>3
      <4> QED
        BY <2>3, <3>2, <4>1, <4>2
    <3>3. CASE i \in 2 .. m
      <4>1. i - 1 \in 1 .. n /\ g[i] = f[i - 1]
        BY <2>3, <3>3
      <4>2. k2.next[f[i - 1]] = k.next[f[i - 1]]
        BY <1>1, <1>3, <2>2, <4>1
      <4>3. k.next[f[i - 1]] = IF i - 1 = n THEN NULL ELSE f[(i - 1) + 1]
        BY <2>2, <4>1
      <4>4. i # m => g[i + 1] = f[i] /\ (i - 1) + 1 = i
        BY <2>3, <3>3
      <4> QED
        BY <3>3, <4>1, <4>2, <4>3, <4>4
    <3> QED
      BY <3>2, <3>3
  <2>7. First(g, m) = t
    BY <2>3 DEF First
  <2>8. Enumerates(g, m, D \cup {t})
    BY <2>3, <2>4, <2>5 DEF Enumerates
  <2> QED
    BY <2>3, <2>6, <2>7, <2>8 DEF DeferredOK
<1>5. BlockedOK(k2, B)
  <2>1. \A u \in B : k2.next[u] = k.next[u] /\ k2.prev[u] = k.prev[u]
    BY <1>1, <1>3
  <2> QED
    BY <1>1, <2>1, FrameBlocked
<1>6. ReadyOK(k2, R)
  <2>1. ASSUME NEW q \in Priorities PROVE \E e : ReadyListOf(k2, R, q, e)
    <3>1. PICK e : ReadyListOf(k, R, q, e)
      BY <1>1 DEF ReadyOK
    <3>2. AtPriority(k2, R, q) = AtPriority(k, R, q)
      BY DEF AtPriority
    <3>3. \A u \in AtPriority(k, R, q) : k2.next[u] = k.next[u] /\ k2.prev[u] = k.prev[u]
      BY <1>1, <1>3 DEF AtPriority
    <3>4. k.count[q] \in Nat
      BY <1>2
    <3> QED
      BY <3>1, <3>2, <3>3, <3>4, FrameReadyList
  <2> QED
    BY <2>1 DEF ReadyOK
<1> QED
  BY <1>1, <1>4, <1>5, <1>6 DEF ListsOK

\* Freeing the first task of the deferred delete list.
LEMMA PopDeferred ==
    ASSUME NEW next, NEW D, NEW h \in D, DeferredOK(next, D, h)
    PROVE  DeferredOK(next, D \ {h}, next[h])
<1>n. PICK n \in Nat : \E f : Enumerates(f, n, D) /\ NextThreads(next, f, n) /\ h = First(f, n)
  BY DEF DeferredOK
<1>1. PICK f : Enumerates(f, n, D) /\ NextThreads(next, f, n) /\ h = First(f, n)
  BY <1>n
<1>2. /\ f \in [1 .. n -> D]
      /\ \A i, j \in 1 .. n : f[i] = f[j] => i = j
      /\ \A u \in D : \E i \in 1 .. n : f[i] = u
      /\ \A i \in 1 .. n : next[f[i]] = IF i = n THEN NULL ELSE f[i + 1]
  BY <1>1 DEF Enumerates, NextThreads
<1>3. n > 0 /\ 1 \in 1 .. n /\ f[1] = h
  <2>1. n # 0
    BY <1>2
  <2> QED
    BY <1>1, <2>1 DEF First
<1> DEFINE m == n - 1
           g == [i \in 1 .. m |-> f[i + 1]]
<1>4. m \in Nat /\ \A i \in 1 .. m : i + 1 \in 1 .. n /\ g[i] = f[i + 1]
  BY <1>3
<1>5. Enumerates(g, m, D \ {h})
  <2>1. \A i \in 1 .. m : f[i + 1] \in D \ {h}
    BY <1>2, <1>3, <1>4
  <2>2. g \in [1 .. m -> D \ {h}]
    BY <2>1
  <2>3. \A i, j \in 1 .. m : g[i] = g[j] => i = j
    <3>1. SUFFICES ASSUME NEW i \in 1 .. m, NEW j \in 1 .. m, g[i] = g[j] PROVE i = j
      OBVIOUS
    <3>2. i + 1 = j + 1
      BY <1>2, <1>4, <3>1
    <3> QED
      BY <3>2
  <2>4. \A u \in D \ {h} : \E i \in 1 .. m : g[i] = u
    <3>1. SUFFICES ASSUME NEW u \in D \ {h} PROVE \E i \in 1 .. m : g[i] = u
      OBVIOUS
    <3>2. PICK i \in 1 .. n : f[i] = u
      BY <1>2
    <3>3. i - 1 \in 1 .. m /\ (i - 1) + 1 = i
      BY <1>3, <3>2
    <3>4. g[i - 1] = u
      BY <1>4, <3>2, <3>3
    <3> QED
      BY <3>3, <3>4
  <2> QED
    BY <2>2, <2>3, <2>4 DEF Enumerates
<1>6. NextThreads(next, g, m)
  <2>1. SUFFICES ASSUME NEW i \in 1 .. m
                 PROVE  next[g[i]] = IF i = m THEN NULL ELSE g[i + 1]
    BY DEF NextThreads
  <2>2. i + 1 \in 1 .. n /\ g[i] = f[i + 1]
    BY <1>4
  <2>3. next[f[i + 1]] = IF i + 1 = n THEN NULL ELSE f[(i + 1) + 1]
    BY <1>2, <2>2
  <2>4. i # m => g[i + 1] = f[(i + 1) + 1]
    BY <1>4
  <2>5. i = m <=> i + 1 = n
    OBVIOUS
  <2> QED
    BY <2>2, <2>3, <2>4, <2>5
<1>7. next[h] = First(g, m)
  <2>1. next[h] = IF n = 1 THEN NULL ELSE f[2]
    BY <1>2, <1>3
  <2>2. m # 0 => g[1] = f[2]
    BY <1>4
  <2>3. m = 0 <=> n = 1
    OBVIOUS
  <2> QED
    BY <2>1, <2>2, <2>3 DEF First
<1> QED
  BY <1>4, <1>5, <1>6, <1>7 DEF DeferredOK

\* The first of a deferred delete list is one of its members, and the null
\* pointer only if there are none.
LEMMA DeferredHead ==
    ASSUME NEW next, NEW D, NEW h, D \subseteq Tasks, DeferredOK(next, D, h)
    PROVE  h \in D \cup {NULL} /\ (h = NULL => D = {})
<1>n. PICK n \in Nat : \E f : Enumerates(f, n, D) /\ h = First(f, n)
  BY DEF DeferredOK
<1>1. PICK f : Enumerates(f, n, D) /\ h = First(f, n)
  BY <1>n
<1>2. f \in [1 .. n -> D] /\ \A u \in D : \E i \in 1 .. n : f[i] = u
  BY <1>1 DEF Enumerates
<1>3. CASE n = 0
  BY <1>1, <1>2, <1>3 DEF First
<1>4. CASE n > 0
  <2>1. h \in D
    BY <1>1, <1>2, <1>4 DEF First
  <2> QED
    BY <2>1, TasksAssumption
<1> QED
  BY <1>3, <1>4

-----------------------------------------------------------------------------
\* The composite operations: the search for the highest ready task,
\* os_sched_select_next, os_task_add_to_blocked and the critical section of
\* self-deletion.

\* A priority has its bit set exactly if a ready task has that priority, and
\* then the head of its list is such a task.
LEMMA BitmapExact ==
    ASSUME NEW k \in KernelRecord, NEW R, ReadyOK(k, R), NEW p \in Priorities
    PROVE  /\ p \in k.bitmap <=> AtPriority(k, R, p) # {}
           /\ p \in k.bitmap => k.head[p] \in AtPriority(k, R, p)
<1>1. PICK f : ReadyListOf(k, R, p, f)
  BY DEF ReadyOK
<1> DEFINE n == k.count[p]
           S == AtPriority(k, R, p)
<1>2. n \in Nat
  BY DEF KernelRecord
<1>3. /\ f \in [1 .. n -> S]
      /\ \A u \in S : \E i \in 1 .. n : f[i] = u
      /\ k.head[p] = First(f, n)
      /\ p \in k.bitmap <=> n > 0
  BY <1>1 DEF ReadyListOf, IsChain, Enumerates
<1> HIDE DEF n, S
<1>4. n > 0 => k.head[p] \in S
  <2>1. SUFFICES ASSUME n > 0 PROVE k.head[p] \in S
    OBVIOUS
  <2>2. 1 \in 1 .. n /\ n # 0
    BY <1>2, <2>1
  <2> QED
    BY <1>3, <2>2 DEF First
<1>5. S # {} => n > 0
  BY <1>2, <1>3
<1> QED
  BY <1>3, <1>4, <1>5 DEF S

\* os_task_find_highest_ready returns a ready task that no other precedes, and
\* the null pointer exactly if nothing is ready.
LEMMA FindHighest ==
    ASSUME NEW k \in KernelRecord, NEW R \in SUBSET Tasks, ReadyOK(k, R)
    PROVE  /\ R = {} => FindHighestReady(k) = NULL
           /\ R # {} => /\ FindHighestReady(k) \in R
                        /\ \A u \in R : k.priority[FindHighestReady(k)] <= k.priority[u]
<1>1. /\ k.bitmap \subseteq Priorities /\ k.priority \in [Tasks -> Priorities]
      /\ Priorities \subseteq Nat
  BY DEF KernelRecord, Priorities
<1>2. \A u \in R : k.priority[u] \in k.bitmap
  <2>1. SUFFICES ASSUME NEW u \in R PROVE k.priority[u] \in k.bitmap
    OBVIOUS
  <2>2. k.priority[u] \in Priorities /\ u \in AtPriority(k, R, k.priority[u])
    BY <1>1 DEF AtPriority
  <2> QED
    BY <2>2, BitmapExact
<1>3. CASE k.bitmap = {}
  BY <1>2, <1>3 DEF FindHighestReady
<1>4. CASE k.bitmap # {}
  <2> DEFINE p == HighestPriority(k.bitmap)
  <2>1. k.bitmap \subseteq Nat
    BY <1>1
  <2>2. \E x \in k.bitmap : \A y \in k.bitmap : x <= y
    BY <1>4, <2>1, NatMinimum
  <2>3. p \in k.bitmap /\ \A y \in k.bitmap : p <= y
    BY <2>2 DEF HighestPriority
  <2> HIDE DEF p
  <2>4. p \in Priorities
    BY <1>1, <2>3
  <2>5. k.head[p] \in AtPriority(k, R, p)
    BY <2>3, <2>4, BitmapExact
  <2>6. k.head[p] \in R /\ k.priority[k.head[p]] = p
    BY <2>5 DEF AtPriority
  <2>7. FindHighestReady(k) = k.head[p]
    BY <1>4 DEF FindHighestReady, p
  <2> QED
    BY <1>2, <2>3, <2>6, <2>7
<1> QED
  BY <1>3, <1>4

\* The rotation of the running task keeps the lists and the set of ready tasks.
LEMMA RotateLists ==
    ASSUME NEW k \in KernelRecord, NEW B, NEW D, NEW h,
           ListsOK(k, Ready(k), B, D, h)
    PROVE  LET r == Rotate(k)
           IN  /\ r \in KernelRecord
               /\ ListsOK(r, Ready(k), B, D, h)
               /\ \A u \in Tasks : u # k.current => r.state[u] = k.state[u]
               /\ \A u \in Tasks : r.state[u] = k.state[u]
                                   \/ (u \in Ready(k) /\ r.state[u] = "READY")
               /\ r.priority = k.priority /\ r.delay = k.delay
               /\ r.deferred = k.deferred /\ r.current = k.current
<1> DEFINE R == Ready(k)
           c == k.current
           r1 == RemoveFromReady(k, c)
           r2 == AddToReady(r1, c)
<1>1. ReadyOK(k, R) /\ R \in SUBSET Tasks /\ B \subseteq Tasks /\ D \subseteq Tasks
      /\ R \cap B = {} /\ R \cap D = {}
  BY DEF ListsOK, Ready
<1>2. CASE c # NULL /\ FindHighestReady(k) = c
  <2>1. c \in R /\ c \in Tasks
    <3>1. c \in Tasks
      BY <1>2 DEF KernelRecord, Pointers
    <3> QED
      BY <1>1, <1>2, <3>1, FindHighest
  <2>2. /\ r1 \in KernelRecord /\ r1.state = k.state /\ r1.priority = k.priority
        /\ r1.delay = k.delay /\ r1.deferred = k.deferred /\ r1.current = k.current
    BY <2>1, RemoveFromReadyFields
  <2>3. ListsOK(r1, R \ {c}, B, D, h)
    BY <2>1, RemoveFromReadyLists
  <2>4. c \notin (R \ {c}) \cup B \cup D
    BY <1>1, <2>1
  <2> HIDE DEF r1
  <2>5. /\ r2 \in KernelRecord /\ r2.state = [r1.state EXCEPT ![c] = "READY"]
        /\ r2.priority = r1.priority /\ r2.delay = r1.delay
        /\ r2.deferred = r1.deferred /\ r2.current = r1.current
    BY <2>1, <2>2, AddToReadyFields
  <2>6. ListsOK(r2, (R \ {c}) \cup {c}, B, D, h)
    BY <2>1, <2>2, <2>3, <2>4, AddToReadyLists
  <2>7. (R \ {c}) \cup {c} = R
    BY <2>1
  <2>8. k.state \in [Tasks -> TaskStates]
    BY DEF KernelRecord
  <2>9. Rotate(k) = r2
    BY <1>2 DEF Rotate, r1
  <2> HIDE DEF r2
  <2>10. /\ \A u \in Tasks : u # c => r2.state[u] = k.state[u]
         /\ r2.state[c] = "READY"
    BY <2>1, <2>2, <2>5, <2>8
  <2> QED
    BY <2>1, <2>2, <2>5, <2>6, <2>7, <2>9, <2>10
<1>3. CASE ~(c # NULL /\ FindHighestReady(k) = c)
  <2>1. Rotate(k) = k
    BY <1>3 DEF Rotate
  <2> QED
    BY <2>1
<1> QED
  BY <1>2, <1>3

\* os_sched_select_next with something ready: the selected task is the only
\* RUNNING one, no ready task precedes it, and the lists and the states of the
\* tasks that are not ready stay as they were.
LEMMA SelectNextLists ==
    ASSUME NEW k \in KernelRecord, NEW B, NEW D, NEW h,
           ListsOK(k, Ready(k), B, D, h), Ready(k) # {},
           \A u \in Tasks : k.state[u] = "RUNNING" => u = k.current
    PROVE  LET kk == SelectNext(k)
           IN  /\ kk \in KernelRecord
               /\ Ready(kk) = Ready(k)
               /\ ListsOK(kk, Ready(k), B, D, h)
               /\ \A u \in Tasks : u \notin Ready(k) => kk.state[u] = k.state[u]
               /\ kk.current \in Ready(k)
               /\ kk.state[kk.current] = "RUNNING"
               /\ \A u \in Tasks : kk.state[u] = "RUNNING" => u = kk.current
               /\ \A u \in Ready(k) : kk.priority[kk.current] <= kk.priority[u]
               /\ kk.priority = k.priority /\ kk.delay = k.delay
               /\ kk.deferred = k.deferred
<1> DEFINE R == Ready(k)
           r == Rotate(k)
           c == FindHighestReady(r)
           s1 == IF r.current # NULL /\ r.state[r.current] = "RUNNING"
                 THEN [r.state EXCEPT ![r.current] = "READY"]
                 ELSE r.state
           s2 == [s1 EXCEPT ![c] = "RUNNING"]
           kk == SelectNext(k)
<1>1. /\ r \in KernelRecord
      /\ ListsOK(r, R, B, D, h)
      /\ \A u \in Tasks : u # k.current => r.state[u] = k.state[u]
      /\ \A u \in Tasks : r.state[u] = k.state[u] \/ (u \in R /\ r.state[u] = "READY")
      /\ r.priority = k.priority /\ r.delay = k.delay
      /\ r.deferred = k.deferred /\ r.current = k.current
  BY RotateLists
<1>2. ReadyOK(k, R) /\ ReadyOK(r, R) /\ R \in SUBSET Tasks
  BY <1>1 DEF ListsOK, Ready
<1>3. FindHighestReady(k) \in R
  BY <1>2, FindHighest
<1> HIDE DEF r
<1>4. c \in R /\ \A u \in R : r.priority[c] <= r.priority[u]
  BY <1>1, <1>2, FindHighest
<1>5. FindHighestReady(k) # NULL /\ c # NULL /\ c \in Tasks
  BY <1>2, <1>3, <1>4, TasksAssumption
<1> HIDE DEF c
<1>6. kk = [r EXCEPT !.state = s2, !.current = c]
  BY <1>5 DEF SelectNext, r, c
<1>7. r.state \in [Tasks -> TaskStates] /\ k.state \in [Tasks -> TaskStates]
  BY <1>1 DEF KernelRecord
<1>8. s1 \in [Tasks -> TaskStates]
  BY <1>7 DEF TaskStates
<1>9. /\ \A u \in Tasks : s1[u] # "RUNNING"
      /\ \A u \in Tasks : u \notin R => s1[u] = k.state[u]
      /\ \A u \in R : s1[u] = "READY"
  <2>1. ASSUME NEW u \in Tasks, u # k.current PROVE s1[u] = k.state[u] /\ s1[u] # "RUNNING"
    BY <1>1, <1>7, <2>1
  <2>2. ASSUME k.current \in Tasks
        PROVE  /\ s1[k.current] # "RUNNING"
               /\ k.current \notin R => s1[k.current] = k.state[k.current]
    <3>1. k.current # NULL
      BY <2>2, TasksAssumption
    <3>2. CASE r.state[k.current] = "RUNNING"
      <4>1. s1[k.current] = "READY"
        BY <1>1, <1>7, <2>2, <3>1, <3>2
      <4>2. k.state[k.current] = "RUNNING"
        BY <1>1, <2>2, <3>2
      <4>3. k.current \in R
        BY <2>2, <4>2 DEF Ready
      <4> QED
        BY <4>1, <4>3
    <3>3. CASE r.state[k.current] # "RUNNING"
      <4>1. s1 = r.state
        BY <1>1, <3>3
      <4> QED
        BY <1>1, <2>2, <3>3, <4>1
    <3> QED
      BY <3>2, <3>3
  <2> HIDE DEF s1
  <2>3. \A u \in Tasks : s1[u] # "RUNNING"
    BY <2>1, <2>2
  <2>4. \A u \in Tasks : u \notin R => s1[u] = k.state[u]
    BY <2>1, <2>2
  <2>5. ASSUME NEW u \in R PROVE s1[u] = "READY"
    <3>1. u \in Tasks /\ k.state[u] \in {"READY", "RUNNING"}
      BY DEF Ready
    <3>2. CASE u # k.current
      BY <2>1, <3>1, <3>2
    <3>3. CASE u = k.current
      <4>1. r.state[u] \in {"READY", "RUNNING"}
        BY <1>1, <3>1
      <4>2. s1[u] \in {"READY", "RUNNING"}
        BY <1>1, <1>7, <3>1, <3>3, <4>1 DEF s1
      <4> QED
        BY <2>3, <3>1, <4>2
    <3> QED
      BY <3>2, <3>3
  <2> QED
    BY <2>3, <2>4, <2>5
<1> HIDE DEF s1
<1>10. /\ s2 \in [Tasks -> TaskStates]
       /\ s2[c] = "RUNNING"
       /\ \A u \in Tasks : u # c => s2[u] = s1[u]
  BY <1>5, <1>8 DEF TaskStates
<1> HIDE DEF s2
<1>11. /\ kk.state = s2 /\ kk.current = c
       /\ kk.next = r.next /\ kk.prev = r.prev /\ kk.head = r.head
       /\ kk.tail = r.tail /\ kk.count = r.count /\ kk.bitmap = r.bitmap
       /\ kk.blocked = r.blocked /\ kk.priority = r.priority
       /\ kk.delay = r.delay /\ kk.deferred = r.deferred
  BY <1>1, <1>6 DEF KernelRecord
<1>12. kk \in KernelRecord
  <2>1. c \in Pointers
    BY <1>5 DEF Pointers
  <2> QED
    BY <1>1, <1>6, <1>10, <2>1 DEF KernelRecord
<1> HIDE DEF kk
<1>13. \A u \in Tasks : u \notin R => kk.state[u] = k.state[u]
  BY <1>4, <1>9, <1>10, <1>11
<1>14. \A u \in R : u \in Tasks /\ kk.state[u] \in {"READY", "RUNNING"}
  BY <1>2, <1>9, <1>10, <1>11
<1>15. Ready(kk) = R
  <2>1. ASSUME NEW u \in Tasks, u \notin R PROVE u \notin Ready(kk)
    BY <1>13, <2>1 DEF Ready
  <2>2. ASSUME NEW u \in R PROVE u \in Ready(kk)
    BY <1>14 DEF Ready
  <2>3. Ready(kk) \subseteq Tasks
    BY DEF Ready
  <2> QED
    BY <2>1, <2>2, <2>3
<1>16. ListsOK(kk, R, B, D, h)
  <2> HIDE DEF R
  <2> QED
    BY <1>1, <1>11, FrameLists
<1>17. \A u \in Tasks : kk.state[u] = "RUNNING" => u = kk.current
  BY <1>9, <1>10, <1>11
<1>18. \A u \in R : kk.priority[kk.current] <= kk.priority[u]
  BY <1>4, <1>11
<1> QED
  BY <1>1, <1>4, <1>10, <1>11, <1>12, <1>13, <1>15, <1>16, <1>17, <1>18 DEF kk

\* The fields os_task_add_to_blocked assigns that are not part of a list.
LEMMA AddToBlockedFields ==
    ASSUME NEW k \in KernelRecord, NEW t \in Tasks, NEW ticks
    PROVE  LET k2 == AddToBlocked(k, t, ticks)
           IN  /\ k2.state = [k.state EXCEPT ![t] = "BLOCKED"]
               /\ k2.priority = k.priority
               /\ k2.deferred = k.deferred /\ k2.current = k.current
<1> DEFINE r == RemoveFromReady(k, t)
           k2 == AddToBlocked(k, t, ticks)
<1>1. /\ r \in KernelRecord /\ r.state = k.state /\ r.priority = k.priority
      /\ r.deferred = k.deferred /\ r.current = k.current
  BY RemoveFromReadyFields
<1>2. k2 = [r EXCEPT !.state[t] = "BLOCKED", !.delay[t] = ticks,
                     !.next[t] = r.blocked, !.prev = Store(@, r.blocked, t),
                     !.blocked = t]
  BY DEF AddToBlocked
<1> HIDE DEF r, k2
<1>3. k2.state = [k.state EXCEPT ![t] = "BLOCKED"]
  BY <1>1, <1>2 DEF KernelRecord
<1>4. k2.priority = k.priority /\ k2.deferred = k.deferred /\ k2.current = k.current
  BY <1>1, <1>2 DEF KernelRecord
<1> QED
  BY <1>3, <1>4 DEF k2

\* os_task_add_to_blocked of a ready task moves it from its ready list to the
\* blocked list.
LEMMA AddToBlockedLists ==
    ASSUME NEW k \in KernelRecord, NEW R, NEW B, NEW D, NEW h,
           ListsOK(k, R, B, D, h), NEW t \in R, NEW ticks,
           NEW k2, k2 = AddToBlocked(k, t, ticks)
    PROVE  /\ ticks \in Nat => k2 \in KernelRecord
           /\ ListsOK(k2, R \ {t}, B \cup {t}, D, h)
<1> DEFINE r == RemoveFromReady(k, t)
<1>1. t \in Tasks /\ t \notin (R \ {t}) \cup B \cup D
  BY DEF ListsOK
<1>2. /\ r \in KernelRecord /\ r.state = k.state /\ r.priority = k.priority
      /\ r.deferred = k.deferred /\ r.current = k.current
  BY <1>1, RemoveFromReadyFields
<1>3. ListsOK(r, R \ {t}, B, D, h) /\ r.prev[t] = NULL
  BY RemoveFromReadyLists
<1>4. k2 = [r EXCEPT !.state[t] = "BLOCKED", !.delay[t] = ticks,
                     !.next[t] = r.blocked, !.prev = Store(@, r.blocked, t),
                     !.blocked = t]
  BY DEF AddToBlocked
<1> HIDE DEF r
<1>5. /\ k2.state = [r.state EXCEPT ![t] = "BLOCKED"]
      /\ k2.delay = [r.delay EXCEPT ![t] = ticks]
      /\ k2.next = [r.next EXCEPT ![t] = r.blocked]
      /\ k2.prev = Store(r.prev, r.blocked, t) /\ k2.blocked = t
  BY <1>2, <1>4 DEF KernelRecord
<1>6. /\ k2.head = r.head /\ k2.tail = r.tail /\ k2.count = r.count
      /\ k2.bitmap = r.bitmap /\ k2.priority = r.priority
      /\ k2.deferred = r.deferred /\ k2.current = r.current
  BY <1>2, <1>4 DEF KernelRecord
<1>7. ListsOK(k2, R \ {t}, B \cup {t}, D, h)
  BY <1>1, <1>2, <1>3, <1>5, <1>6, PushBlockedLists
<1>8. ASSUME ticks \in Nat PROVE k2 \in KernelRecord
  <2>1. t \in Pointers /\ r.blocked \in Pointers /\ "BLOCKED" \in TaskStates
    BY <1>1, <1>2 DEF Pointers, TaskStates, KernelRecord
  <2>2. Store(r.prev, r.blocked, t) \in [Tasks -> Pointers]
    BY <1>2, <2>1 DEF Store, KernelRecord, Pointers
  <2>3. /\ k2.state \in [Tasks -> TaskStates] /\ k2.delay \in [Tasks -> Nat]
        /\ k2.next \in [Tasks -> Pointers] /\ k2.prev \in [Tasks -> Pointers]
        /\ k2.blocked \in Pointers
    BY <1>1, <1>2, <1>5, <1>8, <2>1, <2>2 DEF KernelRecord
  <2> QED
    BY <1>2, <1>4, <1>6, <2>3 DEF KernelRecord
<1> QED
  BY <1>7, <1>8

\* Self-deletion moves a ready task to the deferred delete list.
LEMMA DeferDeleteLists ==
    ASSUME NEW k \in KernelRecord, NEW R, NEW B, NEW D,
           ListsOK(k, R, B, D, k.deferred), NEW t \in R
    PROVE  LET k2 == DeferDelete(k, t)
           IN  /\ k2 \in KernelRecord
               /\ ListsOK(k2, R \ {t}, B, D \cup {t}, t)
               /\ k2.state = [k.state EXCEPT ![t] = "DELETED"]
               /\ k2.priority = k.priority
               /\ k2.deferred = t /\ k2.current = k.current
<1> DEFINE r == RemoveFromReady(k, t)
           k2 == DeferDelete(k, t)
<1>1. t \in Tasks /\ t \notin (R \ {t}) \cup B \cup D
  BY DEF ListsOK
<1>2. /\ r \in KernelRecord /\ r.state = k.state /\ r.priority = k.priority
      /\ r.deferred = k.deferred /\ r.current = k.current
  BY <1>1, RemoveFromReadyFields
<1>3. ListsOK(r, R \ {t}, B, D, k.deferred)
  BY RemoveFromReadyLists
<1>4. k2 = [r EXCEPT !.state[t] = "DELETED", !.next[t] = r.deferred, !.deferred = t]
  BY DEF DeferDelete
<1> HIDE DEF r, k2
<1>5. /\ k2.state = [r.state EXCEPT ![t] = "DELETED"]
      /\ k2.next = [r.next EXCEPT ![t] = k.deferred]
      /\ k2.deferred = t /\ k2.prev = r.prev /\ k2.blocked = r.blocked
  BY <1>2, <1>4 DEF KernelRecord
<1>6. /\ k2.head = r.head /\ k2.tail = r.tail /\ k2.count = r.count
      /\ k2.bitmap = r.bitmap /\ k2.priority = r.priority /\ k2.current = r.current
  BY <1>2, <1>4 DEF KernelRecord
<1>7. ListsOK(k2, R \ {t}, B, D \cup {t}, t)
  BY <1>1, <1>2, <1>3, <1>5, <1>6, PushDeferredLists
<1>8. k2 \in KernelRecord
  <2>1. t \in Pointers /\ k.deferred \in Pointers /\ "DELETED" \in TaskStates
    BY <1>1 DEF Pointers, TaskStates, KernelRecord
  <2>2. /\ k2.state \in [Tasks -> TaskStates] /\ k2.next \in [Tasks -> Pointers]
        /\ k2.deferred \in Pointers
    BY <1>1, <1>2, <1>5, <2>1 DEF KernelRecord
  <2> QED
    BY <1>2, <1>4, <1>6, <2>2 DEF KernelRecord
<1> QED
  BY <1>2, <1>5, <1>6, <1>7, <1>8 DEF k2
=============================================================================
