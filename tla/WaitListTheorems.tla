-------------------------- MODULE WaitListTheorems --------------------------
(***************************************************************************)
(* What prv_block_task and prv_unblock_task do to a wait list: which tasks *)
(* it then holds, that each is in it once, and that it stays ordered.      *)
(***************************************************************************)
EXTENDS WaitLists, FiniteSetTheorems, SequenceTheorems, WellFoundedInduction, TLAPS

Distinct(list) ==
    \A i, j \in 1 .. Len(list) : list[i] = list[j] => i = j

ByPriority(list) ==
    \A i, j \in 1 .. Len(list) : i < j => priority[list[i]] <= priority[list[j]]

Takers == Tasks \ {Idle}

-----------------------------------------------------------------------------
\* Sequences.

PutAfter(list, n, t) ==
    SubSeq(list, 1, n) \o <<t>> \o SubSeq(list, n + 1, Len(list))

\* Element by element, a sequence with t put in after the first n.
LEMMA InsertAt ==
    ASSUME NEW S, NEW list \in Seq(S), NEW t \in S, NEW n \in 0 .. Len(list)
    PROVE  /\ PutAfter(list, n, t) \in Seq(S)
           /\ Len(PutAfter(list, n, t)) = Len(list) + 1
           /\ \A i \in 1 .. Len(list) + 1 :
                 PutAfter(list, n, t)[i] =
                     IF i <= n THEN list[i] ELSE IF i = n + 1 THEN t ELSE list[i - 1]
<1> DEFINE l == SubSeq(list, 1, n)
           r == SubSeq(list, n + 1, Len(list))
           m == l \o <<t>>
           new == m \o r
<1>1. /\ l \in Seq(S) /\ Len(l) = n
      /\ \A i \in 1 .. n : l[i] = list[i]
  OBVIOUS
<1>2. /\ r \in Seq(S) /\ Len(r) = Len(list) - n
      /\ \A i \in 1 .. (Len(list) - n) : r[i] = list[n + i]
  OBVIOUS
<1> HIDE DEF l, r
<1>3. /\ m \in Seq(S) /\ Len(m) = n + 1 /\ m[n + 1] = t
      /\ \A i \in 1 .. n : m[i] = list[i]
  BY <1>1
<1> HIDE DEF m
<1>4. /\ new \in Seq(S) /\ Len(new) = Len(m) + Len(r)
      /\ \A i \in 1 .. Len(m) + Len(r) :
            new[i] = IF i <= Len(m) THEN m[i] ELSE r[i - Len(m)]
  BY <1>2, <1>3, ConcatProperties
<1>5. Len(list) \in Nat /\ Len(new) = Len(list) + 1
  BY <1>2, <1>3, <1>4
<1> HIDE DEF new
<1>6. ASSUME NEW i \in 1 .. Len(list) + 1
      PROVE  new[i] = IF i <= n THEN list[i]
                      ELSE IF i = n + 1 THEN t ELSE list[i - 1]
  <2>1. new[i] = IF i <= n + 1 THEN m[i] ELSE r[i - (n + 1)]
    BY <1>2, <1>3, <1>4, <1>5
  <2>2. CASE i <= n
    BY <1>3, <1>5, <2>1, <2>2
  <2>3. CASE i = n + 1
    BY <1>3, <1>5, <2>1, <2>3
  <2>4. CASE i > n + 1
    <3>1. i - (n + 1) \in 1 .. (Len(list) - n) /\ n + (i - (n + 1)) = i - 1
      BY <1>5, <2>4
    <3> QED
      BY <1>2, <1>5, <2>1, <2>4, <3>1
  <2> QED
    BY <1>5, <2>2, <2>3, <2>4
<1> QED
  BY <1>4, <1>5, <1>6 DEF PutAfter, new, m, l, r

LEMMA Minimum ==
    ASSUME NEW S, S \subseteq Nat, S # {}
    PROVE  \E x \in S : \A y \in S : x <= y
<1>1. PICK x \in S : \A y \in S : ~(<<y, x>> \in OpToRel(<, Nat))
  BY WFMin, NatLessThanWellFounded
<1>2. ASSUME NEW y \in S PROVE x <= y
  <2>1. ~(y < x)
    BY <1>1 DEF OpToRel
  <2> QED
    BY <2>1
<1> QED
  BY <1>2

\* prv_block_task puts the task before the first one of lower priority.
LEMMA InsertedPlace ==
    ASSUME priority \in [Tasks -> Priorities],
           NEW list \in Seq(Takers), NEW t \in Takers
    PROVE  \E n \in 0 .. Len(list) :
              /\ Inserted(list, t) = PutAfter(list, n, t)
              /\ \A i \in 1 .. n : priority[list[i]] <= priority[t]
              /\ n < Len(list) => priority[t] < priority[list[n + 1]]
<1> DEFINE after == {i \in 1 .. Len(list) : priority[t] < priority[list[i]]}
           n == IF after = {} THEN Len(list)
                ELSE (CHOOSE i \in after : \A j \in after : i <= j) - 1
<1>1. /\ Len(list) \in Nat
      /\ \A i \in 1 .. Len(list) : list[i] \in Takers /\ priority[list[i]] \in Int
      /\ priority[t] \in Int
  BY DEF Takers, Priorities
<1>2. /\ n \in 0 .. Len(list)
      /\ \A i \in 1 .. n : priority[list[i]] <= priority[t]
      /\ n < Len(list) => priority[t] < priority[list[n + 1]]
  <2>1. CASE after = {}
    <3>1. n = Len(list)
      BY <2>1
    <3>2. \A i \in 1 .. Len(list) : priority[list[i]] <= priority[t]
      BY <1>1, <2>1
    <3> HIDE DEF n
    <3> QED
      BY <1>1, <3>1, <3>2
  <2>2. CASE after # {}
    <3>1. after \subseteq Nat
      OBVIOUS
    <3>2. \E i \in after : \A j \in after : i <= j
      BY <2>2, <3>1, Minimum
    <3> DEFINE first == CHOOSE i \in after : \A j \in after : i <= j
    <3>3. first \in after /\ \A j \in after : first <= j
      BY <3>2
    <3>4. n = first - 1
      BY <2>2
    <3> HIDE DEF first, n
    <3>5. /\ first \in 1 .. Len(list) /\ priority[t] < priority[list[first]]
          /\ \A j \in 1 .. Len(list) : j < first => ~(priority[t] < priority[list[j]])
      BY <1>1, <3>3
    <3> QED
      BY <1>1, <3>4, <3>5
  <2> QED
    BY <2>1, <2>2
<1>3. Inserted(list, t) = PutAfter(list, n, t)
  BY DEF Inserted, PutAfter
<1> HIDE DEF n
<1> QED
  BY <1>2, <1>3

\* The new list has the task once more, and is as ordered as the old one.
LEMMA InsertedIs ==
    ASSUME priority \in [Tasks -> Priorities],
           NEW list \in Seq(Takers), NEW t \in Takers,
           Distinct(list), ByPriority(list), t \notin Elements(list)
    PROVE  /\ Inserted(list, t) \in Seq(Takers)
           /\ Elements(Inserted(list, t)) = Elements(list) \cup {t}
           /\ Distinct(Inserted(list, t))
           /\ ByPriority(Inserted(list, t))
<1> DEFINE new == Inserted(list, t)
<1>1. /\ Len(list) \in Nat
      /\ \A i \in 1 .. Len(list) : list[i] \in Takers /\ priority[list[i]] \in Int
      /\ priority[t] \in Int
  BY DEF Takers, Priorities
<1>2. PICK n \in 0 .. Len(list) :
          /\ new = PutAfter(list, n, t)
          /\ \A i \in 1 .. n : priority[list[i]] <= priority[t]
          /\ n < Len(list) => priority[t] < priority[list[n + 1]]
  BY InsertedPlace
<1>3. new = PutAfter(list, n, t)
  BY <1>2
<1> HIDE DEF new
<1>4. /\ new \in Seq(Takers)
      /\ Len(new) = Len(list) + 1
      /\ \A i \in 1 .. Len(list) + 1 :
            new[i] = IF i <= n THEN list[i] ELSE IF i = n + 1 THEN t ELSE list[i - 1]
  <2>1. n \in 0 .. Len(list)
    BY <1>2
  <2>2. /\ PutAfter(list, n, t) \in Seq(Takers)
        /\ Len(PutAfter(list, n, t)) = Len(list) + 1
        /\ \A i \in 1 .. Len(list) + 1 :
              PutAfter(list, n, t)[i] =
                  IF i <= n THEN list[i] ELSE IF i = n + 1 THEN t ELSE list[i - 1]
    BY <2>1, InsertAt
  <2> QED
    BY <1>3, <2>2
<1>5. Elements(new) = Elements(list) \cup {t}
  <2>1. ASSUME NEW i \in 1 .. Len(new) PROVE new[i] \in Elements(list) \cup {t}
    <3>1. CASE i <= n
      <4>1. new[i] = list[i] /\ i \in 1 .. Len(list)
        BY <1>1, <1>2, <1>4, <3>1
      <4> QED
        BY <4>1 DEF Elements
    <3>2. CASE i = n + 1
      BY <1>1, <1>2, <1>4, <3>2
    <3>3. CASE i > n + 1
      <4>1. new[i] = list[i - 1] /\ i - 1 \in 1 .. Len(list)
        BY <1>1, <1>2, <1>4, <3>3
      <4> QED
        BY <4>1 DEF Elements
    <3> QED
      BY <1>1, <1>2, <1>4, <3>1, <3>2, <3>3
  <2>2. t \in Elements(new)
    <3>1. n + 1 \in 1 .. Len(new) /\ new[n + 1] = t
      BY <1>1, <1>2, <1>4
    <3> QED
      BY <3>1 DEF Elements
  <2>3. ASSUME NEW i \in 1 .. Len(list) PROVE list[i] \in Elements(new)
    <3>1. CASE i <= n
      <4>1. i \in 1 .. Len(new) /\ new[i] = list[i]
        BY <1>1, <1>2, <1>4, <3>1
      <4> QED
        BY <4>1 DEF Elements
    <3>2. CASE i > n
      <4>1. i + 1 \in 1 .. Len(new) /\ new[i + 1] = list[i]
        BY <1>1, <1>2, <1>4, <3>2
      <4> QED
        BY <4>1 DEF Elements
    <3> QED
      BY <1>2, <3>1, <3>2
  <2> QED
    BY <2>1, <2>2, <2>3 DEF Elements
<1>6. \A i \in 1 .. Len(list) : list[i] # t
  BY DEF Elements
<1>7. Distinct(new)
  <2> DEFINE old(i) == IF i <= n THEN i ELSE i - 1
  <2>1. \A i \in 1 .. Len(new) :
            i # n + 1 => old(i) \in 1 .. Len(list) /\ new[i] = list[old(i)]
    <3>1. n \in 0 .. Len(list) /\ Len(list) \in Nat
      BY <1>1
    <3> QED
      BY <3>1, <1>4
  <2>2. new[n + 1] = t /\ n + 1 \in 1 .. Len(new)
    BY <1>1, <1>2, <1>4
  <2>3. \A i, j \in 1 .. Len(new) :
            i # n + 1 /\ j # n + 1 /\ old(i) = old(j) => i = j
    BY <1>1, <1>2, <1>4
  <2> HIDE DEF old
  <2>4. \A i, j \in 1 .. Len(new) :
            i # n + 1 /\ j # n + 1 /\ new[i] = new[j] => i = j
    BY <2>1, <2>3 DEF Distinct
  <2>5. \A i \in 1 .. Len(new) : i # n + 1 => new[i] # t
    BY <1>6, <2>1
  <2> QED
    BY <2>2, <2>4, <2>5 DEF Distinct
<1>8. ByPriority(new)
  <2> SUFFICES ASSUME NEW i \in 1 .. Len(new), NEW j \in 1 .. Len(new), i < j
               PROVE  priority[new[i]] <= priority[new[j]]
    BY DEF ByPriority
  <2>1. \A x \in 1 .. Len(list) : n < x => priority[t] <= priority[list[x]]
    <3> SUFFICES ASSUME NEW x \in 1 .. Len(list), n < x
                 PROVE  priority[t] <= priority[list[x]]
      OBVIOUS
    <3>1. n + 1 \in 1 .. Len(list) /\ priority[t] < priority[list[n + 1]]
      BY <1>1, <1>2
    <3>2. priority[list[n + 1]] <= priority[list[x]]
      BY <1>1, <1>2, <3>1 DEF ByPriority
    <3> QED
      BY <1>1, <3>1, <3>2
  <2>2. CASE j <= n
    <3>1. /\ new[i] = list[i] /\ new[j] = list[j]
          /\ i \in 1 .. Len(list) /\ j \in 1 .. Len(list)
      BY <1>1, <1>2, <1>4, <2>2
    <3> QED
      BY <3>1 DEF ByPriority
  <2>3. CASE j = n + 1
    <3>1. new[j] = t
      BY <1>2, <1>4, <2>3
    <3>2. new[i] = list[i] /\ i \in 1 .. n
      BY <1>2, <1>4, <2>3
    <3>3. priority[list[i]] <= priority[t]
      BY <1>1, <1>2, <3>2
    <3> QED
      BY <3>1, <3>2, <3>3
  <2>4. CASE j > n + 1
    <3>1. new[j] = list[j - 1] /\ j - 1 \in 1 .. Len(list) /\ n < j - 1
      BY <1>1, <1>2, <1>4, <2>4
    <3>2. CASE i <= n
      <4>1. new[i] = list[i] /\ i \in 1 .. Len(list) /\ i < j - 1
        BY <1>1, <1>2, <1>4, <2>4, <3>2
      <4> QED
        BY <3>1, <4>1 DEF ByPriority
    <3>3. CASE i = n + 1
      <4>1. new[i] = t
        BY <1>2, <1>4, <3>3
      <4> QED
        BY <2>1, <3>1, <4>1
    <3>4. CASE i > n + 1
      <4>1. new[i] = list[i - 1] /\ i - 1 \in 1 .. Len(list) /\ i - 1 < j - 1
        BY <1>1, <1>2, <1>4, <3>4
      <4> QED
        BY <3>1, <4>1 DEF ByPriority
    <3> QED
      BY <1>2, <3>2, <3>3, <3>4
  <2> QED
    BY <1>2, <2>2, <2>3, <2>4
<1> QED
  BY <1>4, <1>5, <1>7, <1>8 DEF new

\* prv_unblock_task of the first task.
LEMMA TailIs ==
    ASSUME priority \in [Tasks -> Priorities],
           NEW list \in Seq(Takers), list # << >>, Distinct(list), ByPriority(list)
    PROVE  /\ Tail(list) \in Seq(Takers)
           /\ Head(list) \in Elements(list)
           /\ Elements(Tail(list)) = Elements(list) \ {Head(list)}
           /\ Distinct(Tail(list))
           /\ ByPriority(Tail(list))
<1>1. /\ Len(list) \in Nat /\ 1 \in 1 .. Len(list) /\ Head(list) = list[1]
      /\ Tail(list) \in Seq(Takers) /\ Len(Tail(list)) = Len(list) - 1
      /\ \A i \in 1 .. (Len(list) - 1) : Tail(list)[i] = list[i + 1]
  OBVIOUS
<1>2. \A i \in 1 .. (Len(list) - 1) : i + 1 \in 1 .. Len(list) /\ list[i + 1] # list[1]
  BY <1>1 DEF Distinct
<1>3. \A u \in Elements(list) \ {Head(list)} : u \in Elements(Tail(list))
  <2> SUFFICES ASSUME NEW i \in 1 .. Len(list), list[i] # list[1]
               PROVE  list[i] \in Elements(Tail(list))
    BY <1>1 DEF Elements
  <2>1. i - 1 \in 1 .. (Len(list) - 1) /\ (i - 1) + 1 = i
    BY <1>1
  <2> QED
    BY <1>1, <2>1 DEF Elements
<1>4. Elements(Tail(list)) = Elements(list) \ {Head(list)}
  BY <1>1, <1>2, <1>3 DEF Elements
<1>5. Distinct(Tail(list))
  BY <1>1, <1>2 DEF Distinct
<1>6. ByPriority(Tail(list))
  BY <1>1, <1>2 DEF ByPriority
<1> QED
  BY <1>1, <1>4, <1>5, <1>6 DEF Elements

-----------------------------------------------------------------------------
\* Loops over a list, as functions of the number of tasks looked at.

Steps(n, X) == [1 .. n -> [X -> X]]

Results(n, X, x, step) ==
    {f \in [0 .. n -> X] : f[0] = x /\ \A i \in 1 .. n : f[i] = step[i][f[i - 1]]}

\* n steps, each from what the last one left, have a result after each of them.
LEMMA Iterates ==
    ASSUME NEW n \in Nat, NEW X, NEW x \in X, NEW step \in Steps(n, X)
    PROVE  Results(n, X, x, step) # {}
<1> DEFINE Runs(m) == \E f \in [0 .. m -> X] :
                          f[0] = x /\ \A i \in 1 .. m : f[i] = step[i][f[i - 1]]
           Bad == {m \in 0 .. n : ~Runs(m)}
<1>1. Runs(0)
  <2> DEFINE f == [i \in 0 .. 0 |-> x]
  <2>1. f \in [0 .. 0 -> X] /\ f[0] = x
    OBVIOUS
  <2>2. \A i \in 1 .. 0 : f[i] = step[i][f[i - 1]]
    OBVIOUS
  <2> HIDE DEF f
  <2> QED
    BY <2>1, <2>2
<1>2. ASSUME NEW m \in 1 .. n, Runs(m - 1) PROVE Runs(m)
  <2>1. PICK f \in [0 .. (m - 1) -> X] :
            f[0] = x /\ \A i \in 1 .. (m - 1) : f[i] = step[i][f[i - 1]]
    BY <1>2
  <2> DEFINE g == [i \in 0 .. m |-> IF i = m THEN step[m][f[m - 1]] ELSE f[i]]
  <2>2. step[m][f[m - 1]] \in X
    BY DEF Steps
  <2>3. g \in [0 .. m -> X]
    BY <2>2
  <2>4. g[0] = x /\ \A i \in 1 .. m : g[i] = step[i][g[i - 1]]
    BY <2>1
  <2> QED
    BY <2>3, <2>4
<1>3. Bad = {}
  <2> SUFFICES ASSUME Bad # {} PROVE FALSE
    OBVIOUS
  <2> HIDE DEF Runs
  <2>1. Bad \subseteq Nat
    OBVIOUS
  <2>2. PICK m \in Bad : \A y \in Bad : m <= y
    BY <2>1, Minimum
  <2>3. m # 0 /\ m \in 1 .. n /\ m - 1 \in 0 .. n /\ ~(m - 1 \in Bad)
    BY <1>1, <2>2
  <2> QED
    BY <1>2, <2>2, <2>3
<1>4. Runs(n)
  <2> HIDE DEF Runs
  <2> QED
    BY <1>3
<1> QED
  BY <1>4 DEF Results

\* prv_unblock_task of all the tasks in a set.
LEMMA WithoutIs ==
    ASSUME priority \in [Tasks -> Priorities],
           NEW list \in Seq(Takers), NEW gone, Distinct(list), ByPriority(list)
    PROVE  /\ Without(list, gone) \in Seq(Takers)
           /\ Elements(Without(list, gone)) = Elements(list) \ gone
           /\ Distinct(Without(list, gone))
           /\ ByPriority(Without(list, gone))
<1> DEFINE n == Len(list)
           Kept == CHOOSE kept : kept =
                       [i \in 0 .. n |-> IF i = 0 THEN << >>
                                         ELSE IF list[i] \in gone THEN kept[i - 1]
                                         ELSE Append(kept[i - 1], list[i])]
           step == [i \in 1 .. n |-> [s \in Seq(Takers) |->
                       IF list[i] \in gone THEN s ELSE Append(s, list[i])]]
<1>1. Without(list, gone) = Kept[n]
  BY DEF Without
<1>2. n \in Nat /\ \A i \in 1 .. n : list[i] \in Takers /\ priority[list[i]] \in Int
  BY DEF Takers, Priorities
<1>3. step \in Steps(n, Seq(Takers))
  BY <1>2 DEF Steps
<1>4. PICK f \in [0 .. n -> Seq(Takers)] :
          f[0] = << >> /\ \A i \in 1 .. n : f[i] = step[i][f[i - 1]]
  <2> DEFINE X == Seq(Takers)
             x == << >>
  <2>1. x \in X /\ n \in Nat /\ step \in Steps(n, X)
    BY <1>2, <1>3
  <2> HIDE DEF step, n, X, x
  <2>2. Results(n, X, x, step) # {}
    BY <2>1, Iterates
  <2> QED
    BY <2>2 DEF Results, X, x
<1>5. \A i \in 1 .. n :
          f[i] = IF list[i] \in gone THEN f[i - 1] ELSE Append(f[i - 1], list[i])
  <2> SUFFICES ASSUME NEW i \in 1 .. n
               PROVE  f[i] = IF list[i] \in gone THEN f[i - 1]
                             ELSE Append(f[i - 1], list[i])
    OBVIOUS
  <2>1. f[i - 1] \in Seq(Takers)
    BY <1>2
  <2>2. f[i] = step[i][f[i - 1]]
    BY <1>4
  <2>3. \A s \in Seq(Takers) :
            step[i][s] = IF list[i] \in gone THEN s ELSE Append(s, list[i])
    OBVIOUS
  <2> HIDE DEF step
  <2> QED
    BY <2>1, <2>2, <2>3
<1>6. f = [i \in 0 .. n |-> IF i = 0 THEN << >>
                            ELSE IF list[i] \in gone THEN f[i - 1]
                            ELSE Append(f[i - 1], list[i])]
  <2>1. \A i \in 0 .. n : f[i] = IF i = 0 THEN << >>
                                 ELSE IF list[i] \in gone THEN f[i - 1]
                                 ELSE Append(f[i - 1], list[i])
    <3> SUFFICES ASSUME NEW i \in 0 .. n
                 PROVE  f[i] = IF i = 0 THEN << >>
                               ELSE IF list[i] \in gone THEN f[i - 1]
                               ELSE Append(f[i - 1], list[i])
      OBVIOUS
    <3>1. i # 0 => i \in 1 .. n
      BY <1>2
    <3> QED
      BY <1>4, <1>5, <3>1
  <2> HIDE DEF n
  <2> QED
    BY <2>1
<1>7. Kept = [i \in 0 .. n |-> IF i = 0 THEN << >>
                               ELSE IF list[i] \in gone THEN Kept[i - 1]
                               ELSE Append(Kept[i - 1], list[i])]
  BY <1>6
<1> HIDE DEF Kept, n, step
<1>8. /\ Kept[0] = << >>
      /\ \A i \in 1 .. n :
            Kept[i] = IF list[i] \in gone THEN Kept[i - 1] ELSE Append(Kept[i - 1], list[i])
  <2>1. \A i \in 0 .. n : Kept[i] = IF i = 0 THEN << >>
                                    ELSE IF list[i] \in gone THEN Kept[i - 1]
                                    ELSE Append(Kept[i - 1], list[i])
    BY <1>7, Zenon
  <2> QED
    BY <1>2, <2>1
<1> DEFINE First(i) == {list[j] : j \in 1 .. i}
           Good(i) == /\ Kept[i] \in Seq(Takers)
                      /\ Elements(Kept[i]) = First(i) \ gone
                      /\ Distinct(Kept[i])
                      /\ ByPriority(Kept[i])
           Bad == {i \in 0 .. n : ~Good(i)}
<1>9. Good(0)
  <2>1. Kept[0] \in Seq(Takers) /\ Len(Kept[0]) = 0
    BY <1>8
  <2>2. Elements(Kept[0]) = {} /\ First(0) = {}
    BY <2>1 DEF Elements
  <2> QED
    BY <2>1, <2>2 DEF Distinct, ByPriority
<1>10. ASSUME NEW i \in 1 .. n, Good(i - 1) PROVE Good(i)
  <2> DEFINE s == Kept[i - 1]
             u == list[i]
  <2>1. First(i) = First(i - 1) \cup {u}
    BY <1>2
  <2>2. u \in Takers /\ priority[u] \in Int
    BY <1>2
  <2>3. /\ s \in Seq(Takers) /\ Elements(s) = First(i - 1) \ gone
        /\ Distinct(s) /\ ByPriority(s)
    BY <1>10
  <2>4. CASE u \in gone
    <3>1. Kept[i] = s
      BY <1>8, <2>4
    <3> QED
      BY <2>1, <2>3, <2>4, <3>1
  <2>5. CASE u \notin gone
    <3> DEFINE new == Append(s, u)
    <3>1. Kept[i] = new
      BY <1>8, <2>5
    <3>2. u \notin First(i - 1) /\ \A v \in First(i - 1) : priority[v] <= priority[u]
      <4>1. \A j \in 1 .. (i - 1) : list[j] # u /\ priority[list[j]] <= priority[u]
        BY <1>2 DEF Distinct, ByPriority, n
      <4> QED
        BY <4>1
    <3> HIDE DEF First, s, u
    <3>3. /\ new \in Seq(Takers) /\ Len(new) = Len(s) + 1 /\ new[Len(s) + 1] = u
          /\ \A j \in 1 .. Len(s) : new[j] = s[j] /\ s[j] \in Elements(s)
          /\ Len(s) \in Nat
      BY <2>2, <2>3 DEF Elements
    <3> HIDE DEF new
    <3>4. Elements(new) = Elements(s) \cup {u}
      <4>1. ASSUME NEW j \in 1 .. Len(new) PROVE new[j] \in Elements(s) \cup {u}
        BY <3>3
      <4>2. u \in Elements(new)
        BY <3>3 DEF Elements
      <4>3. ASSUME NEW j \in 1 .. Len(s) PROVE s[j] \in Elements(new)
        <5>1. j \in 1 .. Len(new) /\ new[j] = s[j]
          BY <3>3
        <5> QED
          BY <5>1 DEF Elements
      <4> QED
        BY <4>1, <4>2, <4>3 DEF Elements
    <3>5. Distinct(new)
      BY <2>3, <3>2, <3>3 DEF Distinct
    <3>6. ByPriority(new)
      <4> SUFFICES ASSUME NEW a \in 1 .. Len(new), NEW b \in 1 .. Len(new), a < b
                   PROVE  priority[new[a]] <= priority[new[b]]
        BY DEF ByPriority
      <4>1. a \in 1 .. Len(s)
        BY <3>3
      <4>2. CASE b = Len(s) + 1
        BY <2>3, <3>2, <3>3, <4>1, <4>2
      <4>3. CASE b # Len(s) + 1
        <5>1. b \in 1 .. Len(s)
          BY <3>3, <4>3
        <5> QED
          BY <2>3, <3>3, <4>1, <5>1 DEF ByPriority
      <4> QED
        BY <4>2, <4>3
    <3> QED
      BY <2>1, <2>3, <2>5, <3>1, <3>3, <3>4, <3>5, <3>6
  <2> QED
    BY <2>4, <2>5
<1>11. Bad = {}
  <2> SUFFICES ASSUME Bad # {} PROVE FALSE
    OBVIOUS
  <2> HIDE DEF Good
  <2>1. Bad \subseteq Nat
    BY <1>2
  <2>2. PICK m \in Bad : \A y \in Bad : m <= y
    BY <2>1, Minimum
  <2>3. m # 0 /\ m \in 1 .. n /\ m - 1 \in 0 .. n /\ ~(m - 1 \in Bad)
    BY <1>2, <1>9, <2>2
  <2> QED
    BY <1>10, <2>2, <2>3
<1>12. Good(n)
  <2> HIDE DEF Good
  <2> QED
    BY <1>2, <1>11
<1>13. First(n) = Elements(list)
  BY DEF Elements, n
<1> QED
  BY <1>1, <1>12, <1>13
=============================================================================
