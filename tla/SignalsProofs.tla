---------------------------- MODULE SignalsProofs ----------------------------
(***************************************************************************)
(* Proofs about Signals: what the walk over the wait list of an event      *)
(* group does, and that tasks which use event groups, notifications and    *)
(* delays together lose no wake-up.                                        *)
(***************************************************************************)
EXTENDS Signals, WaitListTheorems

-----------------------------------------------------------------------------
\* The walk of os_eventgroup_set_bits.

\* The bits after each waiter, from b on.
After(b) ==
    CHOOSE after : after =
        [i \in 0 .. Len(wait_list) |->
            IF i = 0 THEN b
            ELSE LET w == want[wait_list[i]]
                 IN  IF Met(after[i - 1], w) THEN Left(after[i - 1], w)
                     ELSE after[i - 1]]

Place(t) == CHOOSE i \in 1 .. Len(wait_list) : wait_list[i] = t

\* What a waiter with the request w leaves of the bits b.
Passed(b, w) == IF Met(b, w) THEN Left(b, w) ELSE b

LEMMA WalkIs ==
    ASSUME NEW b
    PROVE  /\ Walk(b).bits = After(b)[Len(wait_list)]
           /\ Walk(b).woken = {t \in Waiting : Met(After(b)[Place(t) - 1], want[t])}
           /\ \A t \in Tasks : t \in Waiting => Walk(b).seen[t] = After(b)[Place(t) - 1]
<1>1. Walk(b) = [bits  |-> After(b)[Len(wait_list)],
                 woken |-> {t \in Waiting : Met(After(b)[Place(t) - 1], want[t])},
                 seen  |-> [t \in Tasks |-> IF t \in Waiting
                                            THEN After(b)[Place(t) - 1] ELSE b]]
  BY DEF Walk, After, Place
<1> QED
  BY <1>1

LEMMA MetMonotone ==
    ASSUME NEW b, NEW c, c \subseteq b, NEW w, Met(c, w)
    PROVE  Met(b, w)
BY DEF Met

LEMMA PassedIs ==
    ASSUME NEW b \in SUBSET Bits, NEW w
    PROVE  Passed(b, w) \subseteq b /\ Passed(b, w) \in SUBSET Bits
BY DEF Passed, Left

LEMMA AfterIs ==
    ASSUME NEW b \in SUBSET Bits, wait_list \in Seq(Takers)
    PROVE  /\ Len(wait_list) \in Nat
           /\ After(b) \in [0 .. Len(wait_list) -> SUBSET Bits]
           /\ After(b)[0] = b
           /\ \A i \in 1 .. Len(wait_list) :
                 After(b)[i] = Passed(After(b)[i - 1], want[wait_list[i]])
<1> DEFINE n == Len(wait_list)
           X == SUBSET Bits
           W(i) == want[wait_list[i]]
           step == [i \in 1 .. n |-> [x \in X |-> Passed(x, W(i))]]
<1>1. n \in Nat
  OBVIOUS
<1>2. step \in Steps(n, X)
  BY PassedIs DEF Steps
<1>3. \A i \in 1 .. n, x \in X : step[i][x] = Passed(x, W(i))
  OBVIOUS
<1>4. b \in X
  OBVIOUS
<1>5. After(b) = CHOOSE f : f = [i \in 0 .. n |-> IF i = 0 THEN b ELSE Passed(f[i - 1], W(i))]
  BY DEF After, Passed
<1> HIDE DEF n, X, W, step
<1>6. Results(n, X, b, step) # {}
  BY <1>1, <1>2, <1>4, Iterates
<1>7. PICK f \in [0 .. n -> X] :
          f[0] = b /\ \A i \in 1 .. n : f[i] = step[i][f[i - 1]]
  BY <1>6 DEF Results
<1>8. \A i \in 0 .. n : f[i] = IF i = 0 THEN b ELSE Passed(f[i - 1], W(i))
  <2> SUFFICES ASSUME NEW i \in 0 .. n
               PROVE  f[i] = IF i = 0 THEN b ELSE Passed(f[i - 1], W(i))
    OBVIOUS
  <2>1. CASE i # 0
    <3>1. i \in 1 .. n /\ i - 1 \in 0 .. n
      BY <1>1, <2>1
    <3>2. f[i - 1] \in X
      BY <3>1
    <3> QED
      BY <1>3, <1>7, <2>1, <3>1, <3>2
  <2> QED
    BY <1>7, <2>1
<1>9. f = [i \in 0 .. n |-> IF i = 0 THEN b ELSE Passed(f[i - 1], W(i))]
  BY <1>8
<1>10. After(b) = [i \in 0 .. n |-> IF i = 0 THEN b ELSE Passed(After(b)[i - 1], W(i))]
  BY <1>5, <1>9
<1>11. \A i \in 0 .. n :
           After(b)[i] = IF i = 0 THEN b ELSE Passed(After(b)[i - 1], W(i))
  BY <1>10, Zenon
<1>12. /\ After(b)[0] = b
       /\ \A i \in 1 .. n : After(b)[i] = Passed(After(b)[i - 1], W(i))
  BY <1>1, <1>11
<1> DEFINE Bad == {i \in 0 .. n : After(b)[i] \notin X}
<1>13. Bad = {}
  <2> SUFFICES ASSUME Bad # {} PROVE FALSE
    OBVIOUS
  <2>1. Bad \subseteq Nat
    BY <1>1
  <2>2. PICK m \in Bad : \A y \in Bad : m <= y
    BY <2>1, Minimum
  <2>3. m # 0 /\ m \in 1 .. n /\ m - 1 \in 0 .. n /\ ~(m - 1 \in Bad)
    BY <1>1, <1>4, <1>12, <2>2
  <2>4. After(b)[m] = Passed(After(b)[m - 1], W(m)) /\ After(b)[m - 1] \in X
    BY <1>12, <2>3
  <2>5. After(b)[m] \in X
    BY <2>4, PassedIs DEF X
  <2> QED
    BY <2>2, <2>5
<1>14. After(b) \in [0 .. n -> X]
  <2>1. DOMAIN After(b) = 0 .. n
    BY <1>10
  <2>2. \A i \in 0 .. n : After(b)[i] \in X
    BY <1>13
  <2> QED
    BY <1>10, <2>2
<1> QED
  BY <1>1, <1>12, <1>14 DEF n, X, W

\* A waiter never gives bits back.
LEMMA AfterDescends ==
    ASSUME NEW b \in SUBSET Bits, wait_list \in Seq(Takers),
           NEW i \in 0 .. Len(wait_list), NEW j \in 0 .. Len(wait_list), i <= j
    PROVE  After(b)[j] \subseteq After(b)[i]
<1> DEFINE n == Len(wait_list)
           A == After(b)
           Bad == {m \in i .. n : ~(A[m] \subseteq A[i])}
<1>1. /\ n \in Nat /\ A \in [0 .. n -> SUBSET Bits]
      /\ \A m \in 1 .. n : A[m] = Passed(A[m - 1], want[wait_list[m]])
  BY AfterIs
<1> HIDE DEF n, A
<1>2. i \in 0 .. n /\ j \in i .. n
  BY <1>1 DEF n
<1>3. Bad = {}
  <2> SUFFICES ASSUME Bad # {} PROVE FALSE
    OBVIOUS
  <2>1. Bad \subseteq Nat
    BY <1>1, <1>2
  <2>2. PICK m \in Bad : \A y \in Bad : m <= y
    BY <2>1, Minimum
  <2>3. /\ m # i /\ m \in 1 .. n /\ m - 1 \in i .. n /\ ~(m - 1 \in Bad)
        /\ m - 1 \in 0 .. n
    BY <1>1, <1>2, <2>2
  <2>4. A[m - 1] \subseteq A[i] /\ A[m - 1] \in SUBSET Bits
    BY <1>1, <2>3
  <2>5. A[m] \subseteq A[m - 1]
    <3>1. A[m] = Passed(A[m - 1], want[wait_list[m]])
      BY <1>1, <2>3
    <3> QED
      BY <2>4, <3>1, PassedIs
  <2> QED
    BY <2>2, <2>4, <2>5
<1> QED
  BY <1>2, <1>3 DEF A

LEMMA PlaceIs ==
    ASSUME wait_list \in Seq(Takers), Distinct(wait_list)
    PROVE  /\ \A t \in Waiting : Place(t) \in 1 .. Len(wait_list) /\ wait_list[Place(t)] = t
           /\ \A i \in 1 .. Len(wait_list) : wait_list[i] \in Waiting /\ Place(wait_list[i]) = i
<1>1. \A t \in Waiting : Place(t) \in 1 .. Len(wait_list) /\ wait_list[Place(t)] = t
  <2> SUFFICES ASSUME NEW t \in Waiting
               PROVE  Place(t) \in 1 .. Len(wait_list) /\ wait_list[Place(t)] = t
    OBVIOUS
  <2>1. \E i \in 1 .. Len(wait_list) : wait_list[i] = t
    BY DEF Waiting, Elements
  <2> QED
    BY <2>1 DEF Place
<1>2. \A i \in 1 .. Len(wait_list) : wait_list[i] \in Waiting
  BY DEF Waiting, Elements
<1> QED
  BY <1>1, <1>2 DEF Distinct

\* Who is woken saw bits that met its wait; who is not, waits for bits that are not
\* there at the end; and what a waiter consumes no later one sees.
LEMMA WalkFacts ==
    ASSUME NEW b \in SUBSET Bits, wait_list \in Seq(Takers), Distinct(wait_list)
    PROVE  /\ Walk(b).bits \in SUBSET Bits
           /\ Walk(b).woken \subseteq Waiting
           /\ \A t \in Waiting : t \notin Walk(b).woken => ~Met(Walk(b).bits, want[t])
           /\ \A t \in Walk(b).woken : /\ Walk(b).seen[t] \in SUBSET Bits
                                       /\ Met(Walk(b).seen[t], want[t])
           /\ \A i, j \in 1 .. Len(wait_list) :
                 /\ i < j
                 /\ wait_list[i] \in Walk(b).woken
                 /\ wait_list[j] \in Walk(b).woken
                 /\ want[wait_list[i]].clear
                 => want[wait_list[i]].bits \cap Walk(b).seen[wait_list[j]] = {}
<1> DEFINE n == Len(wait_list)
           A == After(b)
           w == Walk(b)
<1>1. /\ n \in Nat /\ A \in [0 .. n -> SUBSET Bits]
      /\ \A i \in 1 .. n : A[i] = Passed(A[i - 1], want[wait_list[i]])
  BY AfterIs
<1>2. /\ w.bits = A[n]
      /\ w.woken = {t \in Waiting : Met(A[Place(t) - 1], want[t])}
      /\ \A t \in Tasks : t \in Waiting => w.seen[t] = A[Place(t) - 1]
  BY WalkIs
<1>3. /\ \A t \in Waiting : Place(t) \in 1 .. n /\ wait_list[Place(t)] = t
      /\ \A i \in 1 .. n : wait_list[i] \in Waiting /\ Place(wait_list[i]) = i
  BY PlaceIs
<1>4. \A t \in Waiting : t \in Tasks
  BY DEF Waiting, Elements, Takers
<1>5. \A i, j \in 0 .. n : i <= j => A[j] \subseteq A[i]
  BY AfterDescends
<1> HIDE DEF n, A, w
<1>6. w.bits \in SUBSET Bits /\ w.woken \subseteq Waiting
  <2>1. n \in 0 .. n
    BY <1>1
  <2> QED
    BY <1>1, <1>2, <2>1
<1>7. \A t \in Waiting : t \notin w.woken => ~Met(w.bits, want[t])
  <2> SUFFICES ASSUME NEW t \in Waiting, t \notin w.woken, Met(w.bits, want[t])
               PROVE  FALSE
    OBVIOUS
  <2>1. Place(t) - 1 \in 0 .. n /\ n \in 0 .. n /\ Place(t) - 1 <= n
    BY <1>1, <1>3
  <2>2. A[n] \subseteq A[Place(t) - 1]
    BY <1>5, <2>1
  <2>3. Met(A[Place(t) - 1], want[t])
    BY <1>2, <2>2, MetMonotone
  <2> QED
    BY <1>2, <2>3
<1>8. \A t \in w.woken : w.seen[t] \in SUBSET Bits /\ Met(w.seen[t], want[t])
  <2> SUFFICES ASSUME NEW t \in w.woken
               PROVE  w.seen[t] \in SUBSET Bits /\ Met(w.seen[t], want[t])
    OBVIOUS
  <2>1. t \in Waiting /\ t \in Tasks /\ Met(A[Place(t) - 1], want[t])
    BY <1>2, <1>4
  <2>2. Place(t) - 1 \in 0 .. n
    BY <1>1, <1>3, <2>1
  <2>3. A[Place(t) - 1] \in SUBSET Bits
    BY <1>1, <2>2
  <2> QED
    BY <1>2, <2>1, <2>3
<1>9. ASSUME NEW i \in 1 .. n, NEW j \in 1 .. n, i < j, wait_list[i] \in w.woken,
             wait_list[j] \in w.woken, want[wait_list[i]].clear
      PROVE  want[wait_list[i]].bits \cap w.seen[wait_list[j]] = {}
  <2> DEFINE v == want[wait_list[i]]
  <2>1. Met(A[i - 1], v)
    BY <1>2, <1>3, <1>9
  <2>2. A[i] = A[i - 1] \ v.bits
    <3>1. A[i] = Passed(A[i - 1], v)
      BY <1>1
    <3> QED
      BY <1>9, <2>1, <3>1 DEF Passed, Left
  <2>3. i \in 0 .. n /\ j - 1 \in 0 .. n /\ i <= j - 1
    BY <1>1, <1>9
  <2>4. A[j - 1] \subseteq A[i]
    BY <1>5, <2>3
  <2>5. w.seen[wait_list[j]] = A[j - 1]
    BY <1>2, <1>3, <1>4
  <2> QED
    BY <2>2, <2>4, <2>5
<1> QED
  BY <1>6, <1>7, <1>8, <1>9 DEF n, w

-----------------------------------------------------------------------------
\* The inductive invariant.

InWait == {"wait", "waited"}
InNotify == {"notify", "resumed"}
States == {"READY", "RUNNING", "BLOCKED"}

\* A task is about to do something other than yield.
Busy == {"run", "waited", "resumed", "collect", "compare"}

CallsTyped ==
    /\ pc \in [Tasks -> Labels]
    /\ delay \in [Tasks -> 0 .. MaxDelay]
    /\ blocked_reason \in [Tasks -> {"none", "event", "notify"}]
    /\ signalled \subseteq Tasks

\* The types, but for the progress of the tick.
Typed == DispatcherTypeOK /\ CallsTyped /\ EventGroupTypeOK /\ NotificationTypeOK

\* The tick never comes to a task that waits for events: those are not on its
\* list, and no task takes a step before it is done.
TickInv ==
    /\ ticking \subseteq Tasks /\ unlinked \in Tasks
    /\ \A t \in ticking : pc[t] \notin InWait
    /\ pc[unlinked] \notin InWait

\* The wait list is what NobodyOverlooked says; who is on it cannot be mistaken
\* for a task that waits for a notification.
EventInv ==
    /\ Distinct(wait_list)
    /\ ByPriority(wait_list)
    /\ Waiting = {t \in Tasks : pc[t] \in InWait /\ state[t] = "BLOCKED"}
    /\ \A t \in Waiting : ~Met(bits, want[t]) /\ blocked_reason[t] = "event"
    /\ ReturnsWhatWasMet

\* A task that executes, and is not about to yield, is RUNNING; the idle task is
\* never blocked.
RunInv ==
    /\ ~pendsv /\ pc[current] \in Busy => state[current] = "RUNNING"
    /\ state[Idle] # "BLOCKED"
    /\ pc[Idle] = "run"

\* A signalled task stays ready until it runs.  Until the executing task has
\* compared priorities, the task it has notified is the only signalled one that
\* may be of higher priority.
SignalInv ==
    /\ \A t \in signalled : state[t] = "READY"
    /\ ~pendsv /\ pc[current] \in Busy =>
          \A t \in signalled :
              \/ priority[current] <= priority[t]
              \/ pc[current] = "compare" /\ t = target[current]

Inv == Typed /\ EventInv /\ RunInv /\ SignalInv /\ NotificationKept

LEMMA Types ==
    ASSUME Inv
    PROVE  /\ state \in [Tasks -> States] /\ priority \in [Tasks -> Priorities]
           /\ current \in Tasks /\ pendsv \in BOOLEAN
           /\ pc \in [Tasks -> Labels] /\ delay \in [Tasks -> 0 .. MaxDelay]
           /\ blocked_reason \in [Tasks -> {"none", "event", "notify"}]
           /\ signalled \in SUBSET Tasks /\ bits \in SUBSET Bits
           /\ wait_list \in Seq(Takers) /\ want \in [Tasks -> Wants]
           /\ event_return_bits \in [Tasks -> SUBSET Bits]
           /\ notify_pending \in [Tasks -> BOOLEAN]
           /\ target \in [Tasks -> Tasks] /\ news \in [Tasks -> BOOLEAN]
           /\ Idle \in Tasks /\ MaxDelay \in Nat
BY DispatcherAssumption, DelayAssumption
   DEF Inv, Typed, DispatcherTypeOK, CallsTyped, EventGroupTypeOK, NotificationTypeOK,
       States, Takers

LEMMA TypesThen ==
    ASSUME /\ state' \in [Tasks -> States] /\ priority' \in [Tasks -> Priorities]
           /\ current' \in Tasks /\ pendsv' \in BOOLEAN,
           /\ pc' \in [Tasks -> Labels] /\ delay' \in [Tasks -> 0 .. MaxDelay]
           /\ blocked_reason' \in [Tasks -> {"none", "event", "notify"}]
           /\ signalled' \in SUBSET Tasks,
           /\ bits' \in SUBSET Bits
           /\ wait_list' \in Seq(Takers) /\ want' \in [Tasks -> Wants]
           /\ event_return_bits' \in [Tasks -> SUBSET Bits],
           /\ notify_pending' \in [Tasks -> BOOLEAN]
           /\ target' \in [Tasks -> Tasks] /\ news' \in [Tasks -> BOOLEAN]
    PROVE  Typed'
BY DEF Typed, DispatcherTypeOK, CallsTyped, EventGroupTypeOK, NotificationTypeOK,
       States, Takers

\* Nobody enters or leaves a wait for events, and no bit is set.
LEMMA EventFrame ==
    ASSUME Inv, UNCHANGED <<wait_list, want, event_return_bits, priority>>,
           bits' \subseteq bits,
           \A t \in Tasks : pc'[t] \in InWait <=> pc[t] \in InWait,
           \A t \in Tasks : pc[t] \in InWait =>
               /\ state'[t] = "BLOCKED" <=> state[t] = "BLOCKED"
               /\ state[t] = "BLOCKED" => blocked_reason'[t] = blocked_reason[t]
    PROVE  EventInv'
<1>1. Waiting' = Waiting
  BY DEF Waiting, Elements
<1>2. Distinct(wait_list)' /\ ByPriority(wait_list)'
  BY DEF Inv, EventInv, Distinct, ByPriority
<1>3. Waiting' = {t \in Tasks : pc'[t] \in InWait /\ state'[t] = "BLOCKED"}
  BY <1>1 DEF Inv, EventInv
<1>4. \A t \in Waiting : ~Met(bits', want[t]) /\ blocked_reason'[t] = "event"
  <2> SUFFICES ASSUME NEW t \in Waiting
               PROVE  ~Met(bits', want[t]) /\ blocked_reason'[t] = "event"
    OBVIOUS
  <2>1. /\ t \in Tasks /\ pc[t] \in InWait /\ state[t] = "BLOCKED"
        /\ ~Met(bits, want[t]) /\ blocked_reason[t] = "event"
    BY DEF Inv, EventInv
  <2> QED
    BY <2>1, MetMonotone
<1>5. ReturnsWhatWasMet'
  BY <1>1 DEF Inv, EventInv, ReturnsWhatWasMet, InWait
<1>6. \A t \in Waiting' : ~Met(bits, want[t])' /\ blocked_reason'[t] = "event"
  BY <1>1, <1>4
<1> QED
  BY <1>2, <1>3, <1>5, <1>6 DEF EventInv

\* Nobody enters a wait for a notification, and no notification comes.
LEMMA NotifyFrame ==
    ASSUME Inv, UNCHANGED <<notify_pending, news>>,
           \A t \in Tasks : pc'[t] = "collect" => pc[t] = "collect",
           \A t \in Tasks : pc'[t] \in InNotify /\ state'[t] = "BLOCKED" =>
               /\ pc[t] \in InNotify /\ state[t] = "BLOCKED"
               /\ blocked_reason'[t] = blocked_reason[t]
    PROVE  NotificationKept'
BY DEF Inv, NotificationKept, NotificationEndsWait, DeliveredOnce, InNotify

\* The executing task goes on; nothing else changes for the scheduler.
LEMMA GoesOn ==
    ASSUME Inv, UNCHANGED <<state, priority, current, pendsv, signalled>>,
           ~pendsv, current # Idle, pc[current] \in Busy, pc[current] # "compare",
           \A u \in Tasks : u # current => pc'[u] = pc[u]
    PROVE  RunInv' /\ SignalInv'
<1>1. Idle \in Tasks /\ signalled \in SUBSET Tasks
  BY Types
<1>2. state[current] = "RUNNING" /\ pc'[Idle] = "run" /\ state[Idle] # "BLOCKED"
  BY <1>1 DEF Inv, RunInv
<1>3. \A t \in signalled : priority[current] <= priority[t] /\ state[t] = "READY"
  BY DEF Inv, SignalInv
<1> QED
  BY <1>2, <1>3 DEF RunInv, SignalInv

LEMMA NothingMoves ==
    ASSUME Inv, UNCHANGED <<state, priority, current, pendsv, signalled, pc, target>>
    PROVE  RunInv' /\ SignalInv'
BY DEF Inv, RunInv, SignalInv

-----------------------------------------------------------------------------
\* Steps of event groups.

LEMMA WaitNowStep ==
    ASSUME Inv, UNCHANGED notification,
           \/ \E t \in Takers, w \in Requests : WaitNow(t, w)
           \/ \E b \in SUBSET Bits \ {{}} : Clear(b)
    PROVE  Inv'
<1>1. /\ bits' \subseteq bits
      /\ UNCHANGED <<state, priority, current, pendsv, pc, delay, blocked_reason,
                     signalled, wait_list, want, event_return_bits, notify_pending,
                     target, news>>
  BY DEF WaitNow, Clear, Left, dispatcher, calls, notification
<1>2. bits' \in SUBSET Bits
  BY <1>1, Types
<1>3. Typed'
  BY <1>1, <1>2
     DEF Inv, Typed, DispatcherTypeOK, CallsTyped, EventGroupTypeOK, NotificationTypeOK
<1>4. EventInv'
  BY <1>1, EventFrame
<1>5. NotificationKept'
  BY <1>1, NotifyFrame
<1>6. RunInv' /\ SignalInv'
  BY <1>1, NothingMoves
<1> QED
  BY <1>3, <1>4, <1>5, <1>6 DEF Inv

LEMMA WaitBlocksStep ==
    ASSUME Inv, UNCHANGED notification, NEW t \in Takers, NEW w \in Requests,
           WaitBlocks(t, w)
    PROVE  Inv'
<1>1. /\ t = current /\ ~pendsv /\ pc[t] = "run" /\ t # Idle /\ ~Met(bits, w)
      /\ state' = [state EXCEPT ![t] = "BLOCKED"]
      /\ wait_list' = Inserted(wait_list, t)
      /\ want' = [want EXCEPT ![t] = w]
      /\ event_return_bits' = [event_return_bits EXCEPT ![t] = {}]
      /\ blocked_reason' = [blocked_reason EXCEPT ![t] = "event"]
      /\ pc' = [pc EXCEPT ![t] = "wait"]
      /\ UNCHANGED <<priority, current, pendsv, delay, bits, signalled,
                     notify_pending, target, news>>
  BY DEF WaitBlocks, Calls, Runs, Executes, Block, Goto, notification
<1>2. /\ state \in [Tasks -> States] /\ priority \in [Tasks -> Priorities]
      /\ pc \in [Tasks -> Labels]
      /\ blocked_reason \in [Tasks -> {"none", "event", "notify"}]
      /\ wait_list \in Seq(Takers) /\ want \in [Tasks -> Wants]
      /\ event_return_bits \in [Tasks -> SUBSET Bits]
      /\ Idle \in Tasks /\ t \in Tasks /\ w \in Wants
  BY Types, RequestsAssumption DEF Takers
<1>3. t \notin Waiting /\ state[t] = "RUNNING"
  BY <1>1 DEF Inv, EventInv, InWait, RunInv, Busy
<1>4. /\ wait_list' \in Seq(Takers) /\ Elements(wait_list') = Waiting \cup {t}
      /\ Distinct(wait_list') /\ ByPriority(wait_list')
  <2>1. Distinct(wait_list) /\ ByPriority(wait_list) /\ t \notin Elements(wait_list)
    BY <1>3 DEF Inv, EventInv, Waiting
  <2>2. /\ Inserted(wait_list, t) \in Seq(Takers)
        /\ Elements(Inserted(wait_list, t)) = Elements(wait_list) \cup {t}
        /\ Distinct(Inserted(wait_list, t))
        /\ ByPriority(Inserted(wait_list, t))
    BY <1>2, <2>1, InsertedIs
  <2> QED
    BY <1>1, <2>2 DEF Waiting
<1>5. Waiting' = Waiting \cup {t}
  BY <1>4 DEF Waiting, Elements
<1>6. /\ pc'[t] = "wait" /\ state'[t] = "BLOCKED" /\ want'[t] = w
      /\ blocked_reason'[t] = "event"
      /\ \A u \in Tasks : u # t => /\ pc'[u] = pc[u] /\ state'[u] = state[u]
                                   /\ want'[u] = want[u]
                                   /\ event_return_bits'[u] = event_return_bits[u]
                                   /\ blocked_reason'[u] = blocked_reason[u]
  BY <1>1, <1>2
<1>7. /\ state' \in [Tasks -> States] /\ pc' \in [Tasks -> Labels]
      /\ blocked_reason' \in [Tasks -> {"none", "event", "notify"}]
      /\ want' \in [Tasks -> Wants]
      /\ event_return_bits' \in [Tasks -> SUBSET Bits]
  BY <1>1, <1>2 DEF States, Labels
<1>8. Typed'
  BY <1>1, <1>4, <1>7, Types, TypesThen
<1>9. EventInv'
  <2>1. Distinct(wait_list)' /\ ByPriority(wait_list)'
    BY <1>1, <1>4 DEF Distinct, ByPriority
  <2>2. Waiting' = {u \in Tasks : pc'[u] \in InWait /\ state'[u] = "BLOCKED"}
    BY <1>2, <1>5, <1>6 DEF Inv, EventInv, InWait
  <2>3. \A u \in Waiting' : ~Met(bits, want[u])' /\ blocked_reason'[u] = "event"
    <3> SUFFICES ASSUME NEW u \in Waiting'
                 PROVE  ~Met(bits', want'[u]) /\ blocked_reason'[u] = "event"
      OBVIOUS
    <3>1. CASE u = t
      BY <1>1, <1>6, <3>1
    <3>2. CASE u # t
      <4>1. u \in Waiting /\ u \in Tasks
        BY <1>5, <3>2 DEF Inv, EventInv
      <4> QED
        BY <1>1, <1>6, <3>2, <4>1 DEF Inv, EventInv
    <3> QED
      BY <3>1, <3>2
  <2>4. ReturnsWhatWasMet'
    <3> SUFFICES ASSUME NEW u \in Tasks, pc'[u] \in {"wait", "waited"}, u \notin Waiting'
                 PROVE  \/ event_return_bits'[u] = {}
                        \/ Met(event_return_bits'[u], want'[u])
      BY DEF ReturnsWhatWasMet
    <3>1. u # t /\ u \notin Waiting
      BY <1>5
    <3> QED
      BY <1>6, <3>1 DEF Inv, EventInv, ReturnsWhatWasMet
  <2> QED
    BY <2>1, <2>2, <2>3, <2>4 DEF EventInv
<1>10. NotificationKept'
  BY <1>1, <1>6, NotifyFrame DEF InNotify
<1>11. RunInv' /\ SignalInv'
  <2>1. pc'[current'] \notin Busy
    BY <1>1, <1>6 DEF Busy
  <2>2. \A u \in signalled : u \in Tasks /\ u # t /\ state[u] = "READY"
    BY <1>3, Types DEF Inv, SignalInv
  <2>3. state'[Idle] # "BLOCKED" /\ pc'[Idle] = "run"
    BY <1>1, <1>2, <1>6 DEF Inv, RunInv
  <2> QED
    BY <1>1, <1>6, <2>1, <2>2, <2>3 DEF RunInv, SignalInv
<1> QED
  BY <1>8, <1>9, <1>10, <1>11 DEF Inv

LEMMA WaitedStep ==
    ASSUME Inv, UNCHANGED notification, NEW t \in Takers, Waited(t)
    PROVE  Inv'
<1>1. /\ t = current /\ ~pendsv /\ pc[t] = "waited" /\ t # Idle
      /\ want' = [want EXCEPT ![t] = NoWant]
      /\ event_return_bits' = [event_return_bits EXCEPT ![t] = {}]
      /\ pc' = [pc EXCEPT ![t] = "run"]
      /\ UNCHANGED <<state, priority, current, pendsv, delay, blocked_reason, signalled,
                     bits, wait_list, notify_pending, target, news>>
  BY DEF Waited, Runs, Executes, Goto, dispatcher, notification
<1>2. /\ pc \in [Tasks -> Labels] /\ want \in [Tasks -> Wants]
      /\ event_return_bits \in [Tasks -> SUBSET Bits]
      /\ Idle \in Tasks /\ t \in Tasks /\ NoWant \in Wants
  BY Types DEF Takers, NoWant, Wants
<1>3. state[t] = "RUNNING" /\ t \notin Waiting
  BY <1>1 DEF Inv, RunInv, Busy, EventInv
<1>4. /\ pc'[t] = "run" /\ pc' \in [Tasks -> Labels]
      /\ want' \in [Tasks -> Wants] /\ event_return_bits' \in [Tasks -> SUBSET Bits]
      /\ \A u \in Tasks : u # t => /\ pc'[u] = pc[u] /\ want'[u] = want[u]
                                   /\ event_return_bits'[u] = event_return_bits[u]
  BY <1>1, <1>2 DEF Labels
<1>5. Typed'
  BY <1>1, <1>4, Types, TypesThen
<1>6. Waiting' = Waiting
  BY <1>1 DEF Waiting, Elements
<1>7. EventInv'
  <2>1. Distinct(wait_list)' /\ ByPriority(wait_list)'
    BY <1>1 DEF Inv, EventInv, Distinct, ByPriority
  <2>2. Waiting' = {u \in Tasks : pc'[u] \in InWait /\ state'[u] = "BLOCKED"}
    BY <1>1, <1>3, <1>4, <1>6 DEF Inv, EventInv
  <2>3. \A u \in Waiting' : ~Met(bits, want[u])' /\ blocked_reason'[u] = "event"
    <3> SUFFICES ASSUME NEW u \in Waiting
                 PROVE  ~Met(bits, want'[u]) /\ blocked_reason[u] = "event"
      BY <1>1, <1>6
    <3>1. u \in Tasks /\ u # t
      BY <1>3 DEF Inv, EventInv
    <3> QED
      BY <1>4, <3>1 DEF Inv, EventInv
  <2>4. ReturnsWhatWasMet'
    BY <1>4, <1>6 DEF Inv, EventInv, ReturnsWhatWasMet
  <2> QED
    BY <2>1, <2>2, <2>3, <2>4 DEF EventInv
<1>8. NotificationKept'
  BY <1>1, <1>4, NotifyFrame DEF InNotify
<1>9. RunInv' /\ SignalInv'
  BY <1>1, <1>4, GoesOn DEF Busy
<1> QED
  BY <1>5, <1>7, <1>8, <1>9 DEF Inv

\* prv_unblock_task of some of those who wait.
LEMMA UnblockIs ==
    ASSUME Inv, NEW gone, gone \subseteq Waiting, Unblock(gone), UNCHANGED priority
    PROVE  /\ wait_list' \in Seq(Takers) /\ Waiting' = Waiting \ gone
           /\ Distinct(wait_list)' /\ ByPriority(wait_list)'
           /\ state' \in [Tasks -> States]
           /\ blocked_reason' \in [Tasks -> {"none", "event", "notify"}]
           /\ gone \in SUBSET Tasks
           /\ \A u \in gone : pc[u] \in InWait /\ state[u] = "BLOCKED" /\ state'[u] = "READY"
           /\ \A u \in Tasks : u \notin gone => /\ state'[u] = state[u]
                                                /\ blocked_reason'[u] = blocked_reason[u]
<1>1. /\ wait_list' = Without(wait_list, gone)
      /\ state' = [u \in Tasks |-> IF u \in gone THEN "READY" ELSE state[u]]
      /\ blocked_reason' = [u \in Tasks |-> IF u \in gone THEN "none" ELSE blocked_reason[u]]
  BY DEF Unblock, MakeReady
<1>2. /\ state \in [Tasks -> States] /\ wait_list \in Seq(Takers)
      /\ blocked_reason \in [Tasks -> {"none", "event", "notify"}]
      /\ priority \in [Tasks -> Priorities]
      /\ Distinct(wait_list) /\ ByPriority(wait_list)
  BY Types DEF Inv, EventInv
<1>3. /\ Without(wait_list, gone) \in Seq(Takers)
      /\ Elements(Without(wait_list, gone)) = Elements(wait_list) \ gone
      /\ Distinct(Without(wait_list, gone))
      /\ ByPriority(Without(wait_list, gone))
  BY <1>2, WithoutIs
<1>4. Waiting' = Waiting \ gone
  BY <1>1, <1>3 DEF Waiting, Elements
<1>5. Distinct(wait_list)' /\ ByPriority(wait_list)'
  BY <1>1, <1>3 DEF Distinct, ByPriority
<1>6. \A u \in gone : u \in Tasks /\ pc[u] \in InWait /\ state[u] = "BLOCKED"
  BY DEF Inv, EventInv
<1> QED
  BY <1>1, <1>2, <1>3, <1>4, <1>5, <1>6 DEF States

LEMMA SetStep ==
    ASSUME Inv, UNCHANGED notification, NEW new \in SUBSET Bits,
           (\E t \in Takers : Set(t, new)) \/ SetFromISR(new)
    PROVE  Inv'
<1> DEFINE w == Walk(bits \cup new)
           gone == w.woken
<1>1. /\ bits' = w.bits /\ Unblock(gone)
      /\ event_return_bits' = [t \in Tasks |-> IF t \in gone THEN w.seen[t]
                                               ELSE event_return_bits[t]]
      /\ signalled' = signalled \cup gone
      /\ UNCHANGED <<want, delay, priority, current, notify_pending, target, news>>
  BY DEF Set, SetFromISR, SetBits, notification
<1>2. \/ pc' = pc /\ pendsv' = (pendsv \/ gone # {})
      \/ /\ current \in Takers /\ ~pendsv /\ pc[current] = "run" /\ pendsv' = pendsv
         /\ pc' = [pc EXCEPT ![current] =
                      IF \E u \in gone : priority[u] < priority[current]
                      THEN "yield" ELSE "run"]
  BY DEF Set, SetFromISR, Calls, Runs, Executes, Goto
<1>3. /\ bits \in SUBSET Bits /\ wait_list \in Seq(Takers) /\ pc \in [Tasks -> Labels]
      /\ event_return_bits \in [Tasks -> SUBSET Bits] /\ Idle \in Tasks
      /\ signalled \in SUBSET Tasks /\ current \in Tasks /\ pendsv \in BOOLEAN
      /\ priority \in [Tasks -> Priorities]
  BY Types
<1>4. /\ w.bits \in SUBSET Bits /\ gone \subseteq Waiting
      /\ \A t \in Waiting : t \notin gone => ~Met(w.bits, want[t])
      /\ \A t \in gone : w.seen[t] \in SUBSET Bits /\ Met(w.seen[t], want[t])
  <2>1. bits \cup new \in SUBSET Bits /\ Distinct(wait_list)
    BY <1>3 DEF Inv, EventInv
  <2> QED
    BY <1>3, <2>1, WalkFacts
<1> HIDE DEF w, gone
<1>5. /\ wait_list' \in Seq(Takers) /\ Waiting' = Waiting \ gone
      /\ Distinct(wait_list)' /\ ByPriority(wait_list)'
      /\ state' \in [Tasks -> States]
      /\ blocked_reason' \in [Tasks -> {"none", "event", "notify"}]
      /\ gone \in SUBSET Tasks
      /\ \A u \in gone : pc[u] \in InWait /\ state[u] = "BLOCKED" /\ state'[u] = "READY"
      /\ \A u \in Tasks : u \notin gone => /\ state'[u] = state[u]
                                           /\ blocked_reason'[u] = blocked_reason[u]
  BY <1>1, <1>4, UnblockIs
<1>6. /\ pc' \in [Tasks -> Labels]
      /\ \A u \in Tasks : \/ pc'[u] = pc[u]
                          \/ /\ u = current /\ u # Idle /\ pc[u] = "run"
                             /\ pc'[u] \in {"yield", "run"}
  BY <1>2, <1>3 DEF Labels, Takers
<1>7. event_return_bits' \in [Tasks -> SUBSET Bits]
  BY <1>1, <1>3, <1>4
<1>8. pendsv' \in BOOLEAN
  BY <1>2, <1>3
<1>9. Typed'
  BY <1>1, <1>3, <1>4, <1>5, <1>6, <1>7, <1>8, Types, TypesThen
<1>10. \A u \in Tasks : /\ pc'[u] \in InWait <=> pc[u] \in InWait
                        /\ pc'[u] \in InNotify <=> pc[u] \in InNotify
                        /\ pc'[u] = "collect" => pc[u] = "collect"
  BY <1>6 DEF InWait, InNotify
<1>11. EventInv'
  <2>1. Waiting' = {u \in Tasks : pc'[u] \in InWait /\ state'[u] = "BLOCKED"}
    BY <1>5, <1>10 DEF Inv, EventInv
  <2>2. \A u \in Waiting' : ~Met(bits, want[u])' /\ blocked_reason'[u] = "event"
    <3> SUFFICES ASSUME NEW u \in Waiting, u \notin gone
                 PROVE  ~Met(bits', want[u]) /\ blocked_reason'[u] = "event"
      BY <1>1, <1>5
    <3>1. u \in Tasks /\ blocked_reason[u] = "event"
      BY DEF Inv, EventInv
    <3> QED
      BY <1>1, <1>4, <1>5, <3>1
  <2>3. ReturnsWhatWasMet'
    <3> SUFFICES ASSUME NEW u \in Tasks, pc'[u] \in {"wait", "waited"}, u \notin Waiting'
                 PROVE  \/ event_return_bits'[u] = {}
                        \/ Met(event_return_bits'[u], want'[u])
      BY DEF ReturnsWhatWasMet
    <3>1. CASE u \in gone
      BY <1>1, <1>4, <3>1
    <3>2. CASE u \notin gone
      <4>1. pc[u] \in {"wait", "waited"} /\ u \notin Waiting
        BY <1>5, <1>10, <3>2 DEF InWait
      <4>2. event_return_bits'[u] = event_return_bits[u] /\ want'[u] = want[u]
        BY <1>1, <3>2
      <4> QED
        BY <4>1, <4>2 DEF Inv, EventInv, ReturnsWhatWasMet
    <3> QED
      BY <3>1, <3>2
  <2> QED
    BY <1>5, <2>1, <2>2, <2>3 DEF EventInv
<1>12. NotificationKept'
  <2>1. \A u \in Tasks : pc'[u] \in InNotify => u \notin gone
    BY <1>5, <1>10 DEF InWait, InNotify
  <2> QED
    BY <1>1, <1>5, <1>10, <2>1, NotifyFrame
<1>13. RunInv'
  <2>1. state'[Idle] # "BLOCKED" /\ pc'[Idle] = "run"
    BY <1>3, <1>5, <1>6 DEF Inv, RunInv
  <2>2. ASSUME ~pendsv', pc'[current] \in Busy
        PROVE  state'[current] = "RUNNING"
    <3>1. ~pendsv /\ pc[current] \in Busy
      BY <1>2, <2>2 DEF Busy
    <3>2. state[current] = "RUNNING"
      BY <3>1 DEF Inv, RunInv
    <3> QED
      BY <1>3, <1>5, <3>2
  <2> QED
    BY <1>1, <2>1, <2>2 DEF RunInv
<1>14. SignalInv'
  <2>1. \A u \in signalled' : state'[u] = "READY"
    <3> SUFFICES ASSUME NEW u \in signalled, u \notin gone PROVE state'[u] = "READY"
      BY <1>1, <1>5
    <3> QED
      BY <1>3, <1>5 DEF Inv, SignalInv
  <2>2. ASSUME ~pendsv', pc'[current] \in Busy, NEW u \in signalled'
        PROVE  \/ priority[current] <= priority[u]
               \/ pc'[current] = "compare" /\ u = target[current]
    <3>1. CASE pc' = pc /\ pendsv' = (pendsv \/ gone # {})
      <4>1. gone = {} /\ ~pendsv /\ u \in signalled
        BY <1>1, <2>2, <3>1
      <4> QED
        BY <2>2, <3>1, <4>1 DEF Inv, SignalInv
    <3>2. CASE /\ current \in Takers /\ ~pendsv /\ pc[current] = "run" /\ pendsv' = pendsv
               /\ pc' = [pc EXCEPT ![current] =
                            IF \E x \in gone : priority[x] < priority[current]
                            THEN "yield" ELSE "run"]
      <4>1. pc'[current] # "yield"
        BY <2>2 DEF Busy
      <4>2. \A x \in gone : ~(priority[x] < priority[current])
        BY <1>3, <3>2, <4>1
      <4>3. CASE u \in gone
        <5>1. priority[u] \in Int /\ priority[current] \in Int
          BY <1>3, <1>5, <4>3 DEF Priorities
        <5> QED
          BY <4>2, <4>3, <5>1
      <4>4. CASE u \notin gone
        <5>1. u \in signalled
          BY <1>1, <4>4
        <5> QED
          BY <3>2, <5>1 DEF Inv, SignalInv, Busy
      <4> QED
        BY <4>3, <4>4
    <3> QED
      BY <1>2, <3>1, <3>2
  <2> QED
    BY <1>1, <2>1, <2>2 DEF SignalInv
<1> QED
  BY <1>9, <1>11, <1>12, <1>13, <1>14 DEF Inv

LEMMA DeleteGroupStep ==
    ASSUME Inv, UNCHANGED notification, NEW t \in Takers, DeleteGroup(t)
    PROVE  Inv'
<1>1. /\ Unblock(Waiting) /\ bits' = {}
      /\ event_return_bits' = [u \in Tasks |-> IF u \in Waiting THEN {}
                                               ELSE event_return_bits[u]]
      /\ t = current /\ ~pendsv /\ t # Idle /\ pc[t] = "run"
      /\ UNCHANGED <<priority, current, pendsv, pc, delay, signalled, want,
                     notify_pending, target, news>>
  BY DEF DeleteGroup, Calls, Runs, Executes, notification
<1>2. /\ wait_list' \in Seq(Takers) /\ Waiting' = {}
      /\ Distinct(wait_list)' /\ ByPriority(wait_list)'
      /\ state' \in [Tasks -> States]
      /\ blocked_reason' \in [Tasks -> {"none", "event", "notify"}]
      /\ \A u \in Waiting : pc[u] \in InWait /\ state[u] = "BLOCKED" /\ state'[u] = "READY"
      /\ \A u \in Tasks : u \notin Waiting => /\ state'[u] = state[u]
                                              /\ blocked_reason'[u] = blocked_reason[u]
  BY <1>1, UnblockIs
<1>3. event_return_bits' \in [Tasks -> SUBSET Bits] /\ Idle \in Tasks /\ current \in Tasks
      /\ signalled \in SUBSET Tasks
  BY <1>1, Types
<1>4. Typed'
  BY <1>1, <1>2, <1>3, Types, TypesThen
<1>5. EventInv'
  <2>1. \A u \in Tasks : ~(pc'[u] \in InWait /\ state'[u] = "BLOCKED")
    BY <1>1, <1>2 DEF Inv, EventInv
  <2>2. ReturnsWhatWasMet'
    <3> SUFFICES ASSUME NEW u \in Tasks, pc[u] \in {"wait", "waited"}
                 PROVE  \/ event_return_bits'[u] = {}
                        \/ Met(event_return_bits'[u], want[u])
      BY <1>1 DEF ReturnsWhatWasMet
    <3> QED
      BY <1>1 DEF Inv, EventInv, ReturnsWhatWasMet
  <2> QED
    BY <1>2, <2>1, <2>2 DEF EventInv
<1>6. NotificationKept'
  <2>1. \A u \in Tasks : pc'[u] \in InNotify => u \notin Waiting
    BY <1>1, <1>2 DEF InWait, InNotify
  <2> QED
    BY <1>1, <1>2, <2>1, NotifyFrame
<1>7. RunInv'
  <2>1. state[current] = "RUNNING" /\ state[Idle] # "BLOCKED" /\ pc[Idle] = "run"
    BY <1>1 DEF Inv, RunInv, Busy
  <2> QED
    BY <1>1, <1>2, <1>3, <2>1 DEF RunInv
<1>8. SignalInv'
  <2>1. \A u \in signalled : u \in Tasks /\ state'[u] = "READY"
    BY <1>2, <1>3 DEF Inv, SignalInv
  <2> QED
    BY <1>1, <2>1 DEF Inv, SignalInv
<1> QED
  BY <1>4, <1>5, <1>6, <1>7, <1>8 DEF Inv

-----------------------------------------------------------------------------
\* Steps of notifications.

\* A notification makes ready only a task that waits for one, or is delayed with a
\* reason left from such a wait; never one that waits for events.
LEMMA NotifiedIs ==
    ASSUME Inv, NEW u \in Takers, Notified(u)
    PROVE  /\ state' \in [Tasks -> States] /\ delay' \in [Tasks -> 0 .. MaxDelay]
           /\ blocked_reason' \in [Tasks -> {"none", "event", "notify"}]
           /\ signalled' \in SUBSET Tasks
           /\ notify_pending' \in [Tasks -> BOOLEAN] /\ news' \in [Tasks -> BOOLEAN]
           /\ notify_pending'[u] /\ news'[u]
           /\ \A x \in Tasks : x # u => /\ notify_pending'[x] = notify_pending[x]
                                        /\ news'[x] = news[x] /\ state'[x] = state[x]
                                        /\ blocked_reason'[x] = blocked_reason[x]
           /\ signalled' = IF Awaits(u) THEN signalled \cup {u} ELSE signalled
           /\ Awaits(u) => /\ state[u] = "BLOCKED" /\ state'[u] = "READY"
                           /\ pc[u] \notin InWait
           /\ ~Awaits(u) => state' = state /\ blocked_reason' = blocked_reason
<1>1. /\ state \in [Tasks -> States] /\ delay \in [Tasks -> 0 .. MaxDelay]
      /\ blocked_reason \in [Tasks -> {"none", "event", "notify"}]
      /\ signalled \in SUBSET Tasks /\ MaxDelay \in Nat /\ u \in Tasks
      /\ notify_pending \in [Tasks -> BOOLEAN] /\ news \in [Tasks -> BOOLEAN]
  BY Types DEF Takers
<1>2. /\ notify_pending' = [notify_pending EXCEPT ![u] = TRUE]
      /\ news' = [news EXCEPT ![u] = TRUE]
  BY DEF Notified
<1>3. /\ notify_pending' \in [Tasks -> BOOLEAN] /\ news' \in [Tasks -> BOOLEAN]
      /\ notify_pending'[u] /\ news'[u]
      /\ \A x \in Tasks : x # u => notify_pending'[x] = notify_pending[x] /\ news'[x] = news[x]
  BY <1>1, <1>2
<1>4. CASE Awaits(u)
  <2>1. /\ state' = [x \in Tasks |-> IF x \in {u} THEN "READY" ELSE state[x]]
        /\ delay' = [delay EXCEPT ![u] = 0]
        /\ blocked_reason' = [blocked_reason EXCEPT ![u] = "none"]
        /\ signalled' = signalled \cup {u}
    BY <1>4 DEF Notified, MakeReady
  <2>2. state[u] = "BLOCKED" /\ blocked_reason[u] = "notify"
    BY <1>4 DEF Awaits
  <2>3. pc[u] \notin InWait
    BY <1>1, <2>2 DEF Inv, EventInv
  <2>4. 0 \in 0 .. MaxDelay
    BY <1>1
  <2> QED
    BY <1>1, <1>3, <1>4, <2>1, <2>2, <2>3, <2>4 DEF States
<1>5. CASE ~Awaits(u)
  <2>1. UNCHANGED <<state, delay, blocked_reason, signalled>>
    BY <1>5 DEF Notified
  <2> QED
    BY <1>1, <1>3, <1>5, <2>1
<1> QED
  BY <1>4, <1>5

LEMMA NotifyStep ==
    ASSUME Inv, UNCHANGED eventgroup, NEW u \in Takers,
           (\E t \in Takers : Notify(t, u)) \/ NotifyFromISR(u)
    PROVE  Inv'
<1>1. Notified(u) /\ UNCHANGED <<priority, current, bits, wait_list, want, event_return_bits>>
  BY DEF Notify, NotifyFromISR, eventgroup
<1>2. \/ pc' = pc /\ target' = target /\ pendsv' = (pendsv \/ Awaits(u))
      \/ /\ current \in Takers /\ ~pendsv /\ pc[current] = "run" /\ pendsv' = pendsv
         /\ target' = [target EXCEPT ![current] = IF Awaits(u) THEN u ELSE Idle]
         /\ pc' = [pc EXCEPT ![current] = IF Awaits(u) THEN "compare" ELSE "run"]
  BY DEF Notify, NotifyFromISR, Calls, Runs, Executes, Goto
<1>3. /\ pc \in [Tasks -> Labels] /\ Idle \in Tasks /\ target \in [Tasks -> Tasks]
      /\ signalled \in SUBSET Tasks /\ current \in Tasks /\ pendsv \in BOOLEAN
      /\ u \in Tasks /\ u # Idle
  BY Types DEF Takers
<1>4. /\ state' \in [Tasks -> States] /\ delay' \in [Tasks -> 0 .. MaxDelay]
      /\ blocked_reason' \in [Tasks -> {"none", "event", "notify"}]
      /\ signalled' \in SUBSET Tasks
      /\ notify_pending' \in [Tasks -> BOOLEAN] /\ news' \in [Tasks -> BOOLEAN]
      /\ notify_pending'[u] /\ news'[u]
      /\ \A x \in Tasks : x # u => /\ notify_pending'[x] = notify_pending[x]
                                   /\ news'[x] = news[x] /\ state'[x] = state[x]
                                   /\ blocked_reason'[x] = blocked_reason[x]
      /\ signalled' = IF Awaits(u) THEN signalled \cup {u} ELSE signalled
      /\ Awaits(u) => /\ state[u] = "BLOCKED" /\ state'[u] = "READY"
                      /\ pc[u] \notin InWait
      /\ ~Awaits(u) => state' = state /\ blocked_reason' = blocked_reason
  BY <1>1, NotifiedIs
<1>5. /\ pc' \in [Tasks -> Labels] /\ target' \in [Tasks -> Tasks]
      /\ \A x \in Tasks : \/ pc'[x] = pc[x]
                          \/ /\ x = current /\ x # Idle /\ pc[x] = "run"
                             /\ pc'[x] \in {"compare", "run"}
  BY <1>2, <1>3 DEF Labels, Takers
<1>6. pendsv' \in BOOLEAN
  BY <1>2, <1>3
<1>7. Typed'
  BY <1>1, <1>4, <1>5, <1>6, Types, TypesThen
<1>8. \A x \in Tasks : /\ pc'[x] \in InWait <=> pc[x] \in InWait
                       /\ pc'[x] \in InNotify <=> pc[x] \in InNotify
                       /\ pc'[x] = "collect" => pc[x] = "collect"
  BY <1>5 DEF InWait, InNotify
<1>9. EventInv'
  <2>1. \A x \in Tasks : pc[x] \in InWait =>
            state'[x] = state[x] /\ blocked_reason'[x] = blocked_reason[x]
    BY <1>4
  <2>2. bits' \subseteq bits
    BY <1>1
  <2> QED
    BY <1>1, <1>8, <2>1, <2>2, EventFrame
<1>10. NotificationKept'
  <2>1. ASSUME NEW x \in Tasks, pc'[x] \in InNotify, state'[x] = "BLOCKED"
        PROVE  ~notify_pending'[x] /\ blocked_reason'[x] = "notify"
    <3>1. pc[x] \in InNotify
      BY <1>8, <2>1
    <3>2. CASE x # u
      <4>1. state[x] = "BLOCKED"
        BY <1>4, <2>1, <3>2
      <4> QED
        BY <1>4, <3>1, <3>2, <4>1
           DEF Inv, NotificationKept, NotificationEndsWait, InNotify
    <3>3. CASE x = u
      <4>1. ~Awaits(u) /\ state[u] = "BLOCKED"
        BY <1>4, <2>1, <3>3
      <4>2. blocked_reason[u] = "notify"
        BY <3>1, <3>3, <4>1 DEF Inv, NotificationKept, NotificationEndsWait, InNotify
      <4> QED
        BY <4>1, <4>2 DEF Awaits
    <3> QED
      BY <3>2, <3>3
  <2>2. ASSUME NEW x \in Tasks, notify_pending'[x] \/ pc'[x] = "collect"
        PROVE  news'[x]
    <3>1. CASE x = u
      BY <1>4, <3>1
    <3>2. CASE x # u
      BY <1>4, <1>8, <2>2, <3>2 DEF Inv, NotificationKept, DeliveredOnce
    <3> QED
      BY <3>1, <3>2
  <2> QED
    BY <2>1, <2>2 DEF NotificationKept, NotificationEndsWait, DeliveredOnce, InNotify
<1>11. RunInv'
  <2>1. state'[Idle] # "BLOCKED" /\ pc'[Idle] = "run"
    BY <1>3, <1>4, <1>5 DEF Inv, RunInv
  <2>2. ASSUME ~pendsv', pc'[current] \in Busy
        PROVE  state'[current] = "RUNNING"
    <3>1. ~pendsv /\ pc[current] \in Busy
      BY <1>2, <2>2 DEF Busy
    <3>2. state[current] = "RUNNING"
      BY <3>1 DEF Inv, RunInv
    <3> QED
      BY <1>3, <1>4, <3>2
  <2> QED
    BY <1>1, <2>1, <2>2 DEF RunInv
<1>12. SignalInv'
  <2>1. \A x \in signalled' : state'[x] = "READY"
    <3> SUFFICES ASSUME NEW x \in signalled' PROVE state'[x] = "READY"
      OBVIOUS
    <3>1. CASE x \in signalled
      <4>1. state[x] = "READY" /\ x \in Tasks
        BY <1>3, <3>1 DEF Inv, SignalInv
      <4> QED
        BY <1>4, <4>1
    <3>2. CASE x \notin signalled
      BY <1>4, <3>2
    <3> QED
      BY <3>1, <3>2
  <2>2. ASSUME ~pendsv', pc'[current] \in Busy, NEW x \in signalled'
        PROVE  \/ priority[current] <= priority[x]
               \/ pc'[current] = "compare" /\ x = target'[current]
    <3>1. CASE pc' = pc /\ target' = target /\ pendsv' = (pendsv \/ Awaits(u))
      <4>1. ~Awaits(u) /\ ~pendsv /\ x \in signalled
        BY <1>4, <2>2, <3>1
      <4> QED
        BY <2>2, <3>1, <4>1 DEF Inv, SignalInv
    <3>2. CASE /\ current \in Takers /\ ~pendsv /\ pc[current] = "run" /\ pendsv' = pendsv
               /\ target' = [target EXCEPT ![current] = IF Awaits(u) THEN u ELSE Idle]
               /\ pc' = [pc EXCEPT ![current] = IF Awaits(u) THEN "compare" ELSE "run"]
      <4>1. CASE x \in signalled
        BY <3>2, <4>1 DEF Inv, SignalInv, Busy
      <4>2. CASE x \notin signalled
        <5>1. Awaits(u) /\ x = u
          BY <1>4, <4>2
        <5> QED
          BY <1>3, <3>2, <5>1
      <4> QED
        BY <4>1, <4>2
    <3> QED
      BY <1>2, <3>1, <3>2
  <2> QED
    BY <1>1, <2>1, <2>2 DEF SignalInv
<1> QED
  BY <1>7, <1>9, <1>10, <1>11, <1>12 DEF Inv

LEMMA CompareStep ==
    ASSUME Inv, UNCHANGED eventgroup, NEW t \in Takers, Compare(t)
    PROVE  Inv'
<1>1. /\ t = current /\ ~pendsv /\ pc[t] = "compare" /\ t # Idle
      /\ pc' = [pc EXCEPT ![t] = IF priority[target[t]] < priority[t] THEN "yield" ELSE "run"]
      /\ target' = [target EXCEPT ![t] = Idle]
      /\ UNCHANGED <<state, priority, current, pendsv, delay, blocked_reason, signalled,
                     bits, wait_list, want, event_return_bits, notify_pending, news>>
  BY DEF Compare, Runs, Executes, Goto, dispatcher, eventgroup
<1>2. /\ pc \in [Tasks -> Labels] /\ target \in [Tasks -> Tasks] /\ Idle \in Tasks
      /\ t \in Tasks /\ priority \in [Tasks -> Priorities]
  BY Types DEF Takers
<1>3. /\ pc'[t] = IF priority[target[t]] < priority[t] THEN "yield" ELSE "run"
      /\ pc' \in [Tasks -> Labels] /\ target' \in [Tasks -> Tasks]
      /\ \A x \in Tasks : x # t => pc'[x] = pc[x]
  BY <1>1, <1>2 DEF Labels
<1>4. Typed'
  BY <1>1, <1>3, Types, TypesThen
<1>5. \A x \in Tasks : /\ pc'[x] \in InWait <=> pc[x] \in InWait
                       /\ pc'[x] \in InNotify <=> pc[x] \in InNotify
                       /\ pc'[x] = "collect" => pc[x] = "collect"
  BY <1>1, <1>3 DEF InWait, InNotify
<1>6. EventInv'
  BY <1>1, <1>5, EventFrame
<1>7. NotificationKept'
  BY <1>1, <1>5, NotifyFrame
<1>8. RunInv'
  BY <1>1, <1>2, <1>3 DEF Inv, RunInv, Busy
<1>9. SignalInv'
  <2>1. \A x \in signalled : state[x] = "READY"
    BY DEF Inv, SignalInv
  <2>2. CASE priority[target[t]] < priority[t]
    BY <1>1, <1>3, <2>1, <2>2 DEF SignalInv, Busy
  <2>3. CASE ~(priority[target[t]] < priority[t])
    <3>1. priority[t] <= priority[target[t]]
      BY <1>2, <2>3 DEF Priorities
    <3>2. \A x \in signalled : priority[t] <= priority[x]
      BY <1>1, <3>1 DEF Inv, SignalInv, Busy
    <3> QED
      BY <1>1, <2>1, <3>2 DEF SignalInv
  <2> QED
    BY <2>2, <2>3
<1> QED
  BY <1>4, <1>6, <1>7, <1>8, <1>9 DEF Inv

\* The steps of os_task_notify_wait that do not block, and os_task_notify_clear.
LEMMA CollectStep ==
    ASSUME Inv, UNCHANGED eventgroup, NEW t \in Takers,
           \/ NotifyWaitNow(t) \/ Resumed(t) \/ Collect(t)
           \/ \E u \in Takers : NotifyClear(t, u)
    PROVE  Inv'
<1>1. /\ t = current /\ ~pendsv /\ pc[t] \in {"run", "resumed", "collect"} /\ t # Idle
      /\ UNCHANGED <<state, priority, current, pendsv, delay, blocked_reason, signalled,
                     bits, wait_list, want, event_return_bits, target>>
  BY DEF NotifyWaitNow, Resumed, Collect, NotifyClear, Calls, Runs, Executes, dispatcher, calls,
         eventgroup, notification
<1>2. /\ pc \in [Tasks -> Labels] /\ notify_pending \in [Tasks -> BOOLEAN]
      /\ news \in [Tasks -> BOOLEAN] /\ t \in Tasks /\ Idle \in Tasks
  BY Types DEF Takers
<1>3. /\ pc' \in [Tasks -> Labels] /\ \A x \in Tasks : x # t => pc'[x] = pc[x]
      /\ pc'[t] \in {"run", "collect"} /\ (pc'[t] = "collect" => notify_pending[t])
  <2>1. CASE NotifyWaitNow(t) \/ \E u \in Takers : NotifyClear(t, u)
    BY <1>2, <2>1 DEF NotifyWaitNow, NotifyClear, calls, Calls
  <2>2. CASE Resumed(t)
    BY <1>2, <2>2 DEF Resumed, Goto, Labels
  <2>3. CASE Collect(t)
    BY <1>2, <2>3 DEF Collect, Goto, Labels
  <2> QED
    BY <2>1, <2>2, <2>3
<1>4. /\ notify_pending' \in [Tasks -> BOOLEAN] /\ news' \in [Tasks -> BOOLEAN]
      /\ \A x \in Tasks : notify_pending'[x] => notify_pending[x]
  BY <1>2 DEF NotifyWaitNow, NotifyClear, Resumed, Collect, notification
<1>5. \A x \in Tasks : \/ news'[x] = news[x]
                       \/ x = t /\ pc'[t] = "run" /\ ~notify_pending'[t]
  <2>1. CASE NotifyWaitNow(t)
    BY <1>2, <2>1 DEF NotifyWaitNow, calls, Calls
  <2>2. CASE Resumed(t)
    BY <2>2 DEF Resumed, notification
  <2>3. CASE Collect(t)
    BY <1>2, <2>3 DEF Collect, Goto
  <2>4. CASE \E u \in Takers : NotifyClear(t, u)
    BY <2>4 DEF NotifyClear
  <2> QED
    BY <2>1, <2>2, <2>3, <2>4
<1>6. Typed'
  BY <1>1, <1>3, <1>4, Types, TypesThen
<1>7. state[t] = "RUNNING"
  BY <1>1 DEF Inv, RunInv, Busy
<1>8. EventInv'
  <2>1. \A x \in Tasks : pc'[x] \in InWait <=> pc[x] \in InWait
    BY <1>1, <1>3 DEF InWait
  <2> QED
    BY <1>1, <2>1, EventFrame
<1>9. NotificationKept'
  <2>1. NotificationEndsWait'
    <3> SUFFICES ASSUME NEW x \in Tasks, pc'[x] \in {"notify", "resumed"},
                        state[x] = "BLOCKED"
                 PROVE  ~notify_pending'[x] /\ blocked_reason[x] = "notify"
      BY <1>1 DEF NotificationEndsWait
    <3>1. x # t
      BY <1>7
    <3> QED
      BY <1>3, <1>4, <3>1 DEF Inv, NotificationKept, NotificationEndsWait
  <2>2. DeliveredOnce'
    <3> SUFFICES ASSUME NEW x \in Tasks, notify_pending'[x] \/ pc'[x] = "collect"
                 PROVE  news'[x]
      BY DEF DeliveredOnce
    <3>1. news'[x] = news[x]
      BY <1>5
    <3>2. notify_pending[x] \/ pc[x] = "collect"
      BY <1>3, <1>4
    <3> QED
      BY <3>1, <3>2 DEF Inv, NotificationKept, DeliveredOnce
  <2> QED
    BY <2>1, <2>2 DEF NotificationKept
<1>10. RunInv' /\ SignalInv'
  BY <1>1, <1>3, GoesOn DEF Busy
<1> QED
  BY <1>6, <1>8, <1>9, <1>10 DEF Inv

-----------------------------------------------------------------------------
\* Blocking on the kernel's list, and the steps of the kernel.

\* os_task_notify_wait that blocks, and os_task_delay.
LEMMA BlocksStep ==
    ASSUME Inv, UNCHANGED <<eventgroup, notification>>, NEW t \in Takers,
           NEW ticks \in 0 .. MaxDelay, NotifyWaitBlocks(t, ticks) \/ Delay(t, ticks)
    PROVE  Inv'
<1>1. /\ t = current /\ ~pendsv /\ pc[t] = "run" /\ t # Idle
      /\ state' = [state EXCEPT ![t] = "BLOCKED"]
      /\ delay' = [delay EXCEPT ![t] = ticks]
      /\ UNCHANGED <<priority, current, pendsv, signalled, bits, wait_list, want,
                     event_return_bits, notify_pending, target, news>>
  BY DEF NotifyWaitBlocks, Delay, Calls, Runs, Executes, Block, eventgroup, notification
<1>2. \/ /\ pc' = [pc EXCEPT ![t] = "notify"] /\ ~notify_pending[t]
         /\ blocked_reason' = [blocked_reason EXCEPT ![t] = "notify"]
      \/ pc' = [pc EXCEPT ![t] = "yield"] /\ blocked_reason' = blocked_reason
  BY DEF NotifyWaitBlocks, Delay, Goto
<1>3. /\ state \in [Tasks -> States] /\ pc \in [Tasks -> Labels]
      /\ delay \in [Tasks -> 0 .. MaxDelay]
      /\ blocked_reason \in [Tasks -> {"none", "event", "notify"}]
      /\ Idle \in Tasks /\ t \in Tasks /\ signalled \in SUBSET Tasks
  BY Types DEF Takers
<1>4. state[t] = "RUNNING"
  BY <1>1 DEF Inv, RunInv, Busy
<1>5. /\ state' \in [Tasks -> States] /\ delay' \in [Tasks -> 0 .. MaxDelay]
      /\ state'[t] = "BLOCKED" /\ \A x \in Tasks : x # t => state'[x] = state[x]
  BY <1>1, <1>3 DEF States
<1>6. /\ pc' \in [Tasks -> Labels]
      /\ blocked_reason' \in [Tasks -> {"none", "event", "notify"}]
      /\ \/ pc'[t] = "notify" /\ ~notify_pending[t] /\ blocked_reason'[t] = "notify"
         \/ pc'[t] = "yield"
      /\ \A x \in Tasks : x # t => pc'[x] = pc[x] /\ blocked_reason'[x] = blocked_reason[x]
  BY <1>2, <1>3 DEF Labels
<1>7. Typed'
  BY <1>1, <1>5, <1>6, Types, TypesThen
<1>8. EventInv'
  <2>1. \A x \in Tasks : /\ pc'[x] \in InWait <=> pc[x] \in InWait
                         /\ pc[x] \in InWait => x # t
    BY <1>1, <1>6 DEF InWait
  <2> QED
    BY <1>1, <1>5, <1>6, <2>1, EventFrame
<1>9. NotificationKept'
  <2>1. ASSUME NEW x \in Tasks, pc'[x] \in {"notify", "resumed"}, state'[x] = "BLOCKED"
        PROVE  ~notify_pending[x] /\ blocked_reason'[x] = "notify"
    <3>1. CASE x = t
      BY <1>6, <2>1, <3>1
    <3>2. CASE x # t
      BY <1>5, <1>6, <2>1, <3>2 DEF Inv, NotificationKept, NotificationEndsWait
    <3> QED
      BY <3>1, <3>2
  <2>2. \A x \in Tasks : notify_pending[x] \/ pc'[x] = "collect" => news[x]
    BY <1>6 DEF Inv, NotificationKept, DeliveredOnce
  <2> QED
    BY <1>1, <2>1, <2>2 DEF NotificationKept, NotificationEndsWait, DeliveredOnce
<1>10. RunInv' /\ SignalInv'
  <2>1. pc'[current'] \notin Busy
    BY <1>1, <1>6 DEF Busy
  <2>2. \A u \in signalled : u \in Tasks /\ u # t /\ state[u] = "READY"
    BY <1>3, <1>4 DEF Inv, SignalInv
  <2>3. state'[Idle] # "BLOCKED" /\ pc'[Idle] = "run"
    BY <1>1, <1>3, <1>5, <1>6 DEF Inv, RunInv
  <2> QED
    BY <1>1, <1>5, <2>1, <2>2, <2>3 DEF RunInv, SignalInv
<1> QED
  BY <1>7, <1>8, <1>9, <1>10 DEF Inv

\* A switch is asked for, by os_sched_yield or an interrupt.
LEMMA YieldStep ==
    ASSUME Inv, UNCHANGED <<eventgroup, notification>>,
           (\E t \in Takers : Yield(t)) \/ (RequestSwitch /\ UNCHANGED calls)
    PROVE  Inv'
<1>1. /\ pendsv' = TRUE
      /\ UNCHANGED <<state, priority, current, delay, blocked_reason, signalled, bits,
                     wait_list, want, event_return_bits, notify_pending, target, news>>
  BY DEF Yield, RequestSwitch, calls, eventgroup, notification
<1>2. /\ pc \in [Tasks -> Labels] /\ Idle \in Tasks
  BY Types
<1>3. /\ pc' \in [Tasks -> Labels]
      /\ \A x \in Tasks : \/ pc'[x] = pc[x]
                          \/ pc[x] = "wait" /\ pc'[x] = "waited"
                          \/ pc[x] = "notify" /\ pc'[x] = "resumed"
                          \/ pc[x] = "yield" /\ pc'[x] = "run"
  <2>1. CASE UNCHANGED calls
    BY <1>2, <2>1 DEF calls
  <2>2. CASE \E t \in Takers : Yield(t)
    <3>1. PICK t \in Takers : Yield(t)
      BY <2>2
    <3> DEFINE l == CASE pc[t] = "wait" -> "waited" [] pc[t] = "notify" -> "resumed"
                      [] OTHER -> "run"
    <3>2. /\ t \in Tasks /\ pc[t] \in {"run", "yield", "wait", "notify"}
          /\ pc' = [pc EXCEPT ![t] = l]
      BY <3>1 DEF Yield, Goto, Takers
    <3>3. l \in Labels /\ \/ l = pc[t]
                          \/ pc[t] = "wait" /\ l = "waited"
                          \/ pc[t] = "notify" /\ l = "resumed"
                          \/ pc[t] = "yield" /\ l = "run"
      BY <3>2 DEF Labels
    <3> HIDE DEF l
    <3> QED
      BY <1>2, <3>2, <3>3
  <2> QED
    BY <2>1, <2>2
<1>4. pendsv' \in BOOLEAN
  BY <1>1
<1>5. Typed'
  BY <1>1, <1>3, <1>4, Types, TypesThen
<1>6. \A x \in Tasks : /\ pc'[x] \in InWait <=> pc[x] \in InWait
                       /\ pc'[x] \in InNotify <=> pc[x] \in InNotify
                       /\ pc'[x] = "collect" => pc[x] = "collect"
                       /\ pc[x] = "run" => pc'[x] = "run"
  BY <1>3 DEF InWait, InNotify
<1>7. EventInv'
  BY <1>1, <1>6, EventFrame
<1>8. NotificationKept'
  BY <1>1, <1>6, NotifyFrame
<1>9. RunInv' /\ SignalInv'
  BY <1>1, <1>2, <1>6 DEF Inv, RunInv, SignalInv
<1> QED
  BY <1>5, <1>7, <1>8, <1>9 DEF Inv

\* The tick counts a delay, or goes on.
LEMMA TickVisitStep ==
    ASSUME Inv, UNCHANGED <<eventgroup, notification>>,
           TickBegin \/ \E t \in Tasks : TickVisit(t)
    PROVE  Inv'
<1>1. UNCHANGED <<state, priority, current, pendsv, pc, blocked_reason, signalled, bits,
                  wait_list, want, event_return_bits, notify_pending, target, news>>
  BY DEF TickBegin, TickVisit, dispatcher, calls, eventgroup, notification
<1>2. delay \in [Tasks -> 0 .. MaxDelay] /\ MaxDelay \in Nat
  BY Types
<1>3. delay' \in [Tasks -> 0 .. MaxDelay]
  <2>1. CASE TickBegin
    BY <1>2, <2>1 DEF TickBegin, calls
  <2>2. CASE \E t \in Tasks : TickVisit(t)
    <3>1. PICK t \in Tasks : TickVisit(t)
      BY <2>2
    <3> DEFINE left == IF delay[t] > 0 THEN delay[t] - 1 ELSE 0
    <3>2. delay' = [delay EXCEPT ![t] = left]
      BY <3>1 DEF TickVisit
    <3>3. left \in 0 .. MaxDelay
      BY <1>2
    <3> HIDE DEF left
    <3> QED
      BY <1>2, <3>2, <3>3
  <2> QED
    BY <2>1, <2>2
<1>4. Typed'
  BY <1>1, <1>3, Types, TypesThen
<1>5. EventInv'
  BY <1>1, EventFrame
<1>6. NotificationKept'
  BY <1>1, NotifyFrame
<1>7. RunInv' /\ SignalInv'
  BY <1>1, NothingMoves
<1> QED
  BY <1>4, <1>5, <1>6, <1>7 DEF Inv

\* The tick makes ready only a task of the kernel's list, which nobody signalled.
LEMMA TickReadyStep ==
    ASSUME Inv, TickInv, ~Torn, UNCHANGED <<eventgroup, notification>>, TickReady
    PROVE  Inv'
<1>1. /\ unlinked # Idle
      /\ state' = [t \in Tasks |-> IF t \in {unlinked} THEN "READY" ELSE state[t]]
      /\ UNCHANGED <<priority, current, pendsv, pc, delay, blocked_reason, signalled, bits,
                     wait_list, want, event_return_bits, notify_pending, target, news>>
  BY DEF TickReady, MakeReady, calls, eventgroup, notification
<1>2. /\ state \in [Tasks -> States] /\ Idle \in Tasks /\ signalled \in SUBSET Tasks
      /\ current \in Tasks /\ unlinked \in Tasks
  BY Types DEF TickInv
<1>3. state[unlinked] = "BLOCKED" /\ pc[unlinked] \notin InWait
  BY <1>1 DEF Torn, ReadiedOnce, TickInv
<1>4. /\ state' \in [Tasks -> States]
      /\ state'[unlinked] = "READY"
      /\ \A t \in Tasks : t # unlinked => state'[t] = state[t]
  BY <1>1, <1>2 DEF States
<1>5. Typed'
  BY <1>1, <1>4, Types, TypesThen
<1>6. EventInv'
  BY <1>1, <1>3, <1>4, EventFrame
<1>7. NotificationKept'
  <2>1. \A t \in Tasks : state'[t] = "BLOCKED" => state[t] = "BLOCKED"
    BY <1>4
  <2> QED
    BY <1>1, <2>1, NotifyFrame
<1>8. RunInv'
  <2>1. state'[Idle] # "BLOCKED" /\ pc'[Idle] = "run"
    BY <1>1, <1>2, <1>4 DEF Inv, RunInv
  <2>2. ~pendsv /\ pc[current] \in Busy => state'[current] = "RUNNING"
    BY <1>2, <1>3, <1>4 DEF Inv, RunInv
  <2> QED
    BY <1>1, <2>1, <2>2 DEF RunInv
<1>9. SignalInv'
  <2>1. \A t \in signalled : state'[t] = "READY"
    BY <1>2, <1>4 DEF Inv, SignalInv
  <2> QED
    BY <1>1, <2>1 DEF Inv, SignalInv
<1> QED
  BY <1>5, <1>6, <1>7, <1>8, <1>9 DEF Inv

\* A context switch chooses a task of the highest priority among all that are ready,
\* so also among those signalled.
LEMMA DispatchStep ==
    ASSUME Inv, UNCHANGED <<eventgroup, notification>>, Dispatch
    PROVE  Inv'
<1>1. /\ signalled' = signalled \ {current'} /\ pendsv' = FALSE
      /\ UNCHANGED <<priority, pc, delay, blocked_reason, bits, wait_list, want,
                     event_return_bits, notify_pending, target, news>>
  BY DEF Dispatch, Switch, eventgroup, notification
<1>2. PICK t \in Candidates(state) :
          /\ current' = t
          /\ state' = [u \in Tasks |-> IF u = t THEN "RUNNING"
                                       ELSE IF u = current /\ state[u] = "RUNNING"
                                       THEN "READY" ELSE state[u]]
  BY DEF Dispatch, Switch
<1>3. /\ state \in [Tasks -> States] /\ Idle \in Tasks /\ signalled \in SUBSET Tasks
  BY Types
<1>4. /\ t \in Tasks /\ state[t] # "BLOCKED"
      /\ \A u \in Tasks : state[u] # "BLOCKED" => priority[t] <= priority[u]
  BY <1>2 DEF Candidates
<1>5. /\ state' \in [Tasks -> States] /\ state'[t] = "RUNNING"
      /\ \A u \in Tasks : /\ state'[u] = "BLOCKED" <=> state[u] = "BLOCKED"
                          /\ u # t /\ state[u] = "READY" => state'[u] = "READY"
  BY <1>2, <1>3, <1>4 DEF States
<1>6. pendsv' \in BOOLEAN
  BY <1>1
<1>7. Typed'
  <2>1. signalled' \in SUBSET Tasks /\ current' \in Tasks
    BY <1>1, <1>2, <1>3, <1>4
  <2> QED
    BY <1>1, <1>5, <1>6, <2>1, Types, TypesThen
<1>8. EventInv'
  BY <1>1, <1>5, EventFrame
<1>9. NotificationKept'
  BY <1>1, <1>5, NotifyFrame
<1>10. RunInv'
  BY <1>1, <1>2, <1>3, <1>5 DEF Inv, RunInv
<1>11. SignalInv'
  <2>1. \A u \in signalled' : /\ u \in Tasks /\ u # t /\ state[u] = "READY"
    BY <1>1, <1>2, <1>3 DEF Inv, SignalInv
  <2> QED
    BY <1>1, <1>2, <1>4, <1>5, <2>1 DEF SignalInv
<1> QED
  BY <1>7, <1>8, <1>9, <1>10, <1>11 DEF Inv

-----------------------------------------------------------------------------
\* Signals.

LEMMA InitInv == Init => Inv /\ TickInv
<1> SUFFICES ASSUME Init PROVE Inv /\ TickInv
  OBVIOUS
<1> USE DispatcherAssumption, DelayAssumption
        DEF Init, DispatcherInit, CallsInit, EventGroupInit, NotificationInit
<1>1. current \in Tasks
  BY DEF Candidates
<1>2. Typed
  <2>1. DispatcherTypeOK
    BY <1>1 DEF DispatcherTypeOK
  <2>2. CallsTyped
    BY DEF CallsTyped, Labels
  <2>3. EventGroupTypeOK
    BY DEF EventGroupTypeOK, NoWant, Wants
  <2>4. NotificationTypeOK
    BY DEF NotificationTypeOK
  <2> QED
    BY <2>1, <2>2, <2>3, <2>4 DEF Typed
<1>3. Waiting = {} /\ wait_list = << >>
  BY DEF Waiting, Elements
<1>4. EventInv
  BY <1>3 DEF EventInv, Distinct, ByPriority, ReturnsWhatWasMet, InWait
<1>5. RunInv /\ SignalInv
  BY <1>1 DEF RunInv, SignalInv
<1>6. NotificationKept
  BY DEF NotificationKept, NotificationEndsWait, DeliveredOnce
<1>7. TickInv
  BY DEF TickInv, InWait
<1> QED
  BY <1>2, <1>4, <1>5, <1>6, <1>7 DEF Inv

LEMMA Step == Inv /\ TickInv /\ [Next]_vars => Inv'
<1> SUFFICES ASSUME Inv, TickInv, [Next]_vars PROVE Inv'
  OBVIOUS
<1>1. CASE EventGroupNext /\ UNCHANGED notification
  <2>1. CASE \E t \in Takers, w \in Requests : WaitNow(t, w)
    BY <1>1, <2>1, WaitNowStep
  <2>2. CASE \E t \in Takers, w \in Requests : WaitBlocks(t, w)
    BY <1>1, <2>2, WaitBlocksStep
  <2>3. CASE \E t \in Takers : Waited(t)
    BY <1>1, <2>3, WaitedStep
  <2>4. CASE \E t \in Takers, new \in SUBSET Bits \ {{}} : Set(t, new)
    BY <1>1, <2>4, SetStep
  <2>5. CASE \E t \in Takers : DeleteGroup(t)
    BY <1>1, <2>5, DeleteGroupStep
  <2>6. CASE \E b \in SUBSET Bits \ {{}} : SetFromISR(b)
    BY <1>1, <2>6, SetStep
  <2>7. CASE \E b \in SUBSET Bits \ {{}} : Clear(b)
    BY <1>1, <2>7, WaitNowStep
  <2> QED
    BY <1>1, <2>1, <2>2, <2>3, <2>4, <2>5, <2>6, <2>7
       DEF EventGroupNext, os_eventgroup_wait_bits, Takers
<1>2. CASE NotificationNext /\ UNCHANGED eventgroup
  <2>1. CASE \E t \in Takers : Compare(t)
    BY <1>2, <2>1, CompareStep
  <2>2. CASE \E t, u \in Takers : Notify(t, u)
    BY <1>2, <2>2, NotifyStep
  <2>3. CASE \E u \in Takers : NotifyFromISR(u)
    BY <1>2, <2>3, NotifyStep
  <2>4. CASE \E t \in Takers : \/ NotifyWaitNow(t) \/ Resumed(t) \/ Collect(t)
                               \/ \E u \in Takers : NotifyClear(t, u)
    BY <1>2, <2>4, CollectStep
  <2>5. CASE \E t \in Takers, ticks \in 0 .. MaxDelay : NotifyWaitBlocks(t, ticks)
    <3>1. UNCHANGED notification
      BY <2>5 DEF NotifyWaitBlocks
    <3> QED
      BY <1>2, <2>5, <3>1, BlocksStep
  <2> QED
    BY <1>2, <2>1, <2>2, <2>3, <2>4, <2>5
       DEF NotificationNext, os_task_notify, os_task_notify_wait, Takers
<1>3. CASE KernelNext /\ ~Torn /\ UNCHANGED <<eventgroup, notification>>
  <2>1. CASE \E t \in Takers : Yield(t)
    BY <1>3, <2>1, YieldStep
  <2>2. CASE \E t \in Takers, ticks \in 1 .. MaxDelay : Delay(t, ticks)
    <3>1. PICK t \in Takers, ticks \in 1 .. MaxDelay : Delay(t, ticks)
      BY <2>2
    <3>2. ticks \in 0 .. MaxDelay
      BY DelayAssumption
    <3> QED
      BY <1>3, <3>1, <3>2, BlocksStep
  <2>3. CASE TickBegin \/ \E t \in Tasks : TickVisit(t)
    BY <1>3, <2>3, TickVisitStep
  <2>6. CASE TickReady
    BY <1>3, <2>6, TickReadyStep
  <2>4. CASE RequestSwitch /\ UNCHANGED calls
    BY <1>3, <2>4, YieldStep
  <2>5. CASE Dispatch
    BY <1>3, <2>5, DispatchStep
  <2> QED
    BY <1>3, <2>1, <2>2, <2>3, <2>4, <2>5, <2>6 DEF KernelNext, Tick, Takers
<1>4. CASE UNCHANGED vars
  <2>1. UNCHANGED <<state, priority, current, pendsv, pc, delay, blocked_reason, signalled,
                    bits, wait_list, want, event_return_bits, notify_pending, target, news>>
    BY <1>4 DEF vars
  <2>2. Typed'
    BY <2>1 DEF Inv, Typed, DispatcherTypeOK, CallsTyped, EventGroupTypeOK,
                NotificationTypeOK
  <2>3. EventInv'
    BY <2>1, EventFrame
  <2>4. NotificationKept'
    BY <2>1, NotifyFrame
  <2>5. RunInv' /\ SignalInv'
    BY <2>1, NothingMoves
  <2> QED
    BY <2>2, <2>3, <2>4, <2>5 DEF Inv
<1> QED
  BY <1>1, <1>2, <1>3, <1>4 DEF Next

\* Only the tick, and a notification that shortens its walk, change what it has
\* left to do; no task moves meanwhile.
LEMMA TickHolds == Inv /\ TickInv /\ [Next]_vars => TickInv'
<1> SUFFICES ASSUME Inv, TickInv, [Next]_vars PROVE TickInv'
  OBVIOUS
<1>1. Inv'
  BY Step
<1>2. /\ Idle \in Tasks /\ pc'[Idle] = "run" /\ pc[Idle] = "run"
  BY <1>1, Types DEF Inv, RunInv
<1>3. CASE NoTick /\ UNCHANGED tick_walk
  BY <1>2, <1>3 DEF NoTick, tick_walk, TickInv, InWait
<1>4. CASE pc' = pc /\ ticking' \subseteq ticking /\ unlinked' = unlinked
  BY <1>4 DEF TickInv
<1>5. CASE UNCHANGED vars
  <2>1. pc' = pc /\ ticking' = ticking /\ unlinked' = unlinked
    BY <1>5 DEF vars
  <2> QED
    BY <1>4, <2>1
<1>6. CASE EventGroupNext /\ UNCHANGED tick_walk
  <2>1. \/ NoTick
        \/ \E b \in SUBSET Bits \ {{}} : SetFromISR(b) \/ Clear(b)
    BY <1>6 DEF EventGroupNext, os_eventgroup_wait_bits, WaitNow, WaitBlocks, Waited, Set,
                DeleteGroup, Calls, Runs
  <2>2. NoTick \/ pc' = pc
    BY <2>1 DEF SetFromISR, Clear, calls
  <2> QED
    BY <1>3, <1>4, <1>6, <2>2 DEF tick_walk
<1>7. CASE NotificationNext
  <2>1. \/ NoTick /\ UNCHANGED tick_walk
        \/ \E u \in Tasks \ {Idle} : NotifyFromISR(u)
    BY <1>7 DEF NotificationNext, os_task_notify, os_task_notify_wait, Compare, Notify,
                NotifyWaitNow, NotifyWaitBlocks, Resumed, Collect, NotifyClear, Calls, Runs
  <2>2. ASSUME NEW u \in Tasks \ {Idle}, NotifyFromISR(u)
        PROVE  pc' = pc /\ ticking' \subseteq ticking /\ unlinked' = unlinked
    BY <2>2 DEF NotifyFromISR
  <2> QED
    BY <1>3, <1>4, <2>1, <2>2
<1>8. CASE KernelNext
  <2>1. CASE TickBegin
    BY <1>2, <2>1 DEF TickBegin, OnBlockedList, NoTick, TickInv, InWait, calls
  <2>2. CASE \E t \in Tasks : TickVisit(t)
    BY <1>2, <2>2 DEF TickVisit, TickInv, InWait
  <2>3. CASE TickReady
    BY <1>2, <2>3 DEF TickReady, TickInv, InWait, calls
  <2>4. CASE RequestSwitch /\ UNCHANGED calls /\ UNCHANGED tick_walk
    BY <1>4, <2>4 DEF calls, tick_walk
  <2>5. CASE NoTick /\ UNCHANGED tick_walk
    BY <1>3, <2>5
  <2> QED
    BY <1>8, <2>1, <2>2, <2>3, <2>4, <2>5
       DEF KernelNext, Tick, Yield, Delay, Dispatch, Calls, Runs
<1> QED
  BY <1>5, <1>6, <1>7, <1>8 DEF Next, tick_walk

LEMMA Invariance == Spec => [](Inv /\ TickInv)
BY InitInv, Step, TickHolds, PTL DEF Spec

\* Type correctness.  Among other things delay_ticks, which the tick decrements and
\* a notification resets, never leaves 0 .. MaxDelay.
THEOREM SignalsTypeCorrect == Spec => []TypeOK
<1>1. Inv /\ TickInv => TypeOK
  BY DEF Inv, TickInv, Typed, TypeOK, CallsTyped, CallsTypeOK
<1> QED
  BY <1>1, Invariance, PTL

\* os_eventgroup_set_bits overlooks nobody, for any number of tasks, bits and
\* requests: the list holds exactly the tasks blocked in os_eventgroup_wait_bits, by
\* priority, and the bits meet the wait of none of them.
THEOREM EventsCorrect == Spec => []NobodyOverlooked
<1>1. Inv => NobodyOverlooked
  <2> SUFFICES ASSUME Inv PROVE NobodyOverlooked
    OBVIOUS
  <2>1. Ordered(wait_list)
    BY DEF Inv, EventInv, Ordered, Distinct, ByPriority
  <2> QED
    BY <2>1 DEF Inv, EventInv, NobodyOverlooked, InWait
<1> QED
  BY <1>1, Invariance, PTL

\* What os_eventgroup_wait_bits returns met its condition when the task was woken, or
\* is nothing after os_eventgroup_delete.
THEOREM ReturnsCorrect == Spec => []ReturnsWhatWasMet
<1>1. Inv => ReturnsWhatWasMet
  BY DEF Inv, EventInv
<1> QED
  BY <1>1, Invariance, PTL

\* No task sleeps in os_task_notify_wait through a notification, and OS_OK means
\* that one came since the last OS_OK, whatever it races: the steps of the tick that
\* ends the wait, os_task_notify_clear, the yield, or a wait for events of the same
\* task.
THEOREM NotificationCorrect == Spec => []NotificationKept
<1>1. Inv => NotificationKept
  BY DEF Inv
<1> QED
  BY <1>1, Invariance, PTL

\* A signal is followed by a context switch before a task of lower priority goes on,
\* although os_task_notify compares priorities outside its critical section.
THEOREM SignalsPreempt == Spec => []SignalledPreempts
<1>1. Inv => SignalledPreempts
  BY DEF Inv, SignalInv, SignalledPreempts, Busy
<1> QED
  BY <1>1, Invariance, PTL

\* A step that makes two tasks of the wait list ready is a set of bits.
LEMMA SignalsMany ==
    ASSUME Inv, Next, NEW x \in signalled' \ signalled, NEW y \in signalled' \ signalled,
           x # y
    PROVE  \E new \in SUBSET Bits : SetBits(new)
<1>1. CASE EventGroupNext
  BY <1>1 DEF EventGroupNext, os_eventgroup_wait_bits, WaitNow, WaitBlocks, Waited, Set,
              SetFromISR, Clear, DeleteGroup, calls
<1>2. CASE NotificationNext
  <2>1. ASSUME NEW u, Notified(u)
        PROVE  signalled' \subseteq signalled \cup {u}
    BY <2>1 DEF Notified
  <2>2. CASE \E t, u \in Takers : Notify(t, u)
    BY <2>1, <2>2 DEF Notify
  <2>3. CASE \E u \in Takers : NotifyFromISR(u)
    BY <2>1, <2>3 DEF NotifyFromISR
  <2>4. CASE signalled' = signalled
    BY <2>4
  <2> QED
    BY <1>2, <2>2, <2>3, <2>4
       DEF NotificationNext, os_task_notify, os_task_notify_wait, Takers, Compare,
           NotifyWaitNow, NotifyWaitBlocks, Resumed, Collect, NotifyClear, calls
<1>3. CASE KernelNext
  BY <1>3 DEF KernelNext, Yield, Delay, Tick, TickBegin, TickVisit, TickReady, Dispatch,
              calls
<1>4. ~UNCHANGED vars
  BY DEF vars
<1> QED
  BY <1>1, <1>2, <1>3, <1>4 DEF Next

\* With OS_EVENT_CLEAR_ON_EXIT an event is handed to one task: of two tasks that one
\* set wakes, the later in the list is not given bits that the earlier consumed.
THEOREM ConsumedCorrect == Spec => ConsumedOnce
<1> DEFINE Once ==
        \A i, j \in 1 .. Len(wait_list) :
          /\ i < j
          /\ wait_list[i] \in signalled' \ signalled
          /\ wait_list[j] \in signalled' \ signalled
          /\ want[wait_list[i]].clear
          => want[wait_list[i]].bits \cap event_return_bits'[wait_list[j]] = {}
<1>1. Inv /\ [Next]_vars => [Once]_<<signalled, wait_list, want, event_return_bits>>
  <2> SUFFICES ASSUME Inv, [Next]_vars,
                      NEW i \in 1 .. Len(wait_list), NEW j \in 1 .. Len(wait_list), i < j,
                      wait_list[i] \in signalled' \ signalled,
                      wait_list[j] \in signalled' \ signalled,
                      want[wait_list[i]].clear
               PROVE  want[wait_list[i]].bits \cap event_return_bits'[wait_list[j]] = {}
    OBVIOUS
  <2>1. Next
    BY DEF vars
  <2>2. /\ wait_list \in Seq(Takers) /\ Distinct(wait_list) /\ bits \in SUBSET Bits
        /\ event_return_bits \in [Tasks -> SUBSET Bits]
    BY Types DEF Inv, EventInv
  <2>3. wait_list[i] # wait_list[j]
    BY <2>2 DEF Distinct
  <2>4. PICK new \in SUBSET Bits : SetBits(new)
    BY <2>1, <2>3, SignalsMany
  <2> DEFINE w == Walk(bits \cup new)
  <2>5. /\ signalled' = signalled \cup w.woken
        /\ event_return_bits' = [t \in Tasks |-> IF t \in w.woken THEN w.seen[t]
                                                 ELSE event_return_bits[t]]
    BY <2>4 DEF SetBits
  <2>6. wait_list[j] \in Tasks
    BY <2>2 DEF Takers
  <2>7. bits \cup new \in SUBSET Bits
    BY <2>2
  <2>8. want[wait_list[i]].bits \cap w.seen[wait_list[j]] = {}
    <3>1. wait_list[i] \in w.woken /\ wait_list[j] \in w.woken
      BY <2>5
    <3> QED
      BY <2>2, <2>7, <3>1, WalkFacts
  <2>9. event_return_bits'[wait_list[j]] = w.seen[wait_list[j]]
    BY <2>5, <2>6
  <2> QED
    BY <2>8, <2>9
<1> QED
  BY <1>1, Invariance, PTL DEF Spec, ConsumedOnce
=============================================================================
