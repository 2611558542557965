--------------------------- MODULE SemaphoreProofs ---------------------------
(***************************************************************************)
(* Proofs about Semaphore: its wait list and its tokens, and that it       *)
(* implements AbstractSemaphore.                                           *)
(***************************************************************************)
EXTENDS Semaphore, WaitListTheorems

-----------------------------------------------------------------------------
\* The inductive invariant.

InTake == {"take", "resumed"}

\* The wait list is what WaitListExact says.
ListInv ==
    /\ Distinct(wait_list)
    /\ ByPriority(wait_list)
    /\ Waiting = {t \in Tasks : pc[t] \in InTake /\ state[t] = "BLOCKED"}

\* A task that executes, and is not about to yield, is not blocked; the idle task
\* never is.
RunInv ==
    /\ ~pendsv /\ pc[current] \in {"run", "resumed", "give"} => state[current] # "BLOCKED"
    /\ state[Idle] # "BLOCKED"
    /\ pc[Idle] = "run"

\* While the give of a token to woken[current] is not over, that task is the only
\* one with a token that may be of higher priority than the executing one.
PreemptInv ==
    ~pendsv /\ pc[current] \in {"run", "resumed", "give"} =>
        \A t \in Granted :
            state[t] = "READY" =>
                \/ priority[current] <= priority[t]
                \/ pc[current] = "give" /\ t = woken[current]

Inv ==
    /\ TypeOK
    /\ ListInv
    /\ RunInv
    /\ PreemptInv
    /\ max_count = 0 => count = 0
    /\ TokensConserved

\* What a step does to the variables of the abstract semaphore.
AbstractStep == Abstract!Next \/ UNCHANGED <<count, Waiting, Granted>>

LEMMA GrantedCardinality ==
    /\ IsFiniteSet(Granted)
    /\ Cardinality(Granted) \in Nat
<1>1. IsFiniteSet(Tasks) /\ Granted \in SUBSET Tasks
  BY DispatcherAssumption DEF Granted
<1>2. IsFiniteSet(Granted)
  BY <1>1, FS_Subset
<1> QED
  BY <1>2, FS_CardinalityType

LEMMA WaitingElements == Waiting = Elements(wait_list) /\ Waiting' = Elements(wait_list')
BY DEF Waiting

\* Three ways in which the tokens stay accounted for.
LEMMA SameTokens ==
    ASSUME Inv, Granted' = Granted, tokens' - count' = tokens - count,
           count' \in Nat, tokens' \in Int
    PROVE  TokensConserved' /\ tokens' \in Nat
<1>1. Cardinality(Granted) \in Nat
  BY GrantedCardinality
<1> QED
  BY <1>1 DEF Inv, TokensConserved, TypeOK

LEMMA OneGranted ==
    ASSUME Inv, NEW t, t \notin Granted, Granted' = Granted \cup {t},
           count' = count, tokens' = tokens + 1
    PROVE  TokensConserved' /\ tokens' \in Nat
<1>1. IsFiniteSet(Granted) /\ Cardinality(Granted) \in Nat
  BY GrantedCardinality
<1>2. Cardinality(Granted \cup {t}) = Cardinality(Granted) + 1
  BY <1>1, FS_AddElement
<1> QED
  BY <1>1, <1>2 DEF Inv, TokensConserved, TypeOK

LEMMA OneReturned ==
    ASSUME Inv, NEW t \in Granted, Granted' = Granted \ {t},
           count' = count, tokens' = tokens - 1
    PROVE  TokensConserved' /\ tokens' \in Nat
<1>1. IsFiniteSet(Granted) /\ Cardinality(Granted) \in Nat
  BY GrantedCardinality
<1>2. Cardinality(Granted \ {t}) = Cardinality(Granted) - 1
  BY <1>1, FS_RemoveElement
<1>3. Cardinality(Granted \ {t}) \in Nat
  BY <1>1, FS_RemoveElement, FS_CardinalityType
<1> QED
  BY <1>1, <1>2, <1>3 DEF Inv, TokensConserved, TypeOK

\* Who waits and who has a token depends on three variables.
LEMMA SameWaiters ==
    ASSUME UNCHANGED <<wait_list, timed_out>>,
           \A t \in Tasks : pc'[t] \in InTake <=> pc[t] \in InTake
    PROVE  Waiting' = Waiting /\ Granted' = Granted
<1>1. Waiting' = Waiting
  BY DEF Waiting, Elements
<1> QED
  BY <1>1 DEF Granted, InTake

LEMMA InitInv ==
    ASSUME Init
    PROVE  Inv /\ Abstract!Init
<1>1. Waiting = {} /\ Len(wait_list) = 0
  BY DEF Init, Waiting, Elements
<1>2. Granted = {}
  BY DEF Init, Granted
<1>3. Cardinality(Granted) = 0
  BY <1>2, FS_EmptySet
<1>4. TypeOK
  <2>1. DispatcherTypeOK
    BY DEF Init, DispatcherInit, DispatcherTypeOK, Candidates
  <2>2. count \in 0 .. MaxCount /\ max_count = MaxCount /\ tokens \in Nat
    BY CountAssumption DEF Init
  <2>3. wait_list \in Seq(Tasks \ {Idle})
    BY DEF Init
  <2>4. /\ timed_out \in [Tasks -> BOOLEAN]
        /\ pc \in [Tasks -> {"run", "yield", "take", "resumed", "give"}]
        /\ woken \in [Tasks -> Tasks]
    BY DispatcherAssumption DEF Init
  <2> QED
    BY <2>1, <2>2, <2>3, <2>4 DEF TypeOK
<1>5. ListInv
  BY <1>1 DEF ListInv, Distinct, ByPriority, Init, InTake
<1>6. RunInv
  BY DispatcherAssumption DEF RunInv, Init, DispatcherInit, Candidates
<1>7. PreemptInv
  BY <1>2 DEF PreemptInv
<1>8. TokensConserved /\ (max_count = 0 => count = 0)
  BY <1>3, CountAssumption DEF TokensConserved, Init
<1>9. Abstract!Init
  BY <1>1, <1>2 DEF Abstract!Init, Init
<1> QED
  BY <1>4, <1>5, <1>6, <1>7, <1>8, <1>9 DEF Inv

-----------------------------------------------------------------------------
\* Steps that leave the wait list and the task states alone.

\* Only tokens nobody has are added or taken.
LEMMA CountStep ==
    ASSUME Inv, UNCHANGED <<dispatcher, wait_list, timed_out, pc, woken>>,
           count' \in 0 .. MaxCount, max_count' \in {0, MaxCount},
           max_count' = 0 => count' = 0,
           tokens' - count' = tokens - count, tokens' \in Int
    PROVE  Inv' /\ Waiting' = Waiting /\ Granted' = Granted
<1>1. Waiting' = Waiting /\ Granted' = Granted
  BY SameWaiters
<1>2. count' \in Nat
  BY CountAssumption
<1>3. TokensConserved' /\ tokens' \in Nat
  BY <1>1, <1>2, SameTokens
<1>4. TypeOK'
  BY <1>3 DEF Inv, TypeOK, DispatcherTypeOK, dispatcher
<1>5. ListInv'
  BY <1>1 DEF Inv, ListInv, Distinct, ByPriority, dispatcher
<1>6. RunInv' /\ PreemptInv'
  BY <1>1 DEF Inv, RunInv, PreemptInv, dispatcher
<1> QED
  BY <1>1, <1>3, <1>4, <1>5, <1>6 DEF Inv

\* The six steps of that kind.
LEMMA CountSteps ==
    ASSUME Inv,
           \/ \E t \in Takers :
                 \/ TakeNow(t) \/ Give(t)
                 \/ \E initial \in 0 .. MaxCount : Create(t, initial)
           \/ TakeFromISR \/ GiveFromISR
    PROVE  Inv' /\ AbstractStep
<1>1. count \in 0 .. MaxCount /\ tokens \in Nat /\ max_count \in {0, MaxCount}
      /\ (max_count = 0 => count = 0)
  BY DEF Inv, TypeOK
<1>2. CASE (\E t \in Takers : TakeNow(t)) \/ TakeFromISR
  <2>1. /\ UNCHANGED <<dispatcher, wait_list, timed_out, pc, woken>>
        /\ count > 0 /\ count' = count - 1 /\ tokens' = tokens - 1
        /\ max_count' = max_count
    BY <1>2 DEF TakeNow, TakeFromISR
  <2>2. Inv' /\ Waiting' = Waiting /\ Granted' = Granted
    BY <1>1, <2>1, CountStep, CountAssumption
  <2>3. Abstract!Acquire
    BY <2>1, <2>2 DEF Abstract!Acquire
  <2> QED
    BY <2>2, <2>3 DEF AbstractStep, Abstract!Next
<1>3. CASE (\E t \in Takers : Give(t)) \/ GiveFromISR
  <2>1. /\ UNCHANGED <<dispatcher, wait_list, timed_out, pc, woken>>
        /\ count < max_count /\ count' = count + 1 /\ tokens' = tokens + 1
        /\ max_count' = max_count /\ wait_list = << >>
    BY <1>3 DEF Give, GiveFromISR
  <2>2. Inv' /\ Waiting' = Waiting /\ Granted' = Granted
    BY <1>1, <2>1, CountStep, CountAssumption
  <2>3. Waiting = {}
    BY <2>1 DEF Waiting, Elements
  <2>4. Abstract!Release
    BY <1>1, <2>1, <2>2, <2>3, CountAssumption DEF Abstract!Release
  <2> QED
    BY <2>2, <2>4 DEF AbstractStep, Abstract!Next
<1>4. CASE \E t \in Takers : \E initial \in 0 .. MaxCount : Create(t, initial)
  <2>1. PICK initial \in 0 .. MaxCount :
            /\ UNCHANGED <<dispatcher, wait_list, timed_out, pc, woken>>
            /\ max_count = 0 /\ count' = initial /\ tokens' = tokens + initial
            /\ max_count' = MaxCount /\ wait_list = << >>
    BY <1>4 DEF Create
  <2>2. Inv' /\ Waiting' = Waiting /\ Granted' = Granted
    BY <1>1, <2>1, CountStep, CountAssumption
  <2>3. Waiting = {}
    BY <2>1 DEF Waiting, Elements
  <2>4. Abstract!Create
    BY <1>1, <2>1, <2>2, <2>3 DEF Abstract!Create
  <2> QED
    BY <2>2, <2>4 DEF AbstractStep, Abstract!Next
<1> QED
  BY <1>2, <1>3, <1>4

\* PendSV: the task chosen is of the highest priority, so no task with a token is
\* left behind by it.
LEMMA SwitchStep ==
    ASSUME Inv, Switch, UNCHANGED semaphore
    PROVE  Inv' /\ AbstractStep
<1>1. UNCHANGED <<count, max_count, wait_list, timed_out, pc, woken, tokens, priority>>
  BY DEF Switch, semaphore
<1>2. PICK c \in Candidates(state) :
          /\ current' = c
          /\ state' = [u \in Tasks |-> IF u = c THEN "RUNNING"
                                       ELSE IF u = current /\ state[u] = "RUNNING"
                                       THEN "READY" ELSE state[u]]
  BY DEF Switch
<1>3. c \in Tasks /\ state[c] # "BLOCKED"
      /\ \A u \in Tasks : state[u] # "BLOCKED" => priority[c] <= priority[u]
  BY <1>2 DEF Candidates
<1>4. Waiting' = Waiting /\ Granted' = Granted
  BY <1>1, SameWaiters
<1>5. \A u \in Tasks : state'[u] = "BLOCKED" <=> state[u] = "BLOCKED"
  BY <1>2, <1>3
<1>6. TypeOK'
  <2>1. state' \in [Tasks -> {"READY", "RUNNING", "BLOCKED"}] /\ pendsv' \in BOOLEAN
    BY <1>2 DEF Inv, TypeOK, DispatcherTypeOK, Switch
  <2> QED
    BY <1>1, <1>2, <1>3, <2>1 DEF Inv, TypeOK, DispatcherTypeOK
<1>7. ListInv'
  BY <1>1, <1>4, <1>5 DEF Inv, ListInv, Distinct, ByPriority
<1>8. RunInv'
  BY <1>1, <1>2, <1>3, <1>5, DispatcherAssumption DEF Inv, RunInv
<1>9. PreemptInv'
  <2>1. \A t \in Granted' : state'[t] = "READY" => priority'[current'] <= priority'[t]
    BY <1>1, <1>2, <1>3, <1>4, <1>5 DEF Granted
  <2> QED
    BY <2>1 DEF PreemptInv
<1>10. TokensConserved' /\ (max_count' = 0 => count' = 0)
  BY <1>1, <1>4 DEF Inv, TokensConserved
<1> QED
  BY <1>1, <1>4, <1>6, <1>7, <1>8, <1>9, <1>10 DEF Inv, AbstractStep

\* A switch is asked for: by an interrupt, or by a task (os_sched_yield).
LEMMA RequestStep ==
    ASSUME Inv,
           \/ RequestSwitch /\ UNCHANGED semaphore
           \/ \E t \in Takers : Yield(t)
    PROVE  Inv' /\ AbstractStep
<1>1. /\ UNCHANGED <<state, priority, current, count, max_count, wait_list,
                     timed_out, woken, tokens>>
      /\ pendsv' = TRUE
  BY DEF RequestSwitch, Yield, semaphore
<1>2. /\ pc' \in [Tasks -> {"run", "yield", "take", "resumed", "give"}]
      /\ \A t \in Tasks : pc'[t] \in InTake <=> pc[t] \in InTake
      /\ pc'[Idle] = "run"
  <2>1. CASE UNCHANGED semaphore
    BY <2>1 DEF semaphore, Inv, TypeOK, RunInv
  <2>2. CASE \E t \in Takers : Yield(t)
    BY <2>2, DispatcherAssumption DEF Yield, Goto, InTake, Inv, TypeOK, RunInv, Takers
  <2> QED
    BY <2>1, <2>2
<1>3. Waiting' = Waiting /\ Granted' = Granted
  BY <1>1, <1>2, SameWaiters
<1>4. TypeOK'
  BY <1>1, <1>2 DEF Inv, TypeOK, DispatcherTypeOK
<1>5. ListInv'
  BY <1>1, <1>2, <1>3 DEF Inv, ListInv, Distinct, ByPriority
<1>6. RunInv' /\ PreemptInv'
  BY <1>1, <1>2 DEF Inv, RunInv, PreemptInv
<1>7. TokensConserved' /\ (max_count' = 0 => count' = 0)
  BY <1>1, <1>3 DEF Inv, TokensConserved
<1> QED
  BY <1>1, <1>3, <1>4, <1>5, <1>6, <1>7 DEF Inv, AbstractStep

-----------------------------------------------------------------------------
\* Steps of os_sem_take.

\* A task that executes outside os_sem_take neither waits nor has a token.
LEMMA CallerIsFree ==
    ASSUME Inv, NEW t \in Takers, Executes(t), pc[t] \notin InTake
    PROVE  t \in Tasks /\ t # Idle /\ t \notin Waiting /\ t \notin Granted
BY DEF Inv, ListInv, Granted, Takers, InTake

LEMMA TakeBlocksStep ==
    ASSUME Inv, NEW t \in Takers, TakeBlocks(t)
    PROVE  Inv' /\ AbstractStep
<1>1. /\ UNCHANGED <<priority, current, pendsv, count, max_count, woken, tokens>>
      /\ timed_out' = [timed_out EXCEPT ![t] = FALSE]
      /\ state' = [state EXCEPT ![t] = "BLOCKED"]
      /\ pc' = [pc EXCEPT ![t] = "take"]
      /\ wait_list' = Inserted(wait_list, t)
      /\ count = 0 /\ Executes(t) /\ pc[t] = "run" /\ t = current
  BY DEF TakeBlocks, Calls, Executes, Block, Goto
<1>2. t \in Tasks /\ t # Idle /\ t \notin Waiting /\ t \notin Granted
  BY <1>1, CallerIsFree DEF InTake
<1>3. /\ wait_list' \in Seq(Takers) /\ Waiting' = Waiting \cup {t}
      /\ Distinct(wait_list') /\ ByPriority(wait_list')
  <2>1. priority \in [Tasks -> Priorities] /\ wait_list \in Seq(Takers)
        /\ Distinct(wait_list) /\ ByPriority(wait_list)
    BY DEF Inv, TypeOK, DispatcherTypeOK, ListInv, Takers
  <2> QED
    BY <1>1, <1>2, <2>1, InsertedIs, WaitingElements
<1>4. /\ state \in [Tasks -> {"READY", "RUNNING", "BLOCKED"}]
      /\ pc \in [Tasks -> {"run", "yield", "take", "resumed", "give"}]
      /\ timed_out \in [Tasks -> BOOLEAN]
  BY DEF Inv, TypeOK, DispatcherTypeOK
<1>5. Granted' = Granted
  BY <1>1, <1>2, <1>3, <1>4 DEF Granted
<1>6. TypeOK'
  BY <1>1, <1>3, <1>4 DEF Inv, TypeOK, DispatcherTypeOK, Takers
<1>7. ListInv'
  <2>1. Waiting' = {u \in Tasks : pc'[u] \in InTake /\ state'[u] = "BLOCKED"}
    BY <1>1, <1>2, <1>3, <1>4 DEF Inv, ListInv, InTake
  <2>2. Distinct(wait_list)' /\ ByPriority(wait_list)'
    BY <1>1, <1>3 DEF Distinct, ByPriority
  <2> QED
    BY <2>1, <2>2 DEF ListInv
<1>8. RunInv' /\ PreemptInv'
  BY <1>1, <1>2, <1>4, DispatcherAssumption DEF Inv, RunInv, PreemptInv
<1>9. TokensConserved' /\ (max_count' = 0 => count' = 0)
  BY <1>1, <1>5 DEF Inv, TokensConserved
<1>10. Abstract!Wait(t)
  BY <1>1, <1>2, <1>3, <1>5 DEF Abstract!Wait
<1> QED
  BY <1>6, <1>7, <1>8, <1>9, <1>10 DEF Inv, AbstractStep, Abstract!Next, Takers

LEMMA ResumedStep ==
    ASSUME Inv, NEW t \in Takers, Resumed(t)
    PROVE  Inv' /\ AbstractStep
<1>1. /\ UNCHANGED <<state, priority, current, pendsv, count, max_count, wait_list,
                     timed_out, woken>>
      /\ pc' = [pc EXCEPT ![t] = "run"]
      /\ tokens' = IF timed_out[t] THEN tokens ELSE tokens - 1
      /\ t = current /\ pc[t] = "resumed" /\ ~pendsv /\ t \in Tasks /\ t # Idle
  BY DEF Resumed, Executes, Goto, dispatcher, Takers
<1>2. t \notin Waiting /\ state[t] # "BLOCKED"
  BY <1>1 DEF Inv, RunInv, ListInv
<1>3. pc \in [Tasks -> {"run", "yield", "take", "resumed", "give"}]
  BY DEF Inv, TypeOK
<1>4. Waiting' = Waiting
  BY <1>1 DEF Waiting, Elements
<1>5. Granted' = Granted \ {t}
  BY <1>1, <1>3, <1>4 DEF Granted
<1>6. /\ TokensConserved' /\ tokens' \in Nat
      /\ AbstractStep
  <2>1. CASE timed_out[t]
    <3>1. Granted' = Granted
      BY <1>5, <2>1 DEF Granted
    <3>2. tokens' = tokens /\ count' = count
      BY <1>1, <2>1
    <3> QED
      BY <1>1, <1>4, <3>1, <3>2 DEF AbstractStep, Inv, TokensConserved, TypeOK
  <2>2. CASE ~timed_out[t]
    <3>1. t \in Granted
      BY <1>1, <1>2, <2>2 DEF Granted
    <3>2. TokensConserved' /\ tokens' \in Nat
      BY <1>1, <1>5, <2>2, <3>1, OneReturned
    <3>3. Abstract!Return(t)
      BY <1>1, <1>4, <1>5, <3>1 DEF Abstract!Return
    <3> QED
      BY <3>2, <3>3 DEF AbstractStep, Abstract!Next, Takers
  <2> QED
    BY <2>1, <2>2
<1>7. TypeOK'
  BY <1>1, <1>3, <1>6 DEF Inv, TypeOK, DispatcherTypeOK
<1>8. ListInv'
  <2>1. Waiting' = {u \in Tasks : pc'[u] \in InTake /\ state'[u] = "BLOCKED"}
    BY <1>1, <1>2, <1>3, <1>4 DEF Inv, ListInv, InTake
  <2> QED
    BY <1>1, <2>1 DEF Inv, ListInv, Distinct, ByPriority
<1>9. RunInv' /\ PreemptInv'
  BY <1>1, <1>2, <1>3, <1>5, DispatcherAssumption DEF Inv, RunInv, PreemptInv
<1> QED
  BY <1>1, <1>6, <1>7, <1>8, <1>9 DEF Inv

-----------------------------------------------------------------------------
\* Steps of os_sem_give and os_sem_delete.

\* The first waiting task gets the token and is made ready.
LEMMA WakeFirstIs ==
    ASSUME Inv, wait_list # << >>, WakeFirst,
           \A u \in Tasks : pc'[u] \in InTake <=> pc[u] \in InTake
    PROVE  LET w == Head(wait_list)
           IN  /\ w \in Takers /\ w \in Waiting /\ w \notin Granted
               /\ state[w] = "BLOCKED" /\ pc[w] \in InTake
               /\ wait_list' \in Seq(Takers)
               /\ Waiting' = Waiting \ {w}
               /\ Granted' = Granted \cup {w}
               /\ Distinct(wait_list') /\ ByPriority(wait_list')
               /\ state' \in [Tasks -> {"READY", "RUNNING", "BLOCKED"}]
               /\ timed_out' \in [Tasks -> BOOLEAN]
               /\ \A u \in Tasks : state'[u] = IF u = w THEN "READY" ELSE state[u]
<1> DEFINE w == Head(wait_list)
<1>1. priority \in [Tasks -> Priorities] /\ wait_list \in Seq(Takers)
      /\ Distinct(wait_list) /\ ByPriority(wait_list)
  BY DEF Inv, TypeOK, DispatcherTypeOK, ListInv, Takers
<1>2. /\ wait_list' = Tail(wait_list)
      /\ state' = [u \in Tasks |-> IF u \in {w} THEN "READY" ELSE state[u]]
      /\ timed_out' = [timed_out EXCEPT ![w] = FALSE]
  BY DEF WakeFirst, MakeReady
<1>3. /\ Tail(wait_list) \in Seq(Takers) /\ w \in Elements(wait_list)
      /\ Elements(Tail(wait_list)) = Elements(wait_list) \ {w}
      /\ Distinct(Tail(wait_list)) /\ ByPriority(Tail(wait_list))
  BY <1>1, TailIs
<1> HIDE DEF w
<1>4. /\ wait_list' \in Seq(Takers) /\ w \in Waiting /\ Waiting' = Waiting \ {w}
      /\ Distinct(wait_list') /\ ByPriority(wait_list')
  BY <1>2, <1>3, WaitingElements
<1>5. w \in Tasks /\ state[w] = "BLOCKED" /\ pc[w] \in InTake /\ w # Idle /\ w \notin Granted
  BY <1>4 DEF Inv, ListInv, RunInv, Granted
<1>6. /\ state \in [Tasks -> {"READY", "RUNNING", "BLOCKED"}]
      /\ timed_out \in [Tasks -> BOOLEAN]
  BY DEF Inv, TypeOK, DispatcherTypeOK
<1>7. Granted' = Granted \cup {w}
  BY <1>2, <1>4, <1>5, <1>6 DEF Granted, InTake
<1>8. /\ state' \in [Tasks -> {"READY", "RUNNING", "BLOCKED"}]
      /\ timed_out' \in [Tasks -> BOOLEAN]
      /\ \A u \in Tasks : state'[u] = IF u = w THEN "READY" ELSE state[u]
  BY <1>2, <1>6
<1> QED
  BY <1>4, <1>5, <1>7, <1>8 DEF w, Takers

LEMMA GiveToWaiterStep ==
    ASSUME Inv, (\E t \in Takers : GiveToWaiter(t)) \/ GiveToWaiterFromISR
    PROVE  Inv' /\ AbstractStep
<1> DEFINE w == Head(wait_list)
<1>1. /\ wait_list # << >> /\ WakeFirst /\ tokens' = tokens + 1
      /\ UNCHANGED <<priority, current, count, max_count>>
      /\ \/ pendsv' = TRUE /\ UNCHANGED <<pc, woken>>
         \/ /\ pendsv' = pendsv /\ ~pendsv /\ current # Idle /\ pc[current] = "run"
            /\ woken' = [woken EXCEPT ![current] = w]
            /\ pc' = [pc EXCEPT ![current] = "give"]
  BY DEF GiveToWaiter, GiveToWaiterFromISR, Calls, Executes, Goto
<1>2. /\ pc \in [Tasks -> {"run", "yield", "take", "resumed", "give"}]
      /\ woken \in [Tasks -> Tasks] /\ current \in Tasks /\ pc[Idle] = "run"
      /\ count \in Nat /\ tokens \in Nat
  BY CountAssumption DEF Inv, TypeOK, DispatcherTypeOK, RunInv
<1>3. \A u \in Tasks : pc'[u] \in InTake <=> pc[u] \in InTake
  BY <1>1, <1>2 DEF InTake
<1>4. /\ w \in Takers /\ w \in Waiting /\ w \notin Granted
      /\ state[w] = "BLOCKED" /\ pc[w] \in InTake
      /\ wait_list' \in Seq(Takers)
      /\ Waiting' = Waiting \ {w}
      /\ Granted' = Granted \cup {w}
      /\ Distinct(wait_list') /\ ByPriority(wait_list')
      /\ state' \in [Tasks -> {"READY", "RUNNING", "BLOCKED"}]
      /\ timed_out' \in [Tasks -> BOOLEAN]
      /\ \A u \in Tasks : state'[u] = IF u = w THEN "READY" ELSE state[u]
  BY <1>1, <1>3, WakeFirstIs
<1> HIDE DEF w
<1>5. w \in Tasks /\ w # Idle
  BY <1>4 DEF Takers
<1>6. /\ pc' \in [Tasks -> {"run", "yield", "take", "resumed", "give"}]
      /\ woken' \in [Tasks -> Tasks] /\ pc'[Idle] = "run"
  BY <1>1, <1>2, <1>5, DispatcherAssumption
<1>7. TokensConserved' /\ tokens' \in Nat
  BY <1>1, <1>4, OneGranted
<1>8. TypeOK'
  BY <1>1, <1>4, <1>6, <1>7 DEF Inv, TypeOK, DispatcherTypeOK, Takers
<1>9. ListInv'
  <2>1. Waiting' = {u \in Tasks : pc'[u] \in InTake /\ state'[u] = "BLOCKED"}
    BY <1>3, <1>4, <1>5 DEF Inv, ListInv
  <2>2. Distinct(wait_list)' /\ ByPriority(wait_list)'
    BY <1>1, <1>4 DEF Distinct, ByPriority
  <2> QED
    BY <2>1, <2>2 DEF ListInv
<1>10. RunInv'
  BY <1>1, <1>2, <1>4, <1>5, <1>6, DispatcherAssumption DEF Inv, RunInv
<1>11. PreemptInv'
  <2>1. CASE pendsv' = TRUE
    BY <2>1 DEF PreemptInv
  <2>2. CASE pendsv' # TRUE
    <3>1. /\ ~pendsv /\ pc[current] = "run" /\ pc'[current] = "give"
          /\ woken'[current] = w
      BY <1>1, <1>2, <2>2
    <3>2. \A u \in Granted : state[u] = "READY" => priority[current] <= priority[u]
      BY <3>1 DEF Inv, PreemptInv
    <3>3. \A u \in Granted' : state'[u] = "READY" =>
              \/ priority'[current'] <= priority'[u]
              \/ pc'[current'] = "give" /\ u = woken'[current']
      BY <1>1, <1>4, <3>1, <3>2 DEF Granted
    <3> QED
      BY <3>3 DEF PreemptInv
  <2> QED
    BY <2>1, <2>2
<1>12. Abstract!Grant(w)
  BY <1>1, <1>4 DEF Abstract!Grant
<1> QED
  BY <1>1, <1>4, <1>7, <1>8, <1>9, <1>10, <1>11, <1>12
     DEF Inv, AbstractStep, Abstract!Next, Takers

\* The end of os_sem_give.
LEMMA GivePreemptsStep ==
    ASSUME Inv, NEW t \in Takers, GivePreempts(t)
    PROVE  Inv' /\ AbstractStep
<1>1. /\ UNCHANGED <<state, priority, current, pendsv, count, max_count, wait_list,
                     timed_out, tokens>>
      /\ t = current /\ t \in Tasks /\ t # Idle /\ pc[t] = "give" /\ ~pendsv
      /\ pc' = [pc EXCEPT ![t] = IF priority[woken[t]] < priority[t] THEN "yield" ELSE "run"]
      /\ woken' = [woken EXCEPT ![t] = Idle]
  BY DEF GivePreempts, Executes, Goto, dispatcher, Takers
<1>2. /\ pc \in [Tasks -> {"run", "yield", "take", "resumed", "give"}]
      /\ woken \in [Tasks -> Tasks] /\ priority \in [Tasks -> Priorities]
  BY DEF Inv, TypeOK, DispatcherTypeOK
<1>3. \A u \in Tasks : pc'[u] \in InTake <=> pc[u] \in InTake
  BY <1>1, <1>2 DEF InTake
<1>4. Waiting' = Waiting /\ Granted' = Granted
  BY <1>1, <1>3, SameWaiters
<1>5. TypeOK'
  BY <1>1, <1>2, DispatcherAssumption DEF Inv, TypeOK, DispatcherTypeOK
<1>6. ListInv'
  BY <1>1, <1>3, <1>4 DEF Inv, ListInv, Distinct, ByPriority
<1>7. RunInv'
  BY <1>1, <1>2, DispatcherAssumption DEF Inv, RunInv
<1>8. PreemptInv'
  <2>1. CASE priority[woken[t]] < priority[t]
    <3>1. pc'[current'] = "yield"
      BY <1>1, <1>2, <2>1
    <3> QED
      BY <3>1 DEF PreemptInv
  <2>2. CASE ~(priority[woken[t]] < priority[t])
    <3>1. priority[t] <= priority[woken[t]]
      BY <1>1, <1>2, <2>2 DEF Priorities
    <3>2. \A u \in Granted : state[u] = "READY" => priority[t] <= priority[u]
      BY <1>1, <3>1 DEF Inv, PreemptInv
    <3> QED
      BY <1>1, <1>4, <3>2 DEF PreemptInv
  <2> QED
    BY <2>1, <2>2
<1>9. TokensConserved' /\ (max_count' = 0 => count' = 0)
  BY <1>1, <1>4 DEF Inv, TokensConserved
<1> QED
  BY <1>1, <1>4, <1>5, <1>6, <1>7, <1>8, <1>9 DEF Inv, AbstractStep

LEMMA DeleteStep ==
    ASSUME Inv, NEW t \in Takers, Delete(t)
    PROVE  Inv' /\ AbstractStep
<1>1. /\ UNCHANGED <<priority, current, pendsv, pc, woken>>
      /\ state' = [u \in Tasks |-> IF u \in Waiting THEN "READY" ELSE state[u]]
      /\ timed_out' = [u \in Tasks |-> IF u \in Waiting THEN TRUE ELSE timed_out[u]]
      /\ wait_list' = << >> /\ count' = 0 /\ max_count' = 0 /\ tokens' = tokens - count
  BY DEF Delete, MakeReady
<1>2. /\ state \in [Tasks -> {"READY", "RUNNING", "BLOCKED"}]
      /\ timed_out \in [Tasks -> BOOLEAN] /\ count \in Nat /\ tokens \in Nat
  BY CountAssumption DEF Inv, TypeOK, DispatcherTypeOK
<1>3. Waiting' = {} /\ Len(wait_list') = 0
  BY <1>1 DEF Waiting, Elements
<1>4. Granted' = Granted
  BY <1>1, <1>2, <1>3 DEF Granted
<1>5. TokensConserved' /\ tokens' \in Nat
  BY <1>1, <1>2, <1>4, SameTokens
<1>6. TypeOK'
  <2>1. state' \in [Tasks -> {"READY", "RUNNING", "BLOCKED"}]
        /\ timed_out' \in [Tasks -> BOOLEAN]
    BY <1>1, <1>2
  <2>2. wait_list' \in Seq(Tasks \ {Idle}) /\ count' \in 0 .. MaxCount
    BY <1>1, CountAssumption
  <2> QED
    BY <1>1, <1>5, <2>1, <2>2 DEF Inv, TypeOK, DispatcherTypeOK
<1>7. ListInv'
  <2>1. \A u \in Tasks : ~(pc'[u] \in InTake /\ state'[u] = "BLOCKED")
    BY <1>1, <1>2 DEF Inv, ListInv
  <2> QED
    BY <1>1, <1>3, <2>1 DEF ListInv, Distinct, ByPriority
<1>8. RunInv'
  BY <1>1, <1>2, DispatcherAssumption DEF Inv, RunInv, TypeOK, DispatcherTypeOK
<1>9. PreemptInv'
  <2>1. \A u \in Granted : state'[u] = state[u]
    BY <1>1 DEF Granted
  <2> QED
    BY <1>1, <1>4, <2>1 DEF Inv, PreemptInv
<1>10. Abstract!Delete
  BY <1>1, <1>3, <1>4 DEF Abstract!Delete
<1> QED
  BY <1>1, <1>5, <1>6, <1>7, <1>8, <1>9, <1>10 DEF Inv, AbstractStep, Abstract!Next

\* os_task_delay and its end: tasks outside os_sem_take.
LEMMA DelayStep ==
    ASSUME Inv, NEW t \in Takers, Delay(t) \/ DelayEnds(t)
    PROVE  Inv' /\ AbstractStep
<1>1. /\ UNCHANGED <<priority, current, pendsv, count, max_count, wait_list,
                     timed_out, woken, tokens>>
      /\ t \in Tasks /\ t # Idle
  BY DEF Delay, DelayEnds, semaphore, Takers
<1>2. /\ state \in [Tasks -> {"READY", "RUNNING", "BLOCKED"}]
      /\ pc \in [Tasks -> {"run", "yield", "take", "resumed", "give"}]
  BY DEF Inv, TypeOK, DispatcherTypeOK
<1>3. pc[t] \notin InTake
  <2>1. CASE Delay(t)
    BY <2>1 DEF Delay, Calls, InTake
  <2>2. CASE DelayEnds(t)
    BY <1>1, <2>2 DEF DelayEnds, Inv, ListInv
  <2> QED
    BY <2>1, <2>2
<1>4. /\ state' \in [Tasks -> {"READY", "RUNNING", "BLOCKED"}]
      /\ pc' \in [Tasks -> {"run", "yield", "take", "resumed", "give"}]
      /\ pc'[t] \notin InTake
      /\ \A u \in Tasks : u # t => state'[u] = state[u] /\ pc'[u] = pc[u]
  <2>1. CASE Delay(t)
    BY <1>1, <1>2, <2>1 DEF Delay, Block, Goto, InTake
  <2>2. CASE DelayEnds(t)
    BY <1>1, <1>2, <1>3, <2>2 DEF DelayEnds, MakeReady, semaphore
  <2> QED
    BY <2>1, <2>2
<1>5. Waiting' = Waiting /\ Granted' = Granted
  BY <1>1, <1>3, <1>4, SameWaiters
<1>6. TypeOK'
  BY <1>1, <1>4 DEF Inv, TypeOK, DispatcherTypeOK
<1>7. ListInv'
  <2>1. Waiting' = {u \in Tasks : pc'[u] \in InTake /\ state'[u] = "BLOCKED"}
    BY <1>3, <1>4, <1>5 DEF Inv, ListInv
  <2> QED
    BY <1>1, <2>1 DEF Inv, ListInv, Distinct, ByPriority
<1>8. /\ t \notin Granted
      /\ Idle \in Tasks
  BY <1>3, DispatcherAssumption DEF Granted, InTake
<1>9. RunInv' /\ PreemptInv'
  <2>1. CASE Delay(t)
    <3>1. t = current /\ pc'[t] = "yield"
      BY <1>1, <1>2, <2>1 DEF Delay, Calls, Executes, Goto
    <3> QED
      BY <1>1, <1>4, <1>8, <3>1 DEF Inv, RunInv, PreemptInv
  <2>2. CASE DelayEnds(t)
    <3>1. pc' = pc /\ state'[t] = "READY"
      BY <1>1, <1>2, <2>2 DEF DelayEnds, MakeReady, semaphore
    <3>2. RunInv'
      BY <1>1, <1>4, <1>8, <3>1 DEF Inv, RunInv, TypeOK, DispatcherTypeOK
    <3>3. \A u \in Granted : u \in Tasks /\ u # t /\ state'[u] = state[u]
      BY <1>4, <1>8 DEF Granted
    <3>4. PreemptInv'
      BY <1>1, <1>5, <3>1, <3>3 DEF Inv, PreemptInv
    <3> QED
      BY <3>2, <3>4
  <2> QED
    BY <2>1, <2>2
<1>10. TokensConserved' /\ (max_count' = 0 => count' = 0)
  BY <1>1, <1>5 DEF Inv, TokensConserved
<1> QED
  BY <1>1, <1>5, <1>6, <1>7, <1>9, <1>10 DEF Inv, AbstractStep

-----------------------------------------------------------------------------
\* The theorems.

LEMMA Step ==
    ASSUME Inv, [Next]_vars
    PROVE  Inv' /\ AbstractStep
<1>1. CASE UNCHANGED vars
  <2>1. UNCHANGED <<state, priority, current, pendsv, count, max_count, wait_list,
                    timed_out, pc, woken, tokens>>
    BY <1>1 DEF vars
  <2>2. Waiting' = Waiting /\ Granted' = Granted
    BY <2>1, SameWaiters
  <2>3. TypeOK' /\ ListInv'
    BY <2>1, <2>2 DEF Inv, TypeOK, DispatcherTypeOK, ListInv, Distinct, ByPriority
  <2>4. RunInv' /\ PreemptInv' /\ TokensConserved' /\ (max_count' = 0 => count' = 0)
    BY <2>1, <2>2 DEF Inv, RunInv, PreemptInv, TokensConserved
  <2> QED
    BY <2>1, <2>2, <2>3, <2>4 DEF Inv, AbstractStep
<1>2. CASE \E t \in Takers :
              \/ TakeNow(t) \/ Give(t)
              \/ \E initial \in 0 .. MaxCount : Create(t, initial)
  BY <1>2, CountSteps
<1>3. CASE TakeFromISR \/ GiveFromISR
  BY <1>3, CountSteps
<1>4. CASE \E t \in Takers : TakeBlocks(t)
  BY <1>4, TakeBlocksStep
<1>5. CASE \E t \in Takers : Resumed(t)
  BY <1>5, ResumedStep
<1>6. CASE (\E t \in Takers : GiveToWaiter(t)) \/ GiveToWaiterFromISR
  BY <1>6, GiveToWaiterStep
<1>7. CASE \E t \in Takers : GivePreempts(t)
  BY <1>7, GivePreemptsStep
<1>8. CASE \E t \in Takers : Delete(t)
  BY <1>8, DeleteStep
<1>9. CASE \E t \in Takers : Delay(t) \/ DelayEnds(t)
  BY <1>9, DelayStep
<1>10. CASE (\E t \in Takers : Yield(t)) \/ (RequestSwitch /\ UNCHANGED semaphore)
  BY <1>10, RequestStep
<1>11. CASE Switch /\ UNCHANGED semaphore
  BY <1>11, SwitchStep
<1> QED
  BY <1>1, <1>2, <1>3, <1>4, <1>5, <1>6, <1>7, <1>8, <1>9, <1>10, <1>11
     DEF Next, os_sem_take, os_sem_give, os_sem_give_from_isr, Takers

LEMMA Invariance == Spec => []Inv
<1>1. Init => Inv
  BY InitInv
<1>2. Inv /\ [Next]_vars => Inv'
  BY Step
<1> QED
  BY <1>1, <1>2, PTL DEF Spec

\* Type correctness of the semaphore, for every number of tasks and tokens.
THEOREM SemaphoreTypeCorrect == Spec => []TypeOK
<1>1. Inv => TypeOK
  BY DEF Inv
<1> QED
  BY <1>1, Invariance, PTL

\* No token is lost or made up by os_sem_take, os_sem_give, their forms for
\* interrupts and os_sem_delete.
THEOREM SemaphoreConserves == Spec => []TokensConserved
<1>1. Inv => TokensConserved
  BY DEF Inv
<1> QED
  BY <1>1, Invariance, PTL

\* The wait list holds each blocked taker once, by priority.
THEOREM WaitListCorrect == Spec => []WaitListExact
<1>1. ASSUME Inv PROVE WaitListExact
  <2>1. \A i, j \in 1 .. Len(wait_list) :
            i < j => /\ wait_list[i] # wait_list[j]
                     /\ priority[wait_list[i]] <= priority[wait_list[j]]
    BY <1>1 DEF Inv, ListInv, Distinct, ByPriority
  <2> QED
    BY <1>1, <2>1 DEF Inv, ListInv, WaitListExact, Ordered, InTake
<1> QED
  BY <1>1, Invariance, PTL

\* A task that was given a token does not wait for one of lower priority.
THEOREM GrantCorrect == Spec => []GrantedPreempts
<1>1. Inv => GrantedPreempts
  BY DEF Inv, PreemptInv, GrantedPreempts
<1> QED
  BY <1>1, Invariance, PTL

-----------------------------------------------------------------------------
\* The order in which tasks are served.

\* Who was before whom stays so, and who comes anew is behind its equals.
KeepsTurns(old, new) ==
    \A t \in Elements(old) \cap Elements(new), u \in Elements(new) :
        /\ priority[t] = priority[u]
        /\ u \notin Elements(old) \/ Before(old, t, u)
        => Before(new, t, u)

\* prv_block_task
LEMMA InsertedKeepsTurns ==
    ASSUME priority \in [Tasks -> Priorities],
           NEW list \in Seq(Takers), NEW x \in Takers,
           Distinct(list), ByPriority(list), x \notin Elements(list)
    PROVE  KeepsTurns(list, Inserted(list, x))
<1> DEFINE new == Inserted(list, x)
<1>1. /\ Len(list) \in Nat
      /\ \A i \in 1 .. Len(list) : list[i] \in Takers /\ priority[list[i]] \in Int
      /\ priority[x] \in Int
  BY DEF Takers, Priorities
<1>2. PICK n \in 0 .. Len(list) :
          /\ new = PutAfter(list, n, x)
          /\ \A i \in 1 .. n : priority[list[i]] <= priority[x]
          /\ n < Len(list) => priority[x] < priority[list[n + 1]]
  BY InsertedPlace
<1>3. Elements(new) = Elements(list) \cup {x}
  BY InsertedIs
<1> HIDE DEF new
<1>4. x \in Takers /\ n \in 0 .. Len(list)
  OBVIOUS
<1>5. /\ Len(new) = Len(list) + 1
      /\ \A i \in 1 .. Len(list) + 1 :
            new[i] = IF i <= n THEN list[i] ELSE IF i = n + 1 THEN x ELSE list[i - 1]
  <2>1. /\ Len(PutAfter(list, n, x)) = Len(list) + 1
        /\ \A i \in 1 .. Len(list) + 1 :
              PutAfter(list, n, x)[i] =
                  IF i <= n THEN list[i] ELSE IF i = n + 1 THEN x ELSE list[i - 1]
    BY <1>4, InsertAt
  <2>2. new = PutAfter(list, n, x)
    BY <1>2
  <2> QED
    BY <2>1, <2>2
<1> DEFINE to(i) == IF i <= n THEN i ELSE i + 1
<1>6. \A i \in 1 .. Len(list) : to(i) \in 1 .. Len(new) /\ new[to(i)] = list[i]
  BY <1>1, <1>4, <1>5
<1>7. \A i, j \in 1 .. Len(list) : i < j => to(i) < to(j)
  BY <1>1, <1>4
<1>8. n + 1 \in 1 .. Len(new) /\ new[n + 1] = x
  BY <1>1, <1>4, <1>5
<1>9. \A i \in 1 .. Len(list) : i <= n => to(i) < n + 1
  BY <1>1, <1>4
<1> HIDE DEF to
<1> SUFFICES ASSUME NEW t \in Elements(list), NEW u \in Elements(new),
                    priority[t] = priority[u],
                    u \notin Elements(list) \/ Before(list, t, u)
             PROVE  Before(new, t, u)
  BY DEF KeepsTurns, new
<1>10. CASE Before(list, t, u)
  <2>1. PICK i \in 1 .. Len(list), j \in 1 .. Len(list) :
            i < j /\ list[i] = t /\ list[j] = u
    BY <1>10 DEF Before
  <2>2. /\ to(i) \in 1 .. Len(new) /\ to(j) \in 1 .. Len(new) /\ to(i) < to(j)
        /\ new[to(i)] = t /\ new[to(j)] = u
    BY <1>6, <1>7, <2>1
  <2> QED
    BY <2>2 DEF Before
<1>11. CASE u \notin Elements(list)
  <2>1. u = x
    BY <1>3, <1>11
  <2>2. PICK i \in 1 .. Len(list) : list[i] = t
    BY DEF Elements
  <2>3. i <= n
    <3> SUFFICES ASSUME n < i PROVE FALSE
      BY <1>4
    <3>1. n + 1 \in 1 .. Len(list) /\ priority[x] < priority[list[n + 1]]
      BY <1>1, <1>2, <1>4
    <3>2. priority[list[n + 1]] <= priority[list[i]]
      <4>1. n + 1 = i \/ n + 1 < i
        BY <1>4
      <4>2. priority[list[i]] \in Int
        BY <1>1
      <4> QED
        BY <3>1, <4>1, <4>2 DEF ByPriority
    <3>3. priority[list[i]] = priority[x]
      BY <2>1, <2>2
    <3>4. priority[list[n + 1]] \in Int
      BY <1>1, <3>1
    <3> QED
      BY <1>1, <3>1, <3>2, <3>3, <3>4
  <2>4. /\ to(i) \in 1 .. Len(new) /\ new[to(i)] = t /\ to(i) < n + 1
    BY <1>6, <1>9, <2>2, <2>3
  <2> QED
    BY <1>8, <2>1, <2>4 DEF Before
<1> QED
  BY <1>10, <1>11

\* prv_wake_task
LEMMA TailKeepsTurns ==
    ASSUME NEW list \in Seq(Takers), list # << >>, Distinct(list)
    PROVE  KeepsTurns(list, Tail(list))
<1> DEFINE new == Tail(list)
<1>1. /\ Len(list) \in Nat /\ Len(new) = Len(list) - 1
      /\ \A i \in 1 .. (Len(list) - 1) : new[i] = list[i + 1]
  OBVIOUS
<1> HIDE DEF new
<1>2. \A i \in 1 .. Len(new) : i + 1 \in 1 .. Len(list) /\ new[i] = list[i + 1]
  BY <1>1
<1>3. \A i \in 1 .. Len(list) :
          i > 1 => i - 1 \in 1 .. Len(new) /\ new[i - 1] = list[i]
  <2> TAKE i \in 1 .. Len(list)
  <2>1. i > 1 => i - 1 \in 1 .. (Len(list) - 1) /\ (i - 1) + 1 = i
    BY <1>1
  <2> QED
    BY <1>1, <2>1
<1> SUFFICES ASSUME NEW t \in Elements(list), t \in Elements(new),
                    NEW u \in Elements(new),
                    u \notin Elements(list) \/ Before(list, t, u)
             PROVE  Before(new, t, u)
  BY DEF KeepsTurns, new
<1>4. u \in Elements(list)
  BY <1>2 DEF Elements
<1>5. PICK i \in 1 .. Len(list), j \in 1 .. Len(list) :
          i < j /\ list[i] = t /\ list[j] = u
  BY <1>4 DEF Before
<1>6. PICK x \in 1 .. Len(new) : new[x] = t
  BY DEF Elements
<1>7. i = x + 1
  BY <1>2, <1>5, <1>6 DEF Distinct
<1>8. /\ i - 1 \in 1 .. Len(new) /\ new[i - 1] = t
      /\ j - 1 \in 1 .. Len(new) /\ new[j - 1] = u
      /\ i - 1 < j - 1
  <2>1. i > 1 /\ j > 1
    BY <1>1, <1>5, <1>7
  <2> QED
    BY <1>3, <1>5, <2>1
<1> QED
  BY <1>8 DEF Before

\* Tasks of one priority get the tokens in the order in which they blocked.
THEOREM OrderCorrect == Spec => ServedInOrder
<1>1. ASSUME Inv, [Next]_vars PROVE KeepsTurns(wait_list, wait_list')
  <2>1. /\ priority \in [Tasks -> Priorities] /\ wait_list \in Seq(Takers)
        /\ Distinct(wait_list) /\ ByPriority(wait_list)
    BY <1>1 DEF Inv, TypeOK, DispatcherTypeOK, ListInv, Takers
  <2>2. CASE wait_list' = wait_list
    BY <2>2 DEF KeepsTurns
  <2>3. ASSUME NEW t \in Takers, TakeBlocks(t)
        PROVE  KeepsTurns(wait_list, wait_list')
    <3>1. wait_list' = Inserted(wait_list, t) /\ Executes(t) /\ pc[t] = "run"
      BY <2>3 DEF TakeBlocks, Calls
    <3>2. t \notin Elements(wait_list)
      BY <1>1, <3>1, CallerIsFree, WaitingElements DEF InTake
    <3> QED
      BY <2>1, <3>1, <3>2, InsertedKeepsTurns
  <2>4. CASE (\E t \in Takers : GiveToWaiter(t)) \/ GiveToWaiterFromISR
    <3>1. wait_list # << >> /\ wait_list' = Tail(wait_list)
      BY <2>4 DEF GiveToWaiter, GiveToWaiterFromISR, WakeFirst
    <3> QED
      BY <2>1, <3>1, TailKeepsTurns
  <2>5. CASE \E t \in Takers : Delete(t)
    <3>1. wait_list' = << >>
      BY <2>5 DEF Delete
    <3>2. Elements(wait_list') = {}
      BY <3>1 DEF Elements
    <3> QED
      BY <3>2 DEF KeepsTurns
  <2>6. CASE \E t \in Takers :
                \/ TakeNow(t) \/ Give(t) \/ Resumed(t) \/ GivePreempts(t) \/ Yield(t)
                \/ Delay(t) \/ DelayEnds(t)
                \/ \E initial \in 0 .. MaxCount : Create(t, initial)
    <3>1. wait_list' = wait_list
      BY <2>6 DEF TakeNow, Give, Resumed, GivePreempts, Yield, Delay, DelayEnds, Create,
                  semaphore
    <3> QED
      BY <2>2, <3>1
  <2>7. CASE TakeFromISR \/ GiveFromISR \/ UNCHANGED semaphore \/ UNCHANGED vars
    <3>1. wait_list' = wait_list
      BY <2>7 DEF TakeFromISR, GiveFromISR, semaphore, vars
    <3> QED
      BY <2>2, <3>1
  <2> QED
    BY <1>1, <2>3, <2>4, <2>5, <2>6, <2>7
       DEF Next, os_sem_take, os_sem_give, os_sem_give_from_isr, Takers
<1>2. ASSUME Inv, [Next]_vars
      PROVE  [\A t \in Waiting \cap Waiting', u \in Waiting' :
                 /\ priority[t] = priority[u]
                 /\ u \notin Waiting \/ Before(wait_list, t, u)
                 => Before(wait_list', t, u)]_vars
  BY <1>1, <1>2, WaitingElements DEF KeepsTurns
<1> QED
  BY <1>2, Invariance, PTL DEF Spec, ServedInOrder

\* semaphore.c implements the abstract semaphore.
THEOREM SemaphoreRefines == Spec => ImplementsAbstract
<1>1. Init => Abstract!Init
  BY InitInv
<1>2. Inv /\ [Next]_vars => [Abstract!Next]_(Abstract!vars)
  BY Step DEF AbstractStep, Abstract!vars
<1> QED
  BY <1>1, <1>2, Invariance, PTL DEF Spec, ImplementsAbstract, Abstract!Spec
=============================================================================
