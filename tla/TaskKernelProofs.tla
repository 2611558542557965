-------------------------- MODULE TaskKernelProofs --------------------------
(***************************************************************************)
(* The safety of TaskKernel, for any number of tasks and priorities, in    *)
(* the build with interrupt nesting and for applications that keep to the  *)
(* calling patterns the lists support (Usage = {}).                        *)
(***************************************************************************)
EXTENDS TaskKernel, TaskListTheorems

-----------------------------------------------------------------------------
\* What each operation of the task API does to a kernel record whose lists are
\* exact: the lists are exact again for the new task states.

\* The TCBs in al that wait to be freed.
DoomedIn(kk, al) == {t \in al : kk.state[t] = "DELETED"}

\* Every list of kk holds exactly the tasks whose state says so; h is where the
\* deferred delete list begins.
ListInv(kk, al, h) == ListsOK(kk, Ready(kk), Delayed(kk), DoomedIn(kk, al), h)

Allocated(kk, al) == \A t \in Tasks : kk.state[t] # "DELETED" => t \in al

\* The three sets of tasks that are on a list, after one task changed state.
LEMMA StateChange ==
    ASSUME NEW kk \in KernelRecord, NEW al, al \subseteq Tasks, NEW k2,
           NEW t \in Tasks, NEW v \in TaskStates,
           k2.state = [kk.state EXCEPT ![t] = v]
    PROVE  /\ Ready(k2) = IF v \in {"READY", "RUNNING"} THEN Ready(kk) \cup {t}
                          ELSE Ready(kk) \ {t}
           /\ Delayed(k2) = IF v = "BLOCKED" THEN Delayed(kk) \cup {t}
                            ELSE Delayed(kk) \ {t}
           /\ DoomedIn(k2, al) = IF v = "DELETED" /\ t \in al
                                 THEN DoomedIn(kk, al) \cup {t}
                                 ELSE DoomedIn(kk, al) \ {t}
<1>1. kk.state \in [Tasks -> TaskStates]
  BY DEF KernelRecord
<1>2. k2.state[t] = v /\ \A u \in Tasks : u # t => k2.state[u] = kk.state[u]
  BY <1>1
<1>3. Ready(k2) = IF v \in {"READY", "RUNNING"} THEN Ready(kk) \cup {t}
                  ELSE Ready(kk) \ {t}
  BY <1>2 DEF Ready
<1>4. Delayed(k2) = IF v = "BLOCKED" THEN Delayed(kk) \cup {t} ELSE Delayed(kk) \ {t}
  BY <1>2 DEF Delayed
<1>5. DoomedIn(k2, al) = IF v = "DELETED" /\ t \in al THEN DoomedIn(kk, al) \cup {t}
                         ELSE DoomedIn(kk, al) \ {t}
  BY <1>2 DEF DoomedIn
<1> QED
  BY <1>3, <1>4, <1>5

\* The fields os_task_create assigns that are not part of a list.
LEMMA CreatedFields ==
    ASSUME NEW kk \in KernelRecord, NEW t \in Tasks, NEW p \in Priorities
    PROVE  LET k2 == Created(kk, t, p)
           IN  /\ k2.state = [kk.state EXCEPT ![t] = "READY"]
               /\ k2.current = kk.current /\ k2.deferred = kk.deferred
<1> DEFINE k1 == [kk EXCEPT !.priority[t] = p, !.delay[t] = 0,
                            !.next[t] = NULL, !.prev[t] = NULL]
<1>1. k1.state = kk.state /\ k1.current = kk.current /\ k1.deferred = kk.deferred
  BY DEF KernelRecord
<1>2. k1 \in KernelRecord
  <2>1. NULL \in Pointers
    BY DEF Pointers
  <2> QED
    BY <2>1 DEF KernelRecord
<1>3. Created(kk, t, p) = AddToReady(k1, t)
  BY DEF Created
<1> HIDE DEF k1
<1>4. /\ AddToReady(k1, t).state = [k1.state EXCEPT ![t] = "READY"]
      /\ AddToReady(k1, t).current = k1.current
      /\ AddToReady(k1, t).deferred = k1.deferred
  BY <1>2, AddToReadyFields
<1> QED
  BY <1>1, <1>3, <1>4

\* os_task_create
LEMMA CreatedInv ==
    ASSUME NEW kk \in KernelRecord, NEW al, al \subseteq Tasks, NEW h,
           ListInv(kk, al, h), Allocated(kk, al),
           NEW t \in Tasks \ al, NEW p \in Priorities
    PROVE  LET k2 == Created(kk, t, p)
           IN  /\ k2 \in KernelRecord
               /\ ListInv(k2, al \cup {t}, h)
               /\ k2.state = [kk.state EXCEPT ![t] = "READY"]
               /\ k2.current = kk.current /\ k2.deferred = kk.deferred
<1> DEFINE k1 == [kk EXCEPT !.priority[t] = p, !.delay[t] = 0,
                            !.next[t] = NULL, !.prev[t] = NULL]
           k2 == AddToReady(k1, t)
           R == Ready(kk)
           B == Delayed(kk)
           D == DoomedIn(kk, al)
<1>1. t \notin R \cup B \cup D
  BY DEF Allocated, Ready, Delayed, DoomedIn
<1>2. /\ k1.state = kk.state
      /\ k1.priority = [kk.priority EXCEPT ![t] = p]
      /\ k1.next = [kk.next EXCEPT ![t] = NULL]
      /\ k1.prev = [kk.prev EXCEPT ![t] = NULL]
      /\ k1.delay = [kk.delay EXCEPT ![t] = 0]
  BY DEF KernelRecord
<1>3. /\ k1.head = kk.head /\ k1.tail = kk.tail /\ k1.count = kk.count
      /\ k1.bitmap = kk.bitmap /\ k1.blocked = kk.blocked
      /\ k1.deferred = kk.deferred /\ k1.current = kk.current
  BY DEF KernelRecord
<1>4. k1 \in KernelRecord
  <2>1. NULL \in Pointers
    BY DEF Pointers
  <2>2. /\ k1.priority \in [Tasks -> Priorities] /\ k1.delay \in [Tasks -> Nat]
        /\ k1.next \in [Tasks -> Pointers] /\ k1.prev \in [Tasks -> Pointers]
    BY <1>2, <2>1 DEF KernelRecord
  <2> QED
    BY <1>3, <2>2 DEF KernelRecord
<1> HIDE DEF k1
<1>5. ListsOK(k1, R, B, D, h)
  <2>1. ListsOK(kk, R, B, D, h)
    BY DEF ListInv
  <2>2. R \subseteq Tasks /\ B \subseteq Tasks /\ D \subseteq Tasks
    BY DEF Ready, Delayed, DoomedIn
  <2>3. /\ \A u \in R \cup B \cup D : k1.next[u] = kk.next[u] /\ k1.prev[u] = kk.prev[u]
        /\ \A u \in R : k1.priority[u] = kk.priority[u]
    BY <1>1, <1>2, <2>2 DEF KernelRecord
  <2> HIDE DEF R, B, D
  <2> QED
    BY <1>3, <2>1, <2>3, FrameLists
<1>6. /\ k2 \in KernelRecord /\ k2.state = [k1.state EXCEPT ![t] = "READY"]
      /\ k2.current = k1.current /\ k2.deferred = k1.deferred
  BY <1>4, AddToReadyFields
<1>7. ListsOK(k2, R \cup {t}, B, D, h)
  <2> HIDE DEF R, B, D
  <2> QED
    BY <1>1, <1>4, <1>5, AddToReadyLists
<1> HIDE DEF k2
<1>8. Ready(k2) = R \cup {t} /\ Delayed(k2) = B /\ DoomedIn(k2, al \cup {t}) = D
  <2>1. k2.state[t] = "READY" /\ \A u \in Tasks : u # t => k2.state[u] = kk.state[u]
    BY <1>2, <1>6 DEF KernelRecord
  <2>2. Ready(k2) = R \cup {t}
    BY <2>1 DEF Ready
  <2>3. Delayed(k2) = B
    BY <1>1, <2>1 DEF Delayed
  <2>4. DoomedIn(k2, al \cup {t}) = D
    BY <1>1, <2>1 DEF DoomedIn
  <2> QED
    BY <2>2, <2>3, <2>4
<1>9. ListInv(k2, al \cup {t}, h)
  <2> HIDE DEF R, B, D
  <2> QED
    BY <1>7, <1>8 DEF ListInv
<1>10. k2 = Created(kk, t, p)
  BY DEF Created, k1, k2
<1> QED
  BY <1>2, <1>3, <1>6, <1>9, <1>10

\* os_task_remove_from_ready of a ready task, followed by a state that is on no
\* list: os_task_suspend, and os_task_delete of a READY task.
LEMMA UnlinkReadyInv ==
    ASSUME NEW kk \in KernelRecord, NEW al, al \subseteq Tasks, NEW h,
           ListInv(kk, al, h), NEW t \in Ready(kk),
           NEW v \in {"SUSPENDED", "DELETED"}
    PROVE  LET k2 == [RemoveFromReady(kk, t) EXCEPT !.state[t] = v]
           IN  /\ k2 \in KernelRecord
               /\ v = "SUSPENDED" => ListInv(k2, al, h)
               /\ v = "DELETED" => ListInv(k2, al \ {t}, h)
               /\ k2.state = [kk.state EXCEPT ![t] = v]
               /\ k2.current = kk.current /\ k2.deferred = kk.deferred
<1> DEFINE r == RemoveFromReady(kk, t)
           k2 == [r EXCEPT !.state[t] = v]
           R == Ready(kk)
           B == Delayed(kk)
           D == DoomedIn(kk, al)
<1>1. t \in Tasks /\ t \notin B /\ t \notin D
  BY DEF Ready, Delayed, DoomedIn
<1>2. /\ r \in KernelRecord /\ r.state = kk.state
      /\ r.deferred = kk.deferred /\ r.current = kk.current
  BY <1>1, RemoveFromReadyFields
<1>3. ListsOK(r, R \ {t}, B, D, h)
  <2>1. ListsOK(kk, R, B, D, h) /\ t \in R
    BY DEF ListInv
  <2> HIDE DEF R, B, D
  <2> QED
    BY <2>1, RemoveFromReadyLists
<1> HIDE DEF r
<1>4. /\ k2.state = [kk.state EXCEPT ![t] = v]
      /\ k2.next = r.next /\ k2.prev = r.prev /\ k2.head = r.head
      /\ k2.tail = r.tail /\ k2.count = r.count /\ k2.bitmap = r.bitmap
  BY <1>2 DEF KernelRecord
<1>5. /\ k2.blocked = r.blocked /\ k2.priority = r.priority
      /\ k2.deferred = r.deferred /\ k2.current = r.current
  BY <1>2 DEF KernelRecord
<1>6. k2 \in KernelRecord
  BY <1>2 DEF KernelRecord, TaskStates
<1> HIDE DEF k2
<1>7. ListsOK(k2, R \ {t}, B, D, h)
  <2> HIDE DEF R, B, D
  <2> QED
    BY <1>2, <1>3, <1>4, <1>5, FrameLists
<1>8. /\ Ready(k2) = R \ {t} /\ Delayed(k2) = B
      /\ v = "SUSPENDED" => DoomedIn(k2, al) = D
      /\ v = "DELETED" => DoomedIn(k2, al \ {t}) = D
  <2>1. k2.state[t] = v /\ \A u \in Tasks : u # t => k2.state[u] = kk.state[u]
    BY <1>1, <1>4 DEF KernelRecord
  <2>2. Ready(k2) = R \ {t}
    BY <2>1 DEF Ready
  <2>3. Delayed(k2) = B
    BY <1>1, <2>1 DEF Delayed
  <2>4. v = "SUSPENDED" => DoomedIn(k2, al) = D
    BY <1>1, <2>1 DEF DoomedIn
  <2>5. v = "DELETED" => DoomedIn(k2, al \ {t}) = D
    BY <1>1, <2>1 DEF DoomedIn
  <2> QED
    BY <2>2, <2>3, <2>4, <2>5
<1>9. /\ v = "SUSPENDED" => ListInv(k2, al, h)
      /\ v = "DELETED" => ListInv(k2, al \ {t}, h)
  <2> HIDE DEF R, B, D
  <2> QED
    BY <1>7, <1>8 DEF ListInv
<1> QED
  BY <1>2, <1>4, <1>5, <1>6, <1>9 DEF k2, r

\* os_task_suspend, of a task in any state.
LEMMA SuspendedInv ==
    ASSUME NEW kk \in KernelRecord, NEW al, al \subseteq Tasks, NEW h,
           ListInv(kk, al, h), NEW t \in Tasks
    PROVE  LET k2 == Suspended(kk, t)
           IN  /\ k2 \in KernelRecord
               /\ ListInv(k2, al, h)
               /\ \A u \in Tasks : u # t => k2.state[u] = kk.state[u]
               /\ k2.state[t] = IF t \in Ready(kk) THEN "SUSPENDED" ELSE kk.state[t]
               /\ k2.current = kk.current /\ k2.deferred = kk.deferred
<1> DEFINE k2 == Suspended(kk, t)
<1>1. CASE t \in Ready(kk)
  <2>1. k2 = [RemoveFromReady(kk, t) EXCEPT !.state[t] = "SUSPENDED"]
    BY <1>1 DEF Suspended, Ready
  <2> HIDE DEF k2
  <2>3. /\ k2 \in KernelRecord /\ ListInv(k2, al, h)
        /\ k2.state = [kk.state EXCEPT ![t] = "SUSPENDED"]
        /\ k2.current = kk.current /\ k2.deferred = kk.deferred
    BY <1>1, <2>1, UnlinkReadyInv
  <2>4. /\ k2.state[t] = "SUSPENDED"
        /\ \A u \in Tasks : u # t => k2.state[u] = kk.state[u]
    BY <2>3 DEF KernelRecord
  <2> QED
    BY <1>1, <2>3, <2>4 DEF k2
<1>2. CASE t \notin Ready(kk)
  <2>1. k2 = kk
    BY <1>2 DEF Suspended, Ready
  <2> QED
    BY <1>2, <2>1
<1> QED
  BY <1>1, <1>2

\* os_task_resume
LEMMA ResumedInv ==
    ASSUME NEW kk \in KernelRecord, NEW al, al \subseteq Tasks, NEW h,
           ListInv(kk, al, h), NEW t \in Tasks, kk.state[t] = "SUSPENDED"
    PROVE  LET k2 == AddToReady(kk, t)
           IN  /\ k2 \in KernelRecord
               /\ ListInv(k2, al, h)
               /\ k2.state = [kk.state EXCEPT ![t] = "READY"]
               /\ k2.current = kk.current /\ k2.deferred = kk.deferred
<1> DEFINE k2 == AddToReady(kk, t)
           R == Ready(kk)
           B == Delayed(kk)
           D == DoomedIn(kk, al)
<1>1. t \notin R \cup B \cup D
  BY DEF Ready, Delayed, DoomedIn
<1>2. /\ k2 \in KernelRecord /\ k2.state = [kk.state EXCEPT ![t] = "READY"]
      /\ k2.current = kk.current /\ k2.deferred = kk.deferred
  BY AddToReadyFields
<1>3. ListsOK(k2, R \cup {t}, B, D, h)
  <2>1. ListsOK(kk, R, B, D, h)
    BY DEF ListInv
  <2> HIDE DEF R, B, D
  <2> QED
    BY <1>1, <2>1, AddToReadyLists
<1> HIDE DEF k2
<1>4. Ready(k2) = R \cup {t} /\ Delayed(k2) = B /\ DoomedIn(k2, al) = D
  <2>1. "READY" \in TaskStates
    BY DEF TaskStates
  <2>2. /\ Ready(k2) = R \cup {t} /\ Delayed(k2) = B \ {t}
        /\ DoomedIn(k2, al) = D \ {t}
    BY <1>2, <2>1, StateChange
  <2> QED
    BY <1>1, <2>2
<1>5. ListInv(k2, al, h)
  <2> HIDE DEF R, B, D
  <2> QED
    BY <1>3, <1>4 DEF ListInv
<1> QED
  BY <1>2, <1>5 DEF k2

\* os_task_delete of a READY or SUSPENDED task.
LEMMA DeletedInv ==
    ASSUME NEW kk \in KernelRecord, NEW al, al \subseteq Tasks, NEW h,
           ListInv(kk, al, h), NEW t \in Tasks,
           kk.state[t] \in {"READY", "SUSPENDED"}
    PROVE  LET k2 == Deleted(kk, t)
           IN  /\ k2 \in KernelRecord
               /\ ListInv(k2, al \ {t}, h)
               /\ k2.state = [kk.state EXCEPT ![t] = "DELETED"]
               /\ k2.current = kk.current /\ k2.deferred = kk.deferred
<1> DEFINE k2 == Deleted(kk, t)
<1>1. "DELETED" \in TaskStates /\ al \ {t} \subseteq Tasks
  BY DEF TaskStates
<1>2. CASE kk.state[t] = "READY"
  <2>1. k2 = [RemoveFromReady(kk, t) EXCEPT !.state[t] = "DELETED"]
    BY <1>2 DEF Deleted
  <2>2. t \in Ready(kk)
    BY <1>2 DEF Ready
  <2> HIDE DEF k2
  <2>3. /\ k2 \in KernelRecord /\ ListInv(k2, al \ {t}, h)
        /\ k2.state = [kk.state EXCEPT ![t] = "DELETED"]
        /\ k2.current = kk.current /\ k2.deferred = kk.deferred
    BY <1>1, <2>1, <2>2, UnlinkReadyInv
  <2> QED
    BY <2>3 DEF k2
<1>3. CASE kk.state[t] = "SUSPENDED"
  <2> DEFINE R == Ready(kk)
             B == Delayed(kk)
             D == DoomedIn(kk, al)
  <2>1. k2 = [kk EXCEPT !.state[t] = "DELETED"]
    BY <1>3 DEF Deleted
  <2> HIDE DEF k2
  <2>2. t \notin R \cup B \cup D
    BY <1>3 DEF Ready, Delayed, DoomedIn
  <2>3. /\ k2.state = [kk.state EXCEPT ![t] = "DELETED"]
        /\ k2.next = kk.next /\ k2.prev = kk.prev /\ k2.head = kk.head
        /\ k2.tail = kk.tail /\ k2.count = kk.count /\ k2.bitmap = kk.bitmap
    BY <2>1 DEF KernelRecord
  <2>4. /\ k2.blocked = kk.blocked /\ k2.priority = kk.priority
        /\ k2.current = kk.current /\ k2.deferred = kk.deferred
    BY <2>1 DEF KernelRecord
  <2>5. k2 \in KernelRecord
    BY <1>1, <2>1 DEF KernelRecord
  <2>6. ListsOK(k2, R, B, D, h)
    <3>1. ListsOK(kk, R, B, D, h)
      BY DEF ListInv
    <3> HIDE DEF R, B, D
    <3> QED
      BY <2>3, <2>4, <3>1, FrameLists
  <2>7. Ready(k2) = R /\ Delayed(k2) = B /\ DoomedIn(k2, al \ {t}) = D
    <3>1. k2.state[t] = "DELETED" /\ \A u \in Tasks : u # t => k2.state[u] = kk.state[u]
      BY <2>3 DEF KernelRecord
    <3>2. Ready(k2) = R
      BY <2>2, <3>1 DEF Ready
    <3>3. Delayed(k2) = B
      BY <2>2, <3>1 DEF Delayed
    <3>4. DoomedIn(k2, al \ {t}) = D
      BY <2>2, <3>1 DEF DoomedIn
    <3> QED
      BY <3>2, <3>3, <3>4
  <2>8. ListInv(k2, al \ {t}, h)
    <3> HIDE DEF R, B, D
    <3> QED
      BY <2>6, <2>7 DEF ListInv
  <2> QED
    BY <2>3, <2>4, <2>5, <2>8 DEF k2
<1> QED
  BY <1>2, <1>3

\* os_task_set_priority of a task that is not RUNNING.
LEMMA ReprioritisedInv ==
    ASSUME NEW kk \in KernelRecord, NEW al, al \subseteq Tasks, NEW h,
           ListInv(kk, al, h), NEW t \in Tasks, kk.state[t] # "RUNNING",
           NEW p \in Priorities
    PROVE  LET k2 == Reprioritised(kk, t, p)
           IN  /\ k2 \in KernelRecord
               /\ ListInv(k2, al, h)
               /\ k2.state = kk.state
               /\ k2.current = kk.current /\ k2.deferred = kk.deferred
<1> DEFINE R == Ready(kk)
           B == Delayed(kk)
           D == DoomedIn(kk, al)
           k2 == Reprioritised(kk, t, p)
<1>1. ListsOK(kk, R, B, D, h) /\ B \cap R = {} /\ D \cap R = {}
  BY DEF ListInv, ListsOK
<1>2. CASE kk.state[t] = "READY"
  <2> DEFINE r == RemoveFromReady(kk, t)
             r2 == [r EXCEPT !.priority[t] = p]
             a == AddToReady(r2, t)
  <2>1. t \in R /\ t \notin B /\ t \notin D
    BY <1>2 DEF Ready, Delayed, DoomedIn
  <2>2. /\ r \in KernelRecord /\ r.state = kk.state
        /\ r.deferred = kk.deferred /\ r.current = kk.current
    BY RemoveFromReadyFields
  <2> HIDE DEF R, B, D
  <2>3. ListsOK(r, R \ {t}, B, D, h)
    BY <1>1, <2>1, RemoveFromReadyLists
  <2> HIDE DEF r
  <2>4. /\ r2.state = r.state /\ r2.next = r.next /\ r2.prev = r.prev
        /\ r2.head = r.head /\ r2.tail = r.tail /\ r2.count = r.count
        /\ r2.bitmap = r.bitmap /\ r2.blocked = r.blocked
    BY <2>2 DEF KernelRecord
  <2>5. /\ r2.priority = [r.priority EXCEPT ![t] = p]
        /\ r2.deferred = r.deferred /\ r2.current = r.current
    BY <2>2 DEF KernelRecord
  <2>6. r2 \in KernelRecord
    BY <2>2 DEF KernelRecord
  <2> HIDE DEF r2
  <2>7. ListsOK(r2, R \ {t}, B, D, h)
    <3>1. R \ {t} \subseteq Tasks
      BY <2>3 DEF ListsOK
    <3>2. \A u \in R \ {t} : r2.priority[u] = r.priority[u]
      BY <2>2, <2>5, <3>1 DEF KernelRecord
    <3> QED
      BY <2>2, <2>3, <2>4, <3>2, FrameLists
  <2>8. ListsOK(a, (R \ {t}) \cup {t}, B, D, h)
    BY <2>1, <2>6, <2>7, AddToReadyLists
  <2>9. (R \ {t}) \cup {t} = R
    BY <2>1
  <2>10. /\ a \in KernelRecord /\ a.state = [r2.state EXCEPT ![t] = "READY"]
         /\ a.deferred = r2.deferred /\ a.current = r2.current
    BY <2>6, AddToReadyFields
  <2> HIDE DEF a
  <2>11. a.state = kk.state
    BY <1>2, <2>2, <2>4, <2>10 DEF KernelRecord
  <2>12. ListInv(a, al, h)
    <3>1. Ready(a) = R /\ Delayed(a) = B /\ DoomedIn(a, al) = D
      BY <2>11 DEF Ready, Delayed, DoomedIn, R, B, D
    <3> QED
      BY <2>8, <2>9, <3>1 DEF ListInv
  <2>13. k2 = a
    BY <1>2 DEF Reprioritised, a, r2, r
  <2> QED
    BY <2>2, <2>5, <2>10, <2>11, <2>12, <2>13
<1>3. CASE kk.state[t] # "READY"
  <2>1. k2 = [kk EXCEPT !.priority[t] = p]
    BY <1>3 DEF Reprioritised
  <2> HIDE DEF k2
  <2>2. t \notin R
    BY <1>3 DEF Ready
  <2>3. /\ k2.state = kk.state /\ k2.next = kk.next /\ k2.prev = kk.prev
        /\ k2.head = kk.head /\ k2.tail = kk.tail /\ k2.count = kk.count
        /\ k2.bitmap = kk.bitmap /\ k2.blocked = kk.blocked
    BY <2>1 DEF KernelRecord
  <2>4. /\ k2.priority = [kk.priority EXCEPT ![t] = p]
        /\ k2.deferred = kk.deferred /\ k2.current = kk.current
    BY <2>1 DEF KernelRecord
  <2>5. k2 \in KernelRecord
    BY <2>1 DEF KernelRecord
  <2>6. \A u \in R : k2.priority[u] = kk.priority[u]
    BY <2>2, <2>4 DEF KernelRecord, Ready
  <2>7. Ready(k2) = R /\ Delayed(k2) = B /\ DoomedIn(k2, al) = D
    BY <2>3 DEF Ready, Delayed, DoomedIn
  <2> HIDE DEF R, B, D
  <2>8. ListsOK(k2, R, B, D, h)
    BY <1>1, <2>3, <2>4, <2>6, FrameLists
  <2> QED
    BY <2>3, <2>4, <2>5, <2>7, <2>8 DEF ListInv, k2
<1> QED
  BY <1>2, <1>3

\* os_task_delay of a ready task.
LEMMA DelayInv ==
    ASSUME NEW kk \in KernelRecord, NEW al, al \subseteq Tasks, NEW h,
           ListInv(kk, al, h), NEW t \in Ready(kk), NEW ticks, ticks \in Nat,
           NEW k2, k2 = AddToBlocked(kk, t, ticks)
    PROVE  /\ k2 \in KernelRecord
           /\ ListInv(k2, al, h)
<1> DEFINE R == Ready(kk)
           B == Delayed(kk)
           D == DoomedIn(kk, al)
<1>1. ListsOK(kk, R, B, D, h) /\ t \in R
  BY DEF ListInv
<1>2. t \in Tasks /\ t \notin D /\ "BLOCKED" \in TaskStates
  BY DEF Ready, DoomedIn, TaskStates
<1> HIDE DEF R, B, D
<1>3. k2 \in KernelRecord /\ ListsOK(k2, R \ {t}, B \cup {t}, D, h)
  BY <1>1, AddToBlockedLists
<1>4. k2.state = [kk.state EXCEPT ![t] = "BLOCKED"]
  BY <1>2, AddToBlockedFields
<1>5. /\ Ready(k2) = R \ {t} /\ Delayed(k2) = B \cup {t} /\ DoomedIn(k2, al) = D \ {t}
  BY <1>2, <1>4, StateChange DEF R, B, D
<1>6. D \ {t} = D
  BY <1>2
<1> QED
  BY <1>3, <1>5, <1>6 DEF ListInv

\* os_task_delete of oneself.
LEMMA DeferInv ==
    ASSUME NEW kk \in KernelRecord, NEW al, al \subseteq Tasks,
           ListInv(kk, al, kk.deferred), NEW t \in Ready(kk), t \in al
    PROVE  LET k2 == DeferDelete(kk, t)
           IN  /\ k2 \in KernelRecord
               /\ ListInv(k2, al, k2.deferred)
               /\ k2.state = [kk.state EXCEPT ![t] = "DELETED"]
               /\ k2.current = kk.current
<1> DEFINE R == Ready(kk)
           B == Delayed(kk)
           D == DoomedIn(kk, al)
           k2 == DeferDelete(kk, t)
<1>1. ListsOK(kk, R, B, D, kk.deferred) /\ t \in R
  BY DEF ListInv
<1>2. t \in Tasks /\ t \notin B /\ "DELETED" \in TaskStates
  BY DEF Ready, Delayed, TaskStates
<1> HIDE DEF R, B, D
<1>3. /\ k2 \in KernelRecord /\ ListsOK(k2, R \ {t}, B, D \cup {t}, t)
      /\ k2.state = [kk.state EXCEPT ![t] = "DELETED"]
      /\ k2.current = kk.current /\ k2.deferred = t
  BY <1>1, DeferDeleteLists
<1> HIDE DEF k2
<1>4. /\ Ready(k2) = R \ {t} /\ Delayed(k2) = B \ {t} /\ DoomedIn(k2, al) = D \cup {t}
  BY <1>2, <1>3, StateChange DEF R, B, D
<1>5. B \ {t} = B
  BY <1>2
<1> QED
  BY <1>3, <1>4, <1>5 DEF ListInv, k2

\* os_sched_select_next with something ready.
LEMMA SelectInv ==
    ASSUME NEW kk \in KernelRecord, NEW al, al \subseteq Tasks, NEW h,
           ListInv(kk, al, h), Ready(kk) # {},
           \A u \in Tasks : kk.state[u] = "RUNNING" => u = kk.current
    PROVE  LET k2 == SelectNext(kk)
           IN  /\ k2 \in KernelRecord
               /\ ListInv(k2, al, h)
               /\ Ready(k2) = Ready(kk) /\ Delayed(k2) = Delayed(kk)
               /\ \A u \in Tasks : k2.state[u] = "DELETED" <=> kk.state[u] = "DELETED"
               /\ k2.current \in Ready(kk)
               /\ k2.state[k2.current] = "RUNNING"
               /\ \A u \in Tasks : k2.state[u] = "RUNNING" => u = k2.current
               /\ \A u \in Ready(kk) : k2.priority[k2.current] <= k2.priority[u]
               /\ k2.deferred = kk.deferred
<1> DEFINE R == Ready(kk)
           B == Delayed(kk)
           D == DoomedIn(kk, al)
           k2 == SelectNext(kk)
<1>1. ListsOK(kk, Ready(kk), B, D, h)
  BY DEF ListInv
<1> HIDE DEF B, D
<1>2. /\ k2 \in KernelRecord /\ Ready(k2) = Ready(kk)
      /\ ListsOK(k2, Ready(kk), B, D, h)
      /\ \A u \in Tasks : u \notin Ready(kk) => k2.state[u] = kk.state[u]
      /\ k2.current \in Ready(kk)
      /\ k2.state[k2.current] = "RUNNING"
      /\ \A u \in Tasks : k2.state[u] = "RUNNING" => u = k2.current
      /\ \A u \in Ready(kk) : k2.priority[k2.current] <= k2.priority[u]
      /\ k2.deferred = kk.deferred
  BY <1>1, SelectNextLists
<1> HIDE DEF k2
<1>3. \A u \in Ready(kk) : /\ k2.state[u] \in {"READY", "RUNNING"}
                           /\ kk.state[u] \in {"READY", "RUNNING"}
  BY <1>2 DEF Ready
<1>4. \A u \in Tasks : /\ k2.state[u] = "DELETED" <=> kk.state[u] = "DELETED"
                       /\ k2.state[u] = "BLOCKED" <=> kk.state[u] = "BLOCKED"
  BY <1>2, <1>3
<1>5. Delayed(k2) = B /\ DoomedIn(k2, al) = D
  BY <1>4 DEF Delayed, DoomedIn, B, D
<1>6. ListInv(k2, al, h)
  BY <1>2, <1>5 DEF ListInv
<1> QED
  BY <1>2, <1>4, <1>5, <1>6 DEF k2, B

\* The task after a delayed one on the blocked list is another delayed one.
LEMMA BlockedSuccessor ==
    ASSUME NEW kk \in KernelRecord, NEW R, NEW B, NEW D, NEW h,
           ListsOK(kk, R, B, D, h), NEW t \in B
    PROVE  kk.next[t] \in (B \ {t}) \cup {NULL}
<1>n. PICK n \in Nat : \E f : IsChain(kk.next, kk.prev, f, n, B)
  BY DEF ListsOK, BlockedOK
<1>1. PICK f : IsChain(kk.next, kk.prev, f, n, B)
  BY <1>n
<1>2. /\ f \in [1 .. n -> B]
      /\ \A i, j \in 1 .. n : f[i] = f[j] => i = j
      /\ \A u \in B : \E i \in 1 .. n : f[i] = u
      /\ \A i \in 1 .. n : kk.next[f[i]] = IF i = n THEN NULL ELSE f[i + 1]
  BY <1>1 DEF IsChain, Enumerates, NextThreads
<1>3. PICK j \in 1 .. n : f[j] = t
  BY <1>2
<1>4. CASE j = n
  BY <1>2, <1>3, <1>4
<1>5. CASE j # n
  <2>1. j + 1 \in 1 .. n /\ j + 1 # j
    BY <1>5
  <2>2. kk.next[t] = f[j + 1]
    BY <1>2, <1>3, <1>5
  <2>3. f[j + 1] \in B /\ f[j + 1] # f[j]
    BY <1>2, <2>1
  <2> QED
    BY <1>3, <2>2, <2>3
<1> QED
  BY <1>4, <1>5

\* The blocked list begins with a delayed task, or there is none.
LEMMA BlockedHead ==
    ASSUME NEW kk, NEW R, NEW B, NEW D, NEW h, ListsOK(kk, R, B, D, h)
    PROVE  kk.blocked \in B \cup {NULL}
<1>n. PICK n \in Nat : \E f : IsChain(kk.next, kk.prev, f, n, B) /\ kk.blocked = First(f, n)
  BY DEF ListsOK, BlockedOK
<1>1. PICK f : IsChain(kk.next, kk.prev, f, n, B) /\ kk.blocked = First(f, n)
  BY <1>n
<1>2. f \in [1 .. n -> B]
  BY <1>1 DEF IsChain, Enumerates
<1>3. n # 0 => 1 \in 1 .. n
  OBVIOUS
<1> QED
  BY <1>1, <1>2, <1>3 DEF First

\* One iteration of os_task_tick over a delayed task.
LEMMA TickedInv ==
    ASSUME NEW kk \in KernelRecord, NEW al, al \subseteq Tasks, NEW h,
           ListInv(kk, al, h), NEW t \in Delayed(kk)
    PROVE  LET k2 == Ticked(kk, t)
           IN  /\ k2 \in KernelRecord
               /\ ListInv(k2, al, h)
               /\ \A u \in Tasks : u # t => k2.state[u] = kk.state[u]
               /\ k2.state[t] \in {"BLOCKED", "READY"}
               /\ k2.current = kk.current /\ k2.deferred = kk.deferred
<1> DEFINE R == Ready(kk)
           B == Delayed(kk)
           D == DoomedIn(kk, al)
           d == kk.delay[t] - 1
           c == [kk EXCEPT !.delay[t] = d]
           k2 == Ticked(kk, t)
<1>1. ListsOK(kk, R, B, D, h) /\ t \in B
  BY DEF ListInv
<1>2. /\ t \in Tasks /\ kk.state[t] = "BLOCKED" /\ t \notin R /\ t \notin D
      /\ kk.delay[t] \in Nat
  BY DEF Delayed, Ready, DoomedIn, KernelRecord
<1>3. CASE kk.delay[t] = 0
  <2>1. k2 = kk
    BY <1>3 DEF Ticked
  <2> QED
    BY <1>2, <2>1
<1>4. CASE kk.delay[t] # 0
  <2>1. d \in Nat
    BY <1>2, <1>4
  <2> HIDE DEF d
  <2>2. /\ c.state = kk.state /\ c.next = kk.next /\ c.prev = kk.prev
        /\ c.head = kk.head /\ c.tail = kk.tail /\ c.count = kk.count
        /\ c.bitmap = kk.bitmap /\ c.blocked = kk.blocked
    BY DEF KernelRecord
  <2>3. c.priority = kk.priority /\ c.deferred = kk.deferred /\ c.current = kk.current
    BY DEF KernelRecord
  <2>4. c \in KernelRecord
    BY <2>1 DEF KernelRecord
  <2> HIDE DEF c
  <2>5. Ready(c) = R /\ Delayed(c) = B /\ DoomedIn(c, al) = D
    BY <2>2 DEF Ready, Delayed, DoomedIn
  <2> HIDE DEF R, B, D
  <2>6. ListsOK(c, R, B, D, h)
    BY <1>1, <2>2, <2>3, FrameLists
  <2>7. CASE d # 0
    <3>1. k2 = c
      BY <1>4, <2>7 DEF Ticked, c, d
    <3>2. ListInv(c, al, h)
      BY <2>5, <2>6 DEF ListInv
    <3> QED
      BY <1>2, <2>2, <2>3, <2>4, <3>1, <3>2
  <2>8. CASE d = 0
    <3> DEFINE r == RemoveFromBlocked(c, t)
               a == AddToReady(r, t)
    <3>1. /\ r \in KernelRecord /\ r.state = c.state
          /\ r.deferred = c.deferred /\ r.current = c.current
      BY <1>2, <2>4, RemoveFromBlockedFields
    <3>2. ListsOK(r, R, B \ {t}, D, h)
      BY <1>1, <2>4, <2>6, RemoveFromBlockedLists
    <3> HIDE DEF r
    <3>3. t \notin R \cup (B \ {t}) \cup D
      BY <1>2 DEF R, D
    <3>4. ListsOK(a, R \cup {t}, B \ {t}, D, h)
      BY <1>2, <3>1, <3>2, <3>3, AddToReadyLists
    <3>5. /\ a \in KernelRecord /\ a.state = [r.state EXCEPT ![t] = "READY"]
          /\ a.deferred = r.deferred /\ a.current = r.current
      BY <1>2, <3>1, AddToReadyFields
    <3> HIDE DEF a
    <3>6. /\ Ready(a) = R \cup {t} /\ Delayed(a) = B \ {t}
          /\ DoomedIn(a, al) = D \ {t}
      <4>1. a.state = [kk.state EXCEPT ![t] = "READY"] /\ "READY" \in TaskStates
        BY <2>2, <3>1, <3>5 DEF TaskStates
      <4> QED
        BY <1>2, <4>1, StateChange DEF R, B, D
    <3>7. D \ {t} = D
      BY <1>2 DEF D
    <3>8. ListInv(a, al, h)
      BY <3>4, <3>6, <3>7 DEF ListInv
    <3>9. k2 = a
      BY <1>4, <2>8 DEF Ticked, a, r, c, d
    <3>10. a.state[t] = "READY" /\ \A u \in Tasks : u # t => a.state[u] = kk.state[u]
      BY <1>2, <2>2, <3>1, <3>5 DEF KernelRecord
    <3> QED
      BY <2>3, <3>1, <3>5, <3>8, <3>9, <3>10
  <2> QED
    BY <2>7, <2>8
<1> QED
  BY <1>3, <1>4

-----------------------------------------------------------------------------
\* The state machine.

\* Where what is left of the deferred delete list begins.
ListHead == IF isr = "reap" THEN walk ELSE k.deferred

\* Before the scheduler starts nothing runs but main(), and a slot of the task
\* table is left for the idle task; afterwards the idle task is always ready and
\* the processor executes the current task.
PhaseInv ==
    /\ ~running => /\ k.current = NULL /\ cpu = Main
                   /\ isr = "none" /\ ~pendsv
                   /\ Idle \notin alive /\ task_count < MaxTasks
    /\ running => k.current \in Tasks /\ cpu = k.current /\ Idle \in Ready(k)

\* A context about to call the API is the RUNNING task, and every task that does
\* not execute has its own context stored in its TCB.
ContextInv ==
    /\ \A t \in Tasks : k.state[t] = "RUNNING" => t = k.current
    /\ running /\ ~pendsv /\ pc[cpu] # "yield" => k.state[cpu] = "RUNNING"
    /\ \A t \in alive : t # cpu => saved[t] = t
    /\ \A c \in Contexts : pc[c] = "suspend" => arg[c] \in Tasks \ {Idle}

\* The loop pointer of the tick is on the list the loop walks.
TickInv ==
    /\ isr = "walk" => walk \in Delayed(k) \cup {NULL}
    /\ isr = "reap" => k.deferred = NULL

Inv ==
    /\ TypeOK
    /\ ListInv(k, alive, ListHead)
    /\ Allocated(k, alive)
    /\ PhaseInv
    /\ ContextInv
    /\ TickInv

\* A kernel record with no task: every list is empty.
LEMMA InitInv ==
    Init => Inv
<1> SUFFICES ASSUME Init PROVE Inv
  OBVIOUS
<1>1. k = EmptyKernel /\ alive = {} /\ isr = "none" /\ walk = NULL /\ running = FALSE
  BY DEF Init
<1>2. /\ k.state = [t \in Tasks |-> "DELETED"] /\ k.head = [p \in Priorities |-> NULL]
      /\ k.tail = [p \in Priorities |-> NULL] /\ k.count = [p \in Priorities |-> 0]
      /\ k.bitmap = {} /\ k.blocked = NULL /\ k.deferred = NULL /\ k.current = NULL
  BY <1>1 DEF EmptyKernel
<1>3. k \in KernelRecord
  <2>1. NULL \in Pointers /\ Lowest \in Priorities /\ "DELETED" \in TaskStates
    BY PrioritiesAssumption DEF Pointers, Lowest, Priorities, TaskStates
  <2> QED
    BY <1>1, <2>1 DEF EmptyKernel, KernelRecord
<1>4. TypeOK
  <2>1. NULL \in Pointers /\ 0 \in 0 .. MaxTasks /\ Main \in Contexts
    BY BoundsAssumption DEF Pointers, Contexts
  <2> QED
    BY <1>3, <2>1 DEF Init, TypeOK, NotDue
<1>5. Ready(k) = {} /\ Delayed(k) = {} /\ DoomedIn(k, alive) = {}
  BY <1>1, <1>2 DEF Ready, Delayed, DoomedIn
<1>6. Allocated(k, alive)
  BY <1>2 DEF Allocated
<1>7. ListInv(k, alive, ListHead)
  <2> DEFINE e == [i \in 1 .. 0 |-> NULL]
  <2>1. \A i \in 1 .. 0 : FALSE
    OBVIOUS
  <2>2. Enumerates(e, 0, {}) /\ First(e, 0) = NULL /\ Last(e, 0) = NULL
    BY <2>1 DEF Enumerates, First, Last
  <2>3. NextThreads(k.next, e, 0) /\ PrevThreads(k.prev, e, 0)
    BY <2>1 DEF NextThreads, PrevThreads
  <2> HIDE DEF e
  <2>4. IsChain(k.next, k.prev, e, 0, {})
    BY <2>2, <2>3 DEF IsChain
  <2>5. ASSUME NEW p \in Priorities PROVE ReadyListOf(k, {}, p, e)
    <3>1. /\ AtPriority(k, {}, p) = {} /\ k.count[p] = 0 /\ k.head[p] = NULL
          /\ k.tail[p] = NULL /\ p \notin k.bitmap
      BY <1>2 DEF AtPriority
    <3> QED
      BY <2>2, <2>4, <3>1 DEF ReadyListOf
  <2>6. ReadyOK(k, {})
    BY <2>5 DEF ReadyOK
  <2>7. BlockedOK(k, {})
    BY <1>2, <2>2, <2>4 DEF BlockedOK
  <2>8. DeferredOK(k.next, {}, NULL)
    BY <2>2, <2>3 DEF DeferredOK
  <2>9. ListHead = NULL
    BY <1>1, <1>2 DEF ListHead
  <2>10. ListsOK(k, {}, {}, {}, NULL)
    BY <2>6, <2>7, <2>8 DEF ListsOK
  <2> QED
    BY <1>5, <2>9, <2>10 DEF ListInv
<1>8. PhaseInv
  BY <1>1, <1>2, BoundsAssumption DEF Init, PhaseInv
<1>9. ContextInv
  BY <1>1, <1>2 DEF Init, ContextInv
<1>10. TickInv
  BY <1>1 DEF TickInv
<1> QED
  BY <1>4, <1>6, <1>7, <1>8, <1>9, <1>10 DEF Inv

PcValues == {"run", "yield", "suspend"}

\* Whoever calls the API is main() before the start and the RUNNING task after.
LEMMA CallerFacts ==
    ASSUME Inv, Executing, pc[cpu] # "yield"
    PROVE  /\ cpu \in Contexts /\ isr = "none" /\ ~pendsv /\ ListHead = k.deferred
           /\ running => /\ k.current = cpu /\ cpu \in Tasks
                         /\ k.state[cpu] = "RUNNING"
                         /\ cpu \in Ready(k) /\ cpu \in alive
           /\ ~running => cpu = Main /\ k.current = NULL
           /\ cpu \in Tasks => running
<1>1. cpu \in Contexts /\ isr = "none" /\ ~pendsv /\ ListHead = k.deferred
  BY DEF Executing, ListHead
<1>2. /\ running => k.current = cpu /\ cpu \in Tasks /\ k.state[cpu] = "RUNNING"
      /\ ~running => cpu = Main /\ k.current = NULL
  BY <1>1 DEF Inv, PhaseInv, ContextInv
<1>3. running => cpu \in Ready(k) /\ cpu \in alive
  BY <1>2 DEF Inv, Allocated, Ready
<1>4. Main \notin Tasks
  BY ContextsAssumption DEF Pointers
<1> QED
  BY <1>1, <1>2, <1>3, <1>4

\* A call that leaves the machine alone and gives k another record: what has to
\* be shown of that record.
LEMMA CallInv ==
    ASSUME Inv, Executing, pc[cpu] # "yield",
           UNCHANGED <<task_count, running, cpu, saved, pendsv, yield_pending,
                       isr, walk, due>>,
           k' \in KernelRecord, alive' \subseteq alive, ListInv(k', alive', k'.deferred),
           Allocated(k', alive'), k'.current = k.current,
           \A t \in Tasks : k'.state[t] = "RUNNING" => k.state[t] = "RUNNING",
           running => Idle \in Ready(k'),
           pc' \in [Contexts -> PcValues], arg' \in [Contexts -> Pointers],
           running /\ pc'[cpu] # "yield" => k'.state[cpu] = "RUNNING",
           \A c \in Contexts : pc'[c] = "suspend" => arg'[c] \in Tasks \ {Idle}
    PROVE  Inv'
<1>1. /\ cpu \in Contexts /\ isr = "none" /\ ~pendsv
      /\ running => k.current = cpu /\ cpu \in Tasks
      /\ ~running => cpu = Main /\ k.current = NULL
  BY CallerFacts
<1>2. TypeOK'
  BY DEF Inv, TypeOK, PcValues
<1>3. ListInv(k', alive', ListHead')
  BY <1>1 DEF ListHead
<1>4. PhaseInv'
  BY <1>1 DEF Inv, PhaseInv
<1>5. ContextInv'
  BY <1>1 DEF Inv, ContextInv
<1>6. TickInv'
  BY <1>1 DEF TickInv
<1> QED
  BY <1>2, <1>3, <1>4, <1>5, <1>6 DEF Inv

\* os_task_create, whatever the caller does next.
LEMMA AllocateInv ==
    ASSUME Inv, Calling, Usage = {}, NEW t \in Tasks, NEW p \in Priorities,
           Allocate(t, p),
           pc' \in [Contexts -> PcValues], arg' \in [Contexts -> Pointers],
           pc'[cpu] # "yield",
           \A c \in Contexts : pc'[c] = "suspend" => arg'[c] \in Tasks \ {Idle}
    PROVE  Inv'
<1>1. /\ cpu \in Contexts /\ isr = "none" /\ ~pendsv /\ ListHead = k.deferred
      /\ running => /\ k.current = cpu /\ cpu \in Tasks
                    /\ k.state[cpu] = "RUNNING" /\ cpu \in alive
      /\ ~running => cpu = Main /\ k.current = NULL
  BY CallerFacts DEF Calling
<1>2. /\ k \in KernelRecord /\ alive \subseteq Tasks /\ t \in Tasks \ alive
      /\ t # Idle /\ Allocated(k, alive) /\ ListInv(k, alive, k.deferred)
  BY <1>1 DEF Inv, TypeOK, Allocate
<1>3. /\ k' = Created(k, t, p) /\ alive' = alive \cup {t}
      /\ task_count' = task_count + 1
      /\ saved' = [saved EXCEPT ![t] = t]
      /\ UNCHANGED <<running, cpu, pendsv, yield_pending, isr, walk, due>>
  BY DEF Allocate
<1>4. /\ k' \in KernelRecord /\ ListInv(k', alive', k.deferred)
      /\ k'.state = [k.state EXCEPT ![t] = "READY"]
      /\ k'.current = k.current /\ k'.deferred = k.deferred
  BY <1>2, <1>3, CreatedInv
<1>5. /\ k'.state[t] = "READY"
      /\ \A u \in Tasks : u # t => k'.state[u] = k.state[u]
  BY <1>2, <1>4 DEF KernelRecord
<1>6. TypeOK'
  <2>1. task_count' \in 0 .. MaxTasks
    BY <1>3, BoundsAssumption DEF Inv, TypeOK, Allocate, Reserve
  <2>2. saved' \in [Tasks -> Contexts \cup {NULL}]
    BY <1>3 DEF Inv, TypeOK, Contexts
  <2>3. alive' \subseteq Tasks
    BY <1>2, <1>3
  <2> QED
    BY <1>3, <1>4, <2>1, <2>2, <2>3 DEF Inv, TypeOK, PcValues
<1>7. ListInv(k', alive', ListHead')
  BY <1>1, <1>3, <1>4 DEF ListHead
<1>8. Allocated(k', alive')
  BY <1>2, <1>3, <1>5 DEF Allocated
<1>9. PhaseInv'
  <2>1. ~running => Idle \notin alive' /\ task_count' < MaxTasks
    BY <1>2, <1>3, BoundsAssumption DEF Inv, PhaseInv, Allocate, Reserve, TypeOK
  <2>2. running => Idle \in Ready(k')
    BY <1>2, <1>5 DEF Inv, PhaseInv, Ready
  <2> QED
    BY <1>1, <1>3, <1>4, <2>1, <2>2 DEF PhaseInv
<1>10. ContextInv'
  <2>1. running => t # cpu
    BY <1>1, <1>2
  <2>2. running /\ ~pendsv' /\ pc'[cpu'] # "yield" => k'.state[cpu'] = "RUNNING"
    BY <1>1, <1>3, <1>5, <2>1
  <2>3. \A u \in Tasks : k'.state[u] = "RUNNING" => u = k'.current
    BY <1>4, <1>5 DEF Inv, ContextInv
  <2>4. \A u \in alive' : u # cpu' => saved'[u] = u
    <3>1. saved'[t] = t /\ \A u \in Tasks : u # t => saved'[u] = saved[u]
      BY <1>3 DEF Inv, TypeOK
    <3> QED
      BY <1>2, <1>3, <3>1 DEF Inv, ContextInv
  <2> QED
    BY <1>3, <2>2, <2>3, <2>4 DEF ContextInv
<1>11. TickInv'
  BY <1>1, <1>3 DEF TickInv
<1> QED
  BY <1>6, <1>7, <1>8, <1>9, <1>10, <1>11 DEF Inv

LEMMA CreateInv ==
    ASSUME Inv, Usage = {}, NEW t \in Tasks, NEW p \in Priorities,
           Create(t, p) \/ CreateSuspended(t, p)
    PROVE  Inv'
<1>1. /\ pc \in [Contexts -> PcValues] /\ arg \in [Contexts -> Pointers]
      /\ t \in Contexts /\ NULL \in Pointers /\ t \in Pointers
      /\ \A c \in Contexts : pc[c] = "suspend" => arg[c] \in Tasks \ {Idle}
  BY DEF Inv, TypeOK, ContextInv, PcValues, Contexts, Pointers
<1>2. Calling /\ Allocate(t, p) /\ cpu \in Contexts /\ pc[cpu] = "run" /\ t # Idle
  BY DEF Create, CreateSuspended, Calling, Executing, Allocate
<1>3. CASE Create(t, p)
  <2>1. pc' = [pc EXCEPT ![t] = "run"] /\ arg' = [arg EXCEPT ![t] = NULL]
    BY <1>3 DEF Create
  <2>2. /\ pc' \in [Contexts -> PcValues] /\ arg' \in [Contexts -> Pointers]
        /\ pc'[cpu] # "yield"
        /\ \A c \in Contexts : pc'[c] = "suspend" => arg'[c] \in Tasks \ {Idle}
    BY <1>1, <1>2, <2>1 DEF PcValues
  <2> QED
    BY <1>2, <2>2, AllocateInv
<1>4. CASE CreateSuspended(t, p)
  <2>1. /\ pc' = [pc EXCEPT ![t] = "run", ![cpu] = "suspend"]
        /\ arg' = [arg EXCEPT ![t] = NULL, ![cpu] = t]
    BY <1>4 DEF CreateSuspended
  <2>2. /\ pc' \in [Contexts -> PcValues] /\ arg' \in [Contexts -> Pointers]
        /\ pc'[cpu] = "suspend" /\ arg'[cpu] = t
        /\ \A c \in Contexts : c # cpu /\ pc'[c] = "suspend" => arg'[c] \in Tasks \ {Idle}
    BY <1>1, <1>2, <2>1 DEF PcValues
  <2>3. \A c \in Contexts : pc'[c] = "suspend" => arg'[c] \in Tasks \ {Idle}
    BY <1>2, <2>2
  <2> QED
    BY <1>2, <2>2, <2>3, AllocateInv
<1> QED
  BY <1>3, <1>4

\* os_task_suspend, called directly or by os_task_create_suspended.
LEMMA SuspendInv ==
    ASSUME Inv, NEW t \in Tasks, t # Idle, Executing, pc[cpu] # "yield", SuspendStep(t)
    PROVE  Inv'
<1>1. /\ cpu \in Contexts /\ isr = "none" /\ ~pendsv /\ ListHead = k.deferred
      /\ running => k.current = cpu /\ cpu \in Tasks /\ k.state[cpu] = "RUNNING"
  BY CallerFacts
<1>2. /\ k \in KernelRecord /\ alive \subseteq Tasks /\ ListInv(k, alive, k.deferred)
      /\ pc \in [Contexts -> PcValues] /\ arg \in [Contexts -> Pointers]
      /\ Allocated(k, alive)
      /\ \A c \in Contexts : pc[c] = "suspend" => arg[c] \in Tasks \ {Idle}
  BY <1>1 DEF Inv, TypeOK, PcValues, ContextInv
<1>3. /\ k' = Suspended(k, t)
      /\ pc' = [pc EXCEPT ![cpu] = IF t = k.current THEN "yield" ELSE "run"]
      /\ arg' = [arg EXCEPT ![cpu] = NULL]
      /\ UNCHANGED <<alive, task_count, running, cpu, saved, pendsv, yield_pending,
                     isr, walk, due>>
  BY DEF SuspendStep, machine
<1>4. /\ k' \in KernelRecord /\ ListInv(k', alive, k.deferred)
      /\ \A u \in Tasks : u # t => k'.state[u] = k.state[u]
      /\ k'.state[t] = IF t \in Ready(k) THEN "SUSPENDED" ELSE k.state[t]
      /\ k'.current = k.current /\ k'.deferred = k.deferred
  <2> DEFINE k2 == Suspended(k, t)
  <2>1. k \in KernelRecord /\ alive \subseteq Tasks /\ ListInv(k, alive, k.deferred)
    BY <1>2
  <2>2. k2 \in KernelRecord /\ ListInv(k2, alive, k.deferred)
    BY <2>1, SuspendedInv
  <2>3. /\ \A u \in Tasks : u # t => k2.state[u] = k.state[u]
        /\ k2.state[t] = IF t \in Ready(k) THEN "SUSPENDED" ELSE k.state[t]
    BY <2>1, SuspendedInv
  <2>4. k2.current = k.current /\ k2.deferred = k.deferred
    BY <2>1, SuspendedInv
  <2> QED
    BY <1>3, <2>2, <2>3, <2>4
<1>5. /\ pc' \in [Contexts -> PcValues] /\ arg' \in [Contexts -> Pointers]
      /\ pc'[cpu] = IF t = k.current THEN "yield" ELSE "run"
      /\ \A c \in Contexts : pc'[c] = "suspend" => arg'[c] \in Tasks \ {Idle}
  BY <1>1, <1>2, <1>3 DEF PcValues, Pointers
<1>6. Allocated(k', alive')
  BY <1>2, <1>3, <1>4 DEF Allocated, Ready
<1>7. \A u \in Tasks : k'.state[u] = "RUNNING" => k.state[u] = "RUNNING"
  BY <1>4
<1>8. running => Idle \in Ready(k')
  BY <1>4 DEF Inv, PhaseInv, Ready
<1>9. running /\ pc'[cpu] # "yield" => k'.state[cpu] = "RUNNING"
  BY <1>1, <1>4, <1>5
<1>10. ListInv(k', alive', k'.deferred) /\ alive' \subseteq alive
  BY <1>3, <1>4
<1> QED
  BY <1>3, <1>4, <1>5, <1>6, <1>7, <1>8, <1>9, <1>10, CallInv

\* os_task_resume and os_task_set_priority.
LEMMA ReadyInv ==
    ASSUME Inv, Usage = {}, NEW t \in Tasks, NEW p \in Priorities,
           Resume(t) \/ SetPriority(t, p)
    PROVE  Inv'
<1>1. /\ t \in Handles /\ Calling
      /\ UNCHANGED <<alive, task_count, pc, arg, running, cpu, saved, pendsv,
                     yield_pending, isr, walk, due>>
  BY DEF Resume, SetPriority, machine
<1>2. Executing /\ pc[cpu] = "run" /\ pc[cpu] # "yield"
  BY <1>1 DEF Calling
<1>3. /\ cpu \in Contexts /\ ListHead = k.deferred
      /\ running => k.current = cpu /\ cpu \in Tasks /\ k.state[cpu] = "RUNNING"
  BY <1>2, CallerFacts
<1>4. /\ k \in KernelRecord /\ alive \subseteq Tasks /\ ListInv(k, alive, k.deferred)
      /\ pc \in [Contexts -> PcValues] /\ arg \in [Contexts -> Pointers]
      /\ Allocated(k, alive) /\ t \in alive /\ t # Idle
      /\ \A c \in Contexts : pc[c] = "suspend" => arg[c] \in Tasks \ {Idle}
  BY <1>1, <1>3 DEF Inv, TypeOK, PcValues, ContextInv, Handles
<1>5. /\ k' \in KernelRecord /\ ListInv(k', alive, k.deferred)
      /\ k'.current = k.current /\ k'.deferred = k.deferred
      /\ \A u \in Tasks : u # t => k'.state[u] = k.state[u]
      /\ \/ k'.state[t] = k.state[t]
         \/ k'.state[t] = "READY" /\ k.state[t] = "SUSPENDED"
  <2>1. CASE Resume(t)
    <3>1. k.state[t] = "SUSPENDED" /\ k' = AddToReady(k, t)
      BY <2>1 DEF Resume
    <3>2. /\ k' \in KernelRecord /\ ListInv(k', alive, k.deferred)
          /\ k'.state = [k.state EXCEPT ![t] = "READY"]
          /\ k'.current = k.current /\ k'.deferred = k.deferred
      BY <1>4, <3>1, ResumedInv
    <3>3. k'.state[t] = "READY" /\ \A u \in Tasks : u # t => k'.state[u] = k.state[u]
      BY <1>4, <3>2 DEF KernelRecord
    <3> QED
      BY <3>1, <3>2, <3>3
  <2>2. CASE SetPriority(t, p)
    <3>1. k.state[t] # "RUNNING" /\ k' = Reprioritised(k, t, p)
      BY <2>2 DEF SetPriority
    <3>2. /\ k' \in KernelRecord /\ ListInv(k', alive, k.deferred)
          /\ k'.state = k.state
          /\ k'.current = k.current /\ k'.deferred = k.deferred
      <4> DEFINE k2 == Reprioritised(k, t, p)
      <4>1. k \in KernelRecord /\ alive \subseteq Tasks /\ ListInv(k, alive, k.deferred)
        BY <1>4
      <4>2. k2 \in KernelRecord /\ ListInv(k2, alive, k.deferred)
        BY <3>1, <4>1, ReprioritisedInv
      <4>3. k2.state = k.state /\ k2.current = k.current /\ k2.deferred = k.deferred
        BY <3>1, <4>1, ReprioritisedInv
      <4> QED
        BY <3>1, <4>2, <4>3
    <3> QED
      BY <3>2
  <2> QED
    BY <2>1, <2>2
<1>6. Allocated(k', alive')
  BY <1>1, <1>4, <1>5 DEF Allocated
<1>7. \A u \in Tasks : k'.state[u] = "RUNNING" => k.state[u] = "RUNNING"
  BY <1>5
<1>8. running => Idle \in Ready(k')
  BY <1>4, <1>5 DEF Inv, PhaseInv, Ready
<1>9. running /\ pc'[cpu] # "yield" => k'.state[cpu] = "RUNNING"
  BY <1>1, <1>3, <1>5
<1>10. ListInv(k', alive', k'.deferred) /\ alive' \subseteq alive
  BY <1>1, <1>5
<1>11. /\ pc' \in [Contexts -> PcValues] /\ arg' \in [Contexts -> Pointers]
       /\ \A c \in Contexts : pc'[c] = "suspend" => arg'[c] \in Tasks \ {Idle}
  BY <1>1, <1>4
<1> QED
  BY <1>1, <1>2, <1>5, <1>6, <1>7, <1>8, <1>9, <1>10, <1>11, CallInv

\* os_task_delete of another task.
LEMMA DeleteOtherInv ==
    ASSUME Inv, Usage = {}, NEW t \in Tasks, DeleteOther(t)
    PROVE  Inv'
<1>1. /\ t \in Handles /\ t # k.current /\ Calling /\ k' = Deleted(k, t)
      /\ alive' = alive \ {t} /\ k.state[t] # "BLOCKED"
      /\ UNCHANGED <<task_count, pc, arg, running, cpu, saved, pendsv,
                     yield_pending, isr, walk, due>>
  BY DEF DeleteOther, machine
<1>2. Executing /\ pc[cpu] = "run" /\ pc[cpu] # "yield"
  BY <1>1 DEF Calling
<1>3. /\ cpu \in Contexts /\ ListHead = k.deferred
      /\ running => k.current = cpu /\ cpu \in Tasks /\ k.state[cpu] = "RUNNING"
  BY <1>2, CallerFacts
<1>4. /\ k \in KernelRecord /\ alive \subseteq Tasks /\ ListInv(k, alive, k.deferred)
      /\ pc \in [Contexts -> PcValues] /\ arg \in [Contexts -> Pointers]
      /\ Allocated(k, alive) /\ t \in alive /\ t # Idle
      /\ \A c \in Contexts : pc[c] = "suspend" => arg[c] \in Tasks \ {Idle}
  BY <1>1, <1>3 DEF Inv, TypeOK, PcValues, ContextInv, Handles
<1>5. k.state[t] \in {"READY", "SUSPENDED"}
  <2>1. k.state[t] \in TaskStates /\ k.state[t] # "DELETED"
    BY <1>1, <1>4 DEF KernelRecord, Handles
  <2>2. k.state[t] # "RUNNING"
    BY <1>1 DEF Inv, ContextInv
  <2> QED
    BY <1>1, <2>1, <2>2 DEF TaskStates
<1>6. /\ k' \in KernelRecord /\ ListInv(k', alive', k.deferred)
      /\ k'.state = [k.state EXCEPT ![t] = "DELETED"]
      /\ k'.current = k.current /\ k'.deferred = k.deferred
  BY <1>1, <1>4, <1>5, DeletedInv
<1>7. k'.state[t] = "DELETED" /\ \A u \in Tasks : u # t => k'.state[u] = k.state[u]
  BY <1>4, <1>6 DEF KernelRecord
<1>8. Allocated(k', alive')
  BY <1>1, <1>4, <1>7 DEF Allocated
<1>9. \A u \in Tasks : k'.state[u] = "RUNNING" => k.state[u] = "RUNNING"
  BY <1>7
<1>10. running => Idle \in Ready(k')
  BY <1>4, <1>7 DEF Inv, PhaseInv, Ready
<1>11. running /\ pc'[cpu] # "yield" => k'.state[cpu] = "RUNNING"
  BY <1>1, <1>3, <1>7
<1>12. ListInv(k', alive', k'.deferred) /\ alive' \subseteq alive
  BY <1>1, <1>6
<1>13. /\ pc' \in [Contexts -> PcValues] /\ arg' \in [Contexts -> Pointers]
       /\ \A c \in Contexts : pc'[c] = "suspend" => arg'[c] \in Tasks \ {Idle}
  BY <1>1, <1>4
<1> QED
  BY <1>1, <1>2, <1>6, <1>8, <1>9, <1>10, <1>11, <1>12, <1>13, CallInv

\* The caller leaves the ready list: os_task_delay, os_task_delete of oneself.
LEMMA LeaveInv ==
    ASSUME Inv, NEW ticks, ticks \in Nat, DeleteSelf \/ Delay(ticks)
    PROVE  Inv'
<1>1. /\ Calling /\ k.current # NULL /\ pc' = [pc EXCEPT ![cpu] = "yield"]
      /\ UNCHANGED <<alive, task_count, arg, running, cpu, saved, pendsv,
                     yield_pending, isr, walk, due>>
  BY DEF DeleteSelf, Delay, machine
<1>2. Executing /\ pc[cpu] = "run" /\ pc[cpu] # "yield" /\ cpu # Idle
  BY <1>1 DEF Calling
<1>3. /\ cpu \in Contexts /\ ListHead = k.deferred
      /\ running /\ k.current = cpu /\ cpu \in Tasks
      /\ cpu \in Ready(k) /\ cpu \in alive
  BY <1>1, <1>2, CallerFacts
<1>4. /\ k \in KernelRecord /\ alive \subseteq Tasks /\ ListInv(k, alive, k.deferred)
      /\ pc \in [Contexts -> PcValues] /\ arg \in [Contexts -> Pointers]
      /\ Allocated(k, alive)
      /\ \A c \in Contexts : pc[c] = "suspend" => arg[c] \in Tasks \ {Idle}
  BY <1>1, <1>3 DEF Inv, TypeOK, PcValues, ContextInv
<1>5. /\ k' \in KernelRecord /\ ListInv(k', alive, k'.deferred) /\ k'.current = k.current
      /\ \A u \in Tasks : u # cpu => k'.state[u] = k.state[u]
      /\ k'.state[cpu] \in {"DELETED", "BLOCKED"}
  <2>1. CASE DeleteSelf
    <3>1. k' = DeferDelete(k, cpu)
      BY <1>3, <2>1 DEF DeleteSelf
    <3>2. /\ k' \in KernelRecord /\ ListInv(k', alive, k'.deferred)
          /\ k'.state = [k.state EXCEPT ![cpu] = "DELETED"] /\ k'.current = k.current
      BY <1>3, <1>4, <3>1, DeferInv
    <3>3. k'.state[cpu] = "DELETED" /\ \A u \in Tasks : u # cpu => k'.state[u] = k.state[u]
      BY <1>3, <1>4, <3>2 DEF KernelRecord
    <3> QED
      BY <3>2, <3>3
  <2>2. CASE Delay(ticks)
    <3>1. k' = AddToBlocked(k, cpu, ticks)
      BY <1>3, <2>2 DEF Delay
    <3>2. /\ k' \in KernelRecord /\ ListInv(k', alive, k.deferred)
          /\ k'.state = [k.state EXCEPT ![cpu] = "BLOCKED"]
          /\ k'.current = k.current /\ k'.deferred = k.deferred
      <4>1. k \in KernelRecord /\ alive \subseteq Tasks /\ ListInv(k, alive, k.deferred)
        BY <1>4
      <4>2. k' \in KernelRecord /\ ListInv(k', alive, k.deferred)
        BY <1>3, <3>1, <4>1, DelayInv
      <4>3. /\ k'.state = [k.state EXCEPT ![cpu] = "BLOCKED"]
            /\ k'.current = k.current /\ k'.deferred = k.deferred
        BY <1>3, <3>1, <4>1, AddToBlockedFields
      <4> QED
        BY <4>2, <4>3
    <3>3. k'.state[cpu] = "BLOCKED" /\ \A u \in Tasks : u # cpu => k'.state[u] = k.state[u]
      BY <1>3, <1>4, <3>2 DEF KernelRecord
    <3> QED
      BY <3>2, <3>3
  <2> QED
    BY <2>1, <2>2
<1>6. Allocated(k', alive')
  BY <1>1, <1>3, <1>4, <1>5 DEF Allocated
<1>7. \A u \in Tasks : k'.state[u] = "RUNNING" => k.state[u] = "RUNNING"
  BY <1>5
<1>8. running => Idle \in Ready(k')
  BY <1>2, <1>5 DEF Inv, PhaseInv, Ready
<1>9. /\ pc' \in [Contexts -> PcValues] /\ arg' \in [Contexts -> Pointers]
      /\ pc'[cpu] = "yield"
      /\ \A c \in Contexts : pc'[c] = "suspend" => arg'[c] \in Tasks \ {Idle}
  BY <1>1, <1>3, <1>4 DEF PcValues
<1>10. ListInv(k', alive', k'.deferred) /\ alive' \subseteq alive
  BY <1>1, <1>5
<1>11. running /\ pc'[cpu] # "yield" => k'.state[cpu] = "RUNNING"
  BY <1>9
<1> QED
  BY <1>1, <1>2, <1>5, <1>6, <1>7, <1>8, <1>9, <1>10, <1>11, CallInv

\* os_sched_yield: PendSV is pending afterwards.
LEMMA YieldInv ==
    ASSUME Inv, Yield
    PROVE  Inv'
<1>1. /\ running /\ isr = "none" /\ cpu \in Contexts
      /\ pc' = [pc EXCEPT ![cpu] = "run"] /\ yield_pending' = TRUE /\ pendsv' = TRUE
      /\ UNCHANGED <<k, alive, task_count, running, cpu, saved, arg, isr, walk, due>>
  BY DEF Yield, Executing
<1>2. TypeOK'
  BY <1>1 DEF Inv, TypeOK
<1>3. ListInv(k', alive', ListHead') /\ Allocated(k', alive')
  BY <1>1 DEF Inv, ListHead
<1>4. PhaseInv'
  BY <1>1 DEF Inv, PhaseInv
<1>5. ContextInv'
  <2>1. \A c \in Contexts : pc'[c] = "suspend" => pc[c] = "suspend"
    BY <1>1 DEF Inv, TypeOK
  <2> QED
    BY <1>1, <2>1 DEF Inv, ContextInv
<1>6. TickInv'
  BY <1>1 DEF TickInv
<1> QED
  BY <1>2, <1>3, <1>4, <1>5, <1>6 DEF Inv

\* os_sched_start: the slot kept for the idle task makes it ready, so the first
\* selection finds a task.
LEMMA StartInv ==
    ASSUME Inv, Start
    PROVE  Inv'
<1>1. /\ ~running /\ k.current = NULL /\ cpu = Main /\ isr = "none" /\ ~pendsv
      /\ Idle \notin alive /\ task_count < MaxTasks
      /\ task_count \in 0 .. MaxTasks
  BY DEF Start, Inv, PhaseInv, TypeOK
<1>2. ~(task_count >= MaxTasks)
  BY <1>1, BoundsAssumption
<1> DEFINE c == Created(k, Idle, Lowest)
           kk == SelectNext(c)
           ss == [saved EXCEPT ![Idle] = Idle]
<1>3. /\ k' = kk /\ alive' = alive \cup {Idle} /\ task_count' = task_count + 1
      /\ cpu' = IF kk.current = NULL THEN Main ELSE ss[kk.current]
      /\ saved' = Store(ss, kk.current, NULL)
      /\ running' = TRUE
      /\ UNCHANGED <<pc, arg, pendsv, yield_pending, isr, walk, due>>
  BY <1>2 DEF Start
<1>4. /\ k \in KernelRecord /\ alive \subseteq Tasks /\ Allocated(k, alive)
      /\ ListInv(k, alive, k.deferred) /\ Idle \in Tasks \ alive
      /\ Lowest \in Priorities
      /\ \A u \in Tasks : k.state[u] = "RUNNING" => u = k.current
      /\ saved \in [Tasks -> Contexts \cup {NULL}]
      /\ \A u \in alive : saved[u] = u
  <2>1. Lowest \in Priorities
    BY PrioritiesAssumption DEF Lowest, Priorities
  <2>2. Main \notin Tasks
    BY ContextsAssumption DEF Pointers
  <2> QED
    BY <1>1, <2>1, <2>2, TasksAssumption DEF Inv, TypeOK, ContextInv, ListHead
<1>5. /\ c \in KernelRecord /\ ListInv(c, alive \cup {Idle}, k.deferred)
      /\ c.state = [k.state EXCEPT ![Idle] = "READY"]
      /\ c.current = k.current /\ c.deferred = k.deferred
  <2>1. /\ k \in KernelRecord /\ alive \subseteq Tasks /\ Allocated(k, alive)
        /\ ListInv(k, alive, k.deferred) /\ Idle \in Tasks \ alive
        /\ Lowest \in Priorities
    BY <1>4
  <2>2. c \in KernelRecord
    BY <2>1, CreatedInv
  <2>3. ListInv(c, alive \cup {Idle}, k.deferred)
    BY <2>1, CreatedInv
  <2>4. /\ c.state = [k.state EXCEPT ![Idle] = "READY"]
        /\ c.current = k.current /\ c.deferred = k.deferred
    BY <2>1, TasksAssumption, CreatedFields
  <2> QED
    BY <2>2, <2>3, <2>4
<1> HIDE DEF c
<1>6. c.state[Idle] = "READY" /\ \A u \in Tasks : u # Idle => c.state[u] = k.state[u]
  BY <1>4, <1>5 DEF KernelRecord
<1>7. /\ Idle \in Ready(c) /\ Ready(c) # {}
      /\ \A u \in Tasks : c.state[u] = "RUNNING" => u = c.current
      /\ alive \cup {Idle} \subseteq Tasks
  BY <1>4, <1>5, <1>6, TasksAssumption DEF Ready
<1>8. /\ kk \in KernelRecord /\ ListInv(kk, alive \cup {Idle}, k.deferred)
      /\ Ready(kk) = Ready(c)
      /\ \A u \in Tasks : kk.state[u] = "DELETED" <=> c.state[u] = "DELETED"
      /\ kk.current \in Ready(c) /\ kk.state[kk.current] = "RUNNING"
      /\ \A u \in Tasks : kk.state[u] = "RUNNING" => u = kk.current
      /\ kk.deferred = c.deferred
  BY <1>5, <1>7, SelectInv
<1> HIDE DEF kk
<1>9. Allocated(kk, alive \cup {Idle})
  BY <1>4, <1>6, <1>8 DEF Allocated
<1>10. kk.current \in alive \cup {Idle} /\ kk.current \in Tasks /\ kk.current # NULL
  <2>1. kk.current \in Tasks
    BY <1>8 DEF Ready
  <2> QED
    BY <1>8, <1>9, <2>1, TasksAssumption DEF Allocated
<1>11. /\ ss \in [Tasks -> Contexts \cup {NULL}]
       /\ \A u \in alive \cup {Idle} : ss[u] = u
  BY <1>4, TasksAssumption DEF Contexts
<1> HIDE DEF ss
<1>12. /\ cpu' = kk.current
       /\ saved' \in [Tasks -> Contexts \cup {NULL}]
       /\ \A u \in alive \cup {Idle} : u # kk.current => saved'[u] = u
  BY <1>3, <1>7, <1>10, <1>11 DEF Store
<1>13. TypeOK'
  <2>1. task_count' \in 0 .. MaxTasks
    BY <1>1, <1>3, BoundsAssumption
  <2>2. cpu' \in Contexts \cup {NULL}
    BY <1>10, <1>12 DEF Contexts
  <2>3. alive' \subseteq Tasks
    BY <1>3, <1>7
  <2> QED
    BY <1>3, <1>8, <1>12, <2>1, <2>2, <2>3 DEF Inv, TypeOK
<1>14. ListInv(k', alive', ListHead') /\ Allocated(k', alive')
  BY <1>1, <1>3, <1>5, <1>8, <1>9 DEF ListHead
<1>15. PhaseInv'
  BY <1>3, <1>7, <1>8, <1>10, <1>12 DEF PhaseInv
<1>16. ContextInv'
  <2>1. running' /\ ~pendsv' /\ pc'[cpu'] # "yield" => k'.state[cpu'] = "RUNNING"
    BY <1>3, <1>8, <1>12
  <2>2. \A u \in alive' : u # cpu' => saved'[u] = u
    BY <1>3, <1>12
  <2>3. \A u \in Contexts : pc'[u] = "suspend" => arg'[u] \in Tasks \ {Idle}
    BY <1>3 DEF Inv, ContextInv
  <2> QED
    BY <1>3, <1>8, <2>1, <2>2, <2>3 DEF ContextInv
<1>17. TickInv'
  BY <1>1, <1>3 DEF TickInv
<1> QED
  BY <1>13, <1>14, <1>15, <1>16, <1>17 DEF Inv

\* PendSV_Handler stores the executing context in its own TCB and loads the one
\* of the selected task, which is its own.
LEMMA PendSVInv ==
    ASSUME Inv, PendSV
    PROVE  /\ Inv'
           /\ k'.current \in Tasks /\ k'.state[k'.current] = "RUNNING"
           /\ \A t \in Ready(k') : k'.priority[k'.current] <= k'.priority[t]
<1> DEFINE stored == [saved EXCEPT ![k.current] = cpu]
           kk == SelectNext(k)
<1>1. /\ pendsv /\ isr = "none" /\ k' = kk /\ cpu' = stored[kk.current]
      /\ saved' = [stored EXCEPT ![kk.current] = NULL] /\ pendsv' = FALSE
      /\ UNCHANGED <<alive, task_count, running, pc, arg, yield_pending, isr, walk, due>>
  BY DEF PendSV
<1>2. /\ running /\ k.current \in Tasks /\ cpu = k.current /\ Idle \in Ready(k)
  BY <1>1 DEF Inv, PhaseInv
<1>3. /\ k \in KernelRecord /\ alive \subseteq Tasks /\ Allocated(k, alive)
      /\ ListInv(k, alive, k.deferred) /\ Ready(k) # {}
      /\ \A u \in Tasks : k.state[u] = "RUNNING" => u = k.current
      /\ saved \in [Tasks -> Contexts \cup {NULL}]
      /\ \A u \in alive : u # cpu => saved[u] = u
  BY <1>1, <1>2 DEF Inv, TypeOK, ContextInv, ListHead
<1>4. /\ kk \in KernelRecord /\ ListInv(kk, alive, k.deferred)
      /\ Ready(kk) = Ready(k)
      /\ \A u \in Tasks : kk.state[u] = "DELETED" <=> k.state[u] = "DELETED"
      /\ kk.current \in Ready(k) /\ kk.state[kk.current] = "RUNNING"
      /\ \A u \in Tasks : kk.state[u] = "RUNNING" => u = kk.current
      /\ \A u \in Ready(k) : kk.priority[kk.current] <= kk.priority[u]
      /\ kk.deferred = k.deferred
  BY <1>3, SelectInv
<1> HIDE DEF kk
<1>5. Allocated(kk, alive) /\ kk.current \in Tasks /\ kk.current \in alive
  <2>1. kk.current \in Tasks
    BY <1>4 DEF Ready
  <2> QED
    BY <1>3, <1>4, <2>1 DEF Allocated
<1>6. /\ stored \in [Tasks -> Contexts \cup {NULL}]
      /\ \A u \in alive : stored[u] = u
  BY <1>2, <1>3 DEF Contexts
<1> HIDE DEF stored
<1>7. /\ cpu' = kk.current /\ saved' \in [Tasks -> Contexts \cup {NULL}]
      /\ \A u \in alive : u # kk.current => saved'[u] = u
  BY <1>1, <1>3, <1>5, <1>6
<1>8. TypeOK'
  <2>1. cpu' \in Contexts \cup {NULL}
    BY <1>5, <1>7 DEF Contexts
  <2> QED
    BY <1>1, <1>4, <1>7, <2>1 DEF Inv, TypeOK
<1>9. ListInv(k', alive', ListHead') /\ Allocated(k', alive')
  BY <1>1, <1>4, <1>5 DEF ListHead
<1>10. PhaseInv'
  BY <1>1, <1>2, <1>4, <1>5, <1>7 DEF PhaseInv
<1>11. ContextInv'
  <2>1. running' /\ ~pendsv' /\ pc'[cpu'] # "yield" => k'.state[cpu'] = "RUNNING"
    BY <1>1, <1>4, <1>7
  <2>2. \A u \in alive' : u # cpu' => saved'[u] = u
    BY <1>1, <1>7
  <2>3. \A u \in Contexts : pc'[u] = "suspend" => arg'[u] \in Tasks \ {Idle}
    BY <1>1 DEF Inv, ContextInv
  <2> QED
    BY <1>1, <1>4, <2>1, <2>2, <2>3 DEF ContextInv
<1>12. TickInv'
  BY <1>1 DEF TickInv
<1>13. Inv'
  BY <1>8, <1>9, <1>10, <1>11, <1>12 DEF Inv
<1> QED
  BY <1>1, <1>4, <1>5, <1>13

\* The steps of SysTick_Handler.
LEMMA SysTickInv ==
    ASSUME Inv, Nesting, SysTick
    PROVE  Inv'
<1>1. /\ k \in KernelRecord /\ alive \subseteq Tasks /\ Allocated(k, alive)
      /\ ListInv(k, alive, ListHead) /\ running \in BOOLEAN
      /\ isr # "none" => running
  BY DEF Inv, TypeOK, PhaseInv
<1>2. CASE TickBegin
  <2>1. /\ running /\ isr = "none" /\ isr' = "walk" /\ walk' = k.blocked
        /\ due' = [t \in Tasks |-> IF k.state[t] = "BLOCKED" THEN k.delay[t] ELSE 0]
        /\ UNCHANGED <<k, alive, task_count, running, cpu, saved, pc, arg, pendsv,
                       yield_pending>>
    BY <1>2 DEF TickBegin
  <2>2. k.blocked \in Pointers /\ due' \in [Tasks -> Nat]
    BY <1>1, <2>1 DEF KernelRecord
  <2>3. TypeOK'
    BY <2>1, <2>2 DEF Inv, TypeOK
  <2>4. k.blocked \in Delayed(k) \cup {NULL}
    BY <1>1, BlockedHead DEF ListInv
  <2>5. TickInv'
    BY <2>1, <2>4 DEF TickInv
  <2>6. ListHead' = ListHead
    BY <2>1 DEF ListHead
  <2>7. PhaseInv' /\ ContextInv'
    BY <2>1 DEF Inv, PhaseInv, ContextInv
  <2> QED
    BY <1>1, <2>1, <2>3, <2>5, <2>6, <2>7 DEF Inv
<1>3. CASE TickWalk
  <2>1. /\ isr = "walk" /\ walk # NULL /\ k' = Ticked(k, walk) /\ walk' = k.next[walk]
        /\ UNCHANGED <<alive, task_count, running, cpu, saved, pc, arg, pendsv,
                       yield_pending, isr, due>>
    BY <1>3 DEF TickWalk
  <2>2. /\ walk \in Delayed(k) /\ walk \in Tasks /\ k.state[walk] = "BLOCKED"
        /\ ListHead = k.deferred /\ running
    BY <1>1, <2>1 DEF Inv, TickInv, Delayed, ListHead
  <2>3. /\ k' \in KernelRecord /\ ListInv(k', alive, k.deferred)
        /\ \A u \in Tasks : u # walk => k'.state[u] = k.state[u]
        /\ k'.state[walk] \in {"BLOCKED", "READY"}
        /\ k'.current = k.current /\ k'.deferred = k.deferred
    BY <1>1, <2>1, <2>2, TickedInv
  <2>4. walk' \in (Delayed(k) \ {walk}) \cup {NULL}
    BY <1>1, <2>1, <2>2, BlockedSuccessor DEF ListInv
  <2>5. walk' \in Delayed(k') \cup {NULL} /\ walk' \in Pointers
    BY <2>3, <2>4 DEF Delayed, Pointers
  <2>6. TypeOK'
    BY <2>1, <2>3, <2>5 DEF Inv, TypeOK
  <2>7. ListInv(k', alive', ListHead') /\ Allocated(k', alive')
    <3>1. ListHead' = k.deferred
      BY <2>1, <2>3 DEF ListHead
    <3>2. Allocated(k', alive')
      BY <1>1, <2>1, <2>2, <2>3 DEF Allocated
    <3> QED
      BY <2>1, <2>3, <3>1, <3>2
  <2>8. PhaseInv'
    <3>1. Idle \in Ready(k')
      BY <2>2, <2>3, TasksAssumption DEF Inv, PhaseInv, Ready
    <3> QED
      BY <2>1, <2>2, <2>3, <3>1 DEF Inv, PhaseInv
  <2>9. ContextInv'
    <3>1. \A u \in Tasks : k'.state[u] = "RUNNING" <=> k.state[u] = "RUNNING"
      BY <2>2, <2>3
    <3>2. cpu \in Tasks
      BY <2>2 DEF Inv, PhaseInv
    <3> QED
      BY <2>1, <2>3, <3>1, <3>2 DEF Inv, ContextInv
  <2>10. TickInv'
    BY <2>1, <2>5 DEF TickInv
  <2> QED
    BY <2>6, <2>7, <2>8, <2>9, <2>10 DEF Inv
<1>4. CASE TickDetach
  <2>1. /\ isr = "walk" /\ isr' = "reap" /\ walk' = k.deferred
        /\ k' = [k EXCEPT !.deferred = NULL]
        /\ UNCHANGED <<alive, task_count, running, cpu, saved, pc, arg, pendsv,
                       yield_pending, due>>
    BY <1>4 DEF TickDetach
  <2>2. /\ k'.state = k.state /\ k'.next = k.next /\ k'.prev = k.prev
        /\ k'.head = k.head /\ k'.tail = k.tail /\ k'.count = k.count
        /\ k'.bitmap = k.bitmap /\ k'.blocked = k.blocked
    BY <1>1, <2>1 DEF KernelRecord
  <2>3. k'.priority = k.priority /\ k'.current = k.current /\ k'.deferred = NULL
    BY <1>1, <2>1 DEF KernelRecord
  <2>4. k' \in KernelRecord /\ k.deferred \in Pointers
    BY <1>1, <2>1 DEF KernelRecord, Pointers
  <2>5. TypeOK'
    BY <2>1, <2>4 DEF Inv, TypeOK
  <2>6. /\ Ready(k') = Ready(k) /\ Delayed(k') = Delayed(k)
        /\ DoomedIn(k', alive) = DoomedIn(k, alive)
    BY <2>2 DEF Ready, Delayed, DoomedIn
  <2>7. ListInv(k', alive', ListHead')
    <3>1. ListHead = k.deferred /\ ListHead' = k.deferred
      BY <2>1 DEF ListHead
    <3>2. ListsOK(k, Ready(k), Delayed(k), DoomedIn(k, alive), k.deferred)
      BY <1>1, <3>1 DEF ListInv
    <3>3. ListsOK(k', Ready(k), Delayed(k), DoomedIn(k, alive), k.deferred)
      BY <1>1, <2>2, <2>3, <3>2, FrameLists
    <3> QED
      BY <2>1, <2>6, <3>1, <3>3 DEF ListInv
  <2>8. Allocated(k', alive')
    BY <1>1, <2>1, <2>2 DEF Allocated
  <2>9. PhaseInv' /\ ContextInv'
    BY <1>1, <2>1, <2>2, <2>3, <2>6 DEF Inv, PhaseInv, ContextInv
  <2>10. TickInv'
    BY <2>1, <2>3 DEF TickInv
  <2> QED
    BY <2>5, <2>7, <2>8, <2>9, <2>10 DEF Inv
<1>5. CASE TickReap
  <2>1. /\ isr = "reap" /\ walk # NULL /\ alive' = alive \ {walk} /\ walk' = k.next[walk]
        /\ UNCHANGED <<k, task_count, running, cpu, saved, pc, arg, pendsv,
                       yield_pending, isr, due>>
    BY <1>5 DEF TickReap
  <2> DEFINE D == DoomedIn(k, alive)
  <2>2. /\ ListsOK(k, Ready(k), Delayed(k), D, walk)
        /\ DeferredOK(k.next, D, walk) /\ D \subseteq Tasks
    BY <1>1, <2>1 DEF ListInv, ListHead, ListsOK
  <2>3. walk \in D /\ walk \in Tasks /\ k.state[walk] = "DELETED"
    <3>1. walk \in D
      <4> HIDE DEF D
      <4> QED
        BY <2>1, <2>2, DeferredHead
    <3> QED
      BY <2>2, <3>1 DEF DoomedIn
  <2>4. DeferredOK(k.next, D \ {walk}, k.next[walk])
    <3> HIDE DEF D
    <3> QED
      BY <2>2, <2>3, PopDeferred
  <2>5. DoomedIn(k, alive') = D \ {walk}
    BY <2>1 DEF DoomedIn
  <2>6. ListInv(k', alive', ListHead')
    <3>1. ListHead' = k.next[walk]
      BY <2>1 DEF ListHead
    <3>2. ListsOK(k, Ready(k), Delayed(k), D \ {walk}, k.next[walk])
      <4> HIDE DEF D
      <4> QED
        BY <2>2, <2>4 DEF ListsOK
    <3> QED
      BY <2>1, <2>5, <3>1, <3>2 DEF ListInv
  <2>7. Allocated(k', alive')
    BY <1>1, <2>1, <2>3 DEF Allocated
  <2>8. TypeOK'
    <3>1. walk' \in Pointers /\ alive' \subseteq Tasks
      BY <1>1, <2>1, <2>3 DEF KernelRecord
    <3> QED
      BY <2>1, <3>1 DEF Inv, TypeOK
  <2>9. PhaseInv' /\ ContextInv' /\ TickInv'
    BY <1>1, <2>1 DEF Inv, PhaseInv, ContextInv, TickInv
  <2> QED
    BY <2>6, <2>7, <2>8, <2>9 DEF Inv
<1>6. CASE TickEnd
  <2>1. /\ isr = "reap" /\ walk = NULL /\ isr' = "none" /\ k' = k
        /\ pendsv' = (pendsv \/ ~Nesting \/ yield_pending) /\ yield_pending' = FALSE
        /\ due' = NotDue
        /\ UNCHANGED <<alive, task_count, running, cpu, saved, pc, arg, walk>>
    BY <1>6 DEF TickEnd
  <2>2. ListHead' = ListHead
    BY <2>1 DEF ListHead, Inv, TickInv
  <2>3. pendsv' \in BOOLEAN /\ (~pendsv' => ~pendsv)
    BY <2>1 DEF Inv, TypeOK
  <2>4. TypeOK'
    BY <2>1, <2>3 DEF Inv, TypeOK, NotDue
  <2>5. PhaseInv' /\ ContextInv' /\ TickInv'
    BY <1>1, <2>1, <2>3 DEF Inv, PhaseInv, ContextInv, TickInv
  <2> QED
    BY <1>1, <2>1, <2>2, <2>4, <2>5 DEF Inv
<1> QED
  BY <1>2, <1>3, <1>4, <1>5, <1>6 DEF SysTick, os_task_tick

LEMMA NextInv ==
    ASSUME Inv, Nesting, Usage = {}, [Next]_vars
    PROVE  Inv'
<1>1. CASE UNCHANGED vars
  BY <1>1 DEF vars, Inv, TypeOK, ListHead, PhaseInv, ContextInv, TickInv
<1>2. CASE Call
  <2>1. ASSUME NEW t \in Tasks, NEW p \in Priorities,
               Create(t, p) \/ CreateSuspended(t, p) PROVE Inv'
    BY <2>1, CreateInv
  <2>2. ASSUME NEW t \in Tasks, NEW p \in Priorities, SetPriority(t, p) PROVE Inv'
    BY <2>2, ReadyInv
  <2>3. ASSUME NEW t \in Tasks, Resume(t) PROVE Inv'
    <3>1. Lowest \in Priorities
      BY PrioritiesAssumption DEF Lowest, Priorities
    <3> QED
      BY <2>3, <3>1, ReadyInv
  <2>4. ASSUME NEW t \in Tasks, Suspend(t) PROVE Inv'
    <3>1. Executing /\ pc[cpu] # "yield" /\ t # Idle /\ SuspendStep(t)
      BY <2>4 DEF Suspend, Calling, Handles
    <3> QED
      BY <3>1, SuspendInv
  <2>5. ASSUME FinishCreateSuspended PROVE Inv'
    <3>1. /\ Executing /\ pc[cpu] = "suspend" /\ pc[cpu] # "yield" /\ cpu \in Contexts
          /\ SuspendStep(arg[cpu])
      BY <2>5 DEF FinishCreateSuspended, Executing
    <3>2. arg[cpu] \in Tasks /\ arg[cpu] # Idle
      BY <3>1 DEF Inv, ContextInv
    <3> QED
      BY <3>1, <3>2, SuspendInv
  <2>6. ASSUME NEW t \in Tasks, DeleteOther(t) PROVE Inv'
    BY <2>6, DeleteOtherInv
  <2>7. ASSUME NEW ticks \in 1 .. MaxDelay, Delay(ticks) PROVE Inv'
    <3>1. ticks \in Nat
      BY BoundsAssumption
    <3> QED
      BY <2>7, <3>1, LeaveInv
  <2>8. ASSUME DeleteSelf PROVE Inv'
    <3>1. 0 \in Nat
      OBVIOUS
    <3> QED
      BY <2>8, <3>1, LeaveInv
  <2> QED
    BY <1>2, <2>1, <2>2, <2>3, <2>4, <2>5, <2>6, <2>7, <2>8, YieldInv, StartInv
    DEF Call, os_task_create_suspended, os_task_delete
<1>3. CASE PendSV
  BY <1>3, PendSVInv
<1>4. CASE SysTick
  BY <1>4, SysTickInv
<1> QED
  BY <1>1, <1>2, <1>3, <1>4 DEF Next

-----------------------------------------------------------------------------
\* The theorems.

LEMMA InvAlways ==
    ASSUME Nesting, Usage = {}
    PROVE  Spec => []Inv
<1>1. Init => Inv
  BY InitInv
<1>2. Inv /\ [Next]_vars => Inv'
  BY NextInv
<1> QED
  BY <1>1, <1>2, PTL DEF Spec

\* Every variable keeps its type: no pointer leads outside the TCBs, no count
\* goes below zero, and the task table never overflows.
THEOREM TypeCorrect ==
    ASSUME Nesting, Usage = {}
    PROVE  Spec => []TypeOK
<1>1. Inv => TypeOK
  BY DEF Inv
<1> QED
  BY <1>1, InvAlways, PTL

\* The ready lists are exact under every interleaving of calls, ticks and
\* switches (task.c:190-237).
THEOREM ReadyListsCorrect ==
    ASSUME Nesting, Usage = {}
    PROVE  Spec => []ReadyListsExact
<1>1. ASSUME Inv PROVE ReadyListsExact
  <2>1. SUFFICES ASSUME NEW p \in Priorities
                 PROVE  \E f \in [1 .. k.count[p] -> ReadyAt(k, p)] : IsReadyList(k, p, f)
    BY DEF ReadyListsExact
  <2>2. PICK f : ReadyListOf(k, Ready(k), p, f)
    BY <1>1 DEF Inv, ListInv, ListsOK, ReadyOK
  <2>3. AtPriority(k, Ready(k), p) = ReadyAt(k, p)
    BY DEF AtPriority, ReadyAt
  <2>4. IsReadyList(k, p, f)
    BY <2>2, <2>3 DEF ReadyListOf, IsChain, IsReadyList
  <2>5. f \in [1 .. k.count[p] -> ReadyAt(k, p)]
    BY <2>4 DEF IsReadyList, Enumerates
  <2> QED
    BY <2>4, <2>5
<1>2. Inv => ReadyListsExact
  BY <1>1
<1> QED
  BY <1>2, InvAlways, PTL

\* An enumeration of a set is as long as the set is large.
LEMMA EnumerationLength ==
    ASSUME NEW n, n \in Nat, NEW f, NEW S, Enumerates(f, n, S)
    PROVE  Cardinality(S) = n
<1>1. f \in Bijection(1 .. n, S)
  BY DEF Enumerates, Bijection, Injection, Surjection, IsInjective
<1>2. ExistsBijection(1 .. n, S)
  BY <1>1 DEF ExistsBijection
<1> QED
  BY <1>2, FS_CountingElements

\* The blocked list is exact (task.c:574-641).
THEOREM BlockedListCorrect ==
    ASSUME Nesting, Usage = {}
    PROVE  Spec => []BlockedListExact
<1>1. ASSUME Inv PROVE BlockedListExact
  <2>n. PICK n \in Nat : \E f : IsChain(k.next, k.prev, f, n, Delayed(k)) /\ k.blocked = First(f, n)
    BY <1>1 DEF Inv, ListInv, ListsOK, BlockedOK
  <2>1. PICK f : IsChain(k.next, k.prev, f, n, Delayed(k)) /\ k.blocked = First(f, n)
    BY <2>n
  <2>2. Enumerates(f, n, Delayed(k)) /\ IsBlockedList(k, f, n)
    BY <2>1 DEF IsChain, IsBlockedList
  <2>3. Cardinality(Delayed(k)) = n
    BY <2>2, EnumerationLength
  <2>4. f \in [1 .. n -> Delayed(k)]
    BY <2>2 DEF Enumerates
  <2> QED
    BY <2>2, <2>3, <2>4 DEF BlockedListExact
<1>2. Inv => BlockedListExact
  BY <1>1
<1> QED
  BY <1>2, InvAlways, PTL

\* Self-deletion neither leaks nor frees twice (task.c:401-403, 668-692).
THEOREM DeferredListCorrect ==
    ASSUME Nesting, Usage = {}
    PROVE  Spec => []DeferredListExact
<1>1. ASSUME Inv PROVE DeferredListExact
  <2>1. Doomed = DoomedIn(k, alive)
    BY DEF Doomed, DoomedIn
  <2>n. PICK n \in Nat : \E f : /\ Enumerates(f, n, Doomed)
                                /\ NextThreads(k.next, f, n)
                                /\ ListHead = First(f, n)
    BY <1>1, <2>1 DEF Inv, ListInv, ListsOK, DeferredOK
  <2>2. PICK f : /\ Enumerates(f, n, Doomed)
                 /\ NextThreads(k.next, f, n)
                 /\ ListHead = First(f, n)
    BY <2>n
  <2>3. Cardinality(Doomed) = n
    BY <2>2, EnumerationLength
  <2>4. f \in [1 .. n -> Doomed]
    BY <2>2 DEF Enumerates
  <2> QED
    BY <2>2, <2>3, <2>4 DEF DeferredListExact, ListHead
<1>2. Inv => DeferredListExact
  BY <1>1
<1> QED
  BY <1>2, InvAlways, PTL

\* No list leads to freed memory.
THEOREM NoDanglingTask ==
    ASSUME Nesting, Usage = {}
    PROVE  Spec => []OnlyAllocatedTasks
<1>1. Inv => OnlyAllocatedTasks
  BY DEF Inv, Allocated, OnlyAllocatedTasks
<1> QED
  BY <1>1, InvAlways, PTL

\* Every context survives the switches (port.c:342-373).
THEOREM ContextsCorrect ==
    ASSUME Nesting, Usage = {}
    PROVE  Spec => []ContextsIntact
<1>1. Inv => ContextsIntact
  BY DEF Inv, PhaseInv, ContextInv, ContextsIntact
<1> QED
  BY <1>1, InvAlways, PTL

\* Only the current task is RUNNING, and a context about to call the API is
\* (scheduler.c:171-183).
THEOREM RunningCorrect ==
    ASSUME Nesting, Usage = {}
    PROVE  Spec => []RunningIsCurrent
<1>1. Inv => RunningIsCurrent
  BY DEF Inv, PhaseInv, ContextInv, RunningIsCurrent
<1> QED
  BY <1>1, InvAlways, PTL

\* A context switch goes to a ready task of the highest priority that has one
\* (scheduler.c:133-184).
THEOREM DispatchCorrect ==
    ASSUME Nesting, Usage = {}
    PROVE  Spec => DispatchHighest
<1> DEFINE Highest == /\ k'.state[k'.current] = "RUNNING"
                      /\ \A t \in Ready(k') : k'.priority[k'.current] <= k'.priority[t]
<1>1. ASSUME Inv, [Next]_vars, Switched PROVE Highest
  <2>1. pendsv /\ ~pendsv'
    BY <1>1 DEF Switched
  <2>2. CASE PendSV
    BY <1>1, <2>2, PendSVInv
  <2>3. CASE Call
    BY <2>1, <2>3 DEF Call, os_task_create_suspended, os_task_delete, Create, CreateSuspended, SetPriority, Suspend, Resume,
                      DeleteOther, Delay, FinishCreateSuspended, DeleteSelf, Yield,
                      Start, Calling, Executing
  <2>4. CASE SysTick
    BY <2>1, <2>4 DEF SysTick, os_task_tick, TickBegin, TickWalk, TickDetach, TickReap, TickEnd
  <2>5. CASE UNCHANGED vars
    BY <2>1, <2>5 DEF vars
  <2> QED
    BY <1>1, <2>2, <2>3, <2>4, <2>5 DEF Next
<1>2. Inv /\ [Next]_vars => [Switched => Highest]_vars
  BY <1>1
<1>3. Spec => [][Switched => Highest]_vars
  BY <1>2, InvAlways, PTL DEF Spec
<1> QED
  BY <1>3 DEF DispatchHighest

-----------------------------------------------------------------------------
\* The tick serves every delayed task once.

\* b delays nobody that a does not, and for as long.
KeepsDelays(a, b) ==
    \A u \in Tasks : b.state[u] = "BLOCKED" =>
        a.state[u] = "BLOCKED" /\ b.delay[u] = a.delay[u]

LEMMA AddToReadyKeeps ==
    ASSUME NEW kk \in KernelRecord, NEW t \in Tasks
    PROVE  AddToReady(kk, t) \in KernelRecord /\ KeepsDelays(kk, AddToReady(kk, t))
<1> DEFINE k2 == AddToReady(kk, t)
<1>1. /\ k2 \in KernelRecord /\ k2.state = [kk.state EXCEPT ![t] = "READY"]
      /\ k2.delay = kk.delay
  BY AddToReadyFields
<1> HIDE DEF k2
<1>2. kk.state \in [Tasks -> TaskStates]
  BY DEF KernelRecord
<1>3. KeepsDelays(kk, k2)
  BY <1>1, <1>2 DEF KeepsDelays
<1> QED
  BY <1>1, <1>3 DEF k2

LEMMA RemoveFromReadyKeeps ==
    ASSUME NEW kk \in KernelRecord, NEW t \in Tasks
    PROVE  /\ RemoveFromReady(kk, t) \in KernelRecord
           /\ RemoveFromReady(kk, t).state = kk.state
           /\ RemoveFromReady(kk, t).delay = kk.delay
BY RemoveFromReadyFields

LEMMA CreatedKeeps ==
    ASSUME NEW kk \in KernelRecord, NEW t \in Tasks, NEW p \in Priorities
    PROVE  Created(kk, t, p) \in KernelRecord /\ KeepsDelays(kk, Created(kk, t, p))
<1> DEFINE k1 == [kk EXCEPT !.priority[t] = p, !.delay[t] = 0,
                            !.next[t] = NULL, !.prev[t] = NULL]
           k2 == AddToReady(k1, t)
<1>1. k1.state = kk.state /\ k1.delay = [kk.delay EXCEPT ![t] = 0]
  BY DEF KernelRecord
<1>2. k1 \in KernelRecord
  <2>1. NULL \in Pointers
    BY DEF Pointers
  <2> QED
    BY <2>1 DEF KernelRecord
<1>3. k2 \in KernelRecord /\ k2.state = [k1.state EXCEPT ![t] = "READY"] /\ k2.delay = k1.delay
  BY <1>2, AddToReadyFields
<1>4. kk.state \in [Tasks -> TaskStates] /\ kk.delay \in [Tasks -> Nat]
  BY DEF KernelRecord
<1>5. Created(kk, t, p) = k2
  BY DEF Created
<1> HIDE DEF k1, k2
<1>6. KeepsDelays(kk, k2)
  BY <1>1, <1>3, <1>4 DEF KeepsDelays
<1> QED
  BY <1>3, <1>5, <1>6

LEMMA SelectKeeps ==
    ASSUME NEW kk \in KernelRecord
    PROVE  KeepsDelays(kk, SelectNext(kk))
<1> DEFINE r == Rotate(kk)
           c == FindHighestReady(r)
           s1 == IF r.current # NULL /\ r.state[r.current] = "RUNNING"
                 THEN [r.state EXCEPT ![r.current] = "READY"] ELSE r.state
           s2 == [s1 EXCEPT ![c] = "RUNNING"]
           k2 == [r EXCEPT !.state = s2, !.current = c]
<1>1. r \in KernelRecord /\ KeepsDelays(kk, r)
  <2>1. CASE kk.current # NULL /\ FindHighestReady(kk) = kk.current
    <3> DEFINE r1 == RemoveFromReady(kk, kk.current)
               r2 == AddToReady(r1, kk.current)
    <3>1. kk.current \in Tasks
      BY <2>1 DEF KernelRecord, Pointers
    <3>2. r1 \in KernelRecord /\ r1.state = kk.state /\ r1.delay = kk.delay
      BY <3>1, RemoveFromReadyKeeps
    <3>3. r = r2
      BY <2>1 DEF Rotate
    <3> HIDE DEF r1
    <3>4. r2 \in KernelRecord /\ KeepsDelays(r1, r2)
      BY <3>1, <3>2, AddToReadyKeeps
    <3> HIDE DEF r, r2
    <3> QED
      BY <3>2, <3>3, <3>4 DEF KeepsDelays
  <2>2. CASE ~(kk.current # NULL /\ FindHighestReady(kk) = kk.current)
    <3>1. r = kk
      BY <2>2 DEF Rotate
    <3> HIDE DEF r
    <3> QED
      BY <3>1 DEF KeepsDelays
  <2> QED
    BY <2>1, <2>2
<1>2. SelectNext(kk) \in {kk, r, k2}
  BY DEF SelectNext
<1> HIDE DEF r, c
<1>3. r.state \in [Tasks -> TaskStates]
  BY <1>1 DEF KernelRecord
<1>4. \A u \in Tasks : s1[u] = "BLOCKED" => r.state[u] = "BLOCKED"
  BY <1>3
<1>5. DOMAIN s1 = Tasks
  BY <1>3
<1> HIDE DEF s1
<1>6. \A u \in Tasks : s2[u] = "BLOCKED" => s1[u] = "BLOCKED"
  BY <1>5
<1>7. k2.state = s2 /\ k2.delay = r.delay
  BY <1>1 DEF KernelRecord
<1> HIDE DEF s2, k2
<1>8. KeepsDelays(kk, k2)
  BY <1>1, <1>4, <1>6, <1>7 DEF KeepsDelays
<1>9. KeepsDelays(kk, kk)
  BY DEF KeepsDelays
<1> QED
  BY <1>1, <1>2, <1>8, <1>9

\* Every delayed task has ticks to wait.
Counted == \A t \in Delayed(k) : k.delay[t] > 0

LEMMA KeepsCounted ==
    ASSUME Counted, KeepsDelays(k, k')
    PROVE  Counted'
BY DEF Counted, KeepsDelays, Delayed

\* No call but os_task_delay changes a delay, and that one asks for a tick at least.
LEMMA CallCounted ==
    ASSUME Inv, Counted, Call \/ PendSV
    PROVE  Counted'
<1>1. /\ k \in KernelRecord /\ k.state \in [Tasks -> TaskStates] /\ k.delay \in [Tasks -> Nat]
      /\ k.current \in Pointers
  BY DEF Inv, TypeOK, KernelRecord
<1>2. CASE \E t \in Tasks, p \in Priorities : Create(t, p) \/ CreateSuspended(t, p)
  BY <1>1, <1>2, CreatedKeeps, KeepsCounted DEF Create, CreateSuspended, Allocate
<1>3. ASSUME NEW t \in Tasks, NEW p \in Priorities, SetPriority(t, p)
      PROVE  Counted'
  <2>1. k' = Reprioritised(k, t, p)
    BY <1>3 DEF SetPriority
  <2> DEFINE r == RemoveFromReady(k, t)
             q == [r EXCEPT !.priority[t] = p]
             j == [k EXCEPT !.priority[t] = p]
  <2>2. r \in KernelRecord /\ r.state = k.state /\ r.delay = k.delay
    BY <1>1, RemoveFromReadyKeeps
  <2> HIDE DEF r
  <2>3. q \in KernelRecord /\ q.state = k.state /\ q.delay = k.delay
    BY <2>2 DEF KernelRecord
  <2>4. j.state = k.state /\ j.delay = k.delay
    BY <1>1 DEF KernelRecord
  <2>5. k' = AddToReady(q, t) \/ k' = j
    BY <2>1 DEF Reprioritised, r
  <2> HIDE DEF q, j
  <2>6. KeepsDelays(q, AddToReady(q, t))
    BY <2>3, AddToReadyKeeps
  <2>7. KeepsDelays(k, k')
    BY <2>3, <2>4, <2>5, <2>6 DEF KeepsDelays
  <2> QED
    BY <2>7, KeepsCounted
<1>4. ASSUME NEW t \in Tasks, SuspendStep(t)
      PROVE  Counted'
  <2> DEFINE r == RemoveFromReady(k, t)
             q == [r EXCEPT !.state[t] = "SUSPENDED"]
  <2>1. r \in KernelRecord /\ r.state = k.state /\ r.delay = k.delay
    BY <1>1, RemoveFromReadyKeeps
  <2>2. k' = q \/ k' = k
    BY <1>4 DEF SuspendStep, Suspended
  <2> HIDE DEF r
  <2>3. q.state = [k.state EXCEPT ![t] = "SUSPENDED"] /\ q.delay = k.delay
    BY <2>1 DEF KernelRecord
  <2> HIDE DEF q
  <2>4. KeepsDelays(k, k')
    BY <1>1, <2>2, <2>3 DEF KeepsDelays
  <2> QED
    BY <2>4, KeepsCounted
<1>5. CASE \E t \in Tasks : Suspend(t)
  BY <1>4, <1>5 DEF Suspend
<1>6. CASE FinishCreateSuspended
  <2>1. cpu \in Contexts /\ pc[cpu] = "suspend" /\ SuspendStep(arg[cpu])
    BY <1>6 DEF FinishCreateSuspended, Executing
  <2>2. arg[cpu] \in Tasks
    BY <2>1 DEF Inv, ContextInv
  <2> QED
    BY <1>4, <2>1, <2>2
<1>7. CASE \E t \in Tasks : Resume(t)
  BY <1>1, <1>7, AddToReadyKeeps, KeepsCounted DEF Resume
<1>8. ASSUME NEW ticks \in 1 .. MaxDelay, Delay(ticks)
      PROVE  Counted'
  <2> DEFINE t == k.current
             r == RemoveFromReady(k, t)
             q == [r EXCEPT !.state[t] = "BLOCKED", !.delay[t] = ticks,
                            !.next[t] = r.blocked, !.prev = Store(@, r.blocked, t),
                            !.blocked = t]
  <2>1. t \in Tasks /\ ticks > 0 /\ k' = q
    BY <1>1, <1>8 DEF Delay, AddToBlocked, Pointers
  <2>2. r \in KernelRecord /\ r.state = k.state /\ r.delay = k.delay
    BY <1>1, <2>1, RemoveFromReadyKeeps
  <2> HIDE DEF r, t
  <2>3. q.state = [k.state EXCEPT ![t] = "BLOCKED"] /\ q.delay = [k.delay EXCEPT ![t] = ticks]
    BY <2>2 DEF KernelRecord
  <2> HIDE DEF q
  <2>4. \A u \in Tasks : /\ u = t => k'.delay[u] = ticks
                         /\ u # t => /\ k'.state[u] = k.state[u]
                                     /\ k'.delay[u] = k.delay[u]
    BY <1>1, <2>1, <2>3
  <2> QED
    BY <2>1, <2>4 DEF Counted, Delayed
<1>9. CASE DeleteSelf
  <2> DEFINE t == k.current
             r == RemoveFromReady(k, t)
             q == [r EXCEPT !.state[t] = "DELETED", !.next[t] = r.deferred, !.deferred = t]
  <2>1. t \in Tasks /\ k' = q
    BY <1>1, <1>9 DEF DeleteSelf, DeferDelete, Pointers
  <2>2. r \in KernelRecord /\ r.state = k.state /\ r.delay = k.delay
    BY <1>1, <2>1, RemoveFromReadyKeeps
  <2> HIDE DEF r, t
  <2>3. q.state = [k.state EXCEPT ![t] = "DELETED"] /\ q.delay = k.delay
    BY <2>2 DEF KernelRecord
  <2> HIDE DEF q
  <2>4. KeepsDelays(k, k')
    BY <1>1, <2>1, <2>3 DEF KeepsDelays
  <2> QED
    BY <2>4, KeepsCounted
<1>10. ASSUME NEW t \in Tasks, DeleteOther(t)
       PROVE  Counted'
  <2> DEFINE r == IF k.state[t] = "READY" THEN RemoveFromReady(k, t) ELSE k
             q == [r EXCEPT !.state[t] = "DELETED"]
  <2>1. k' = q
    BY <1>10 DEF DeleteOther, Deleted
  <2>2. r \in KernelRecord /\ r.state = k.state /\ r.delay = k.delay
    BY <1>1, RemoveFromReadyKeeps
  <2> HIDE DEF r
  <2>3. q.state = [k.state EXCEPT ![t] = "DELETED"] /\ q.delay = k.delay
    BY <2>2 DEF KernelRecord
  <2> HIDE DEF q
  <2>4. KeepsDelays(k, k')
    BY <1>1, <2>1, <2>3 DEF KeepsDelays
  <2> QED
    BY <2>4, KeepsCounted
<1>11. CASE Yield
  BY <1>11 DEF Yield, Counted, Delayed
<1>12. CASE Start
  <2> DEFINE full == task_count >= MaxTasks
             c == IF full THEN k ELSE Created(k, Idle, Lowest)
  <2>1. k' = SelectNext(c)
    BY <1>12 DEF Start
  <2>2. Idle \in Tasks /\ Lowest \in Priorities
    BY TasksAssumption, PrioritiesAssumption DEF Lowest, Priorities
  <2>3. c \in KernelRecord /\ KeepsDelays(k, c)
    <3>1. KeepsDelays(k, k)
      BY DEF KeepsDelays
    <3> QED
      BY <1>1, <2>2, <3>1, CreatedKeeps
  <2> HIDE DEF c
  <2>4. KeepsDelays(c, k')
    BY <2>1, <2>3, SelectKeeps
  <2>5. KeepsDelays(k, k')
    BY <2>3, <2>4 DEF KeepsDelays
  <2> QED
    BY <2>5, KeepsCounted
<1>13. CASE PendSV
  BY <1>1, <1>13, SelectKeeps, KeepsCounted DEF PendSV
<1> QED
  BY <1>2, <1>3, <1>5, <1>6, <1>7, <1>8, <1>9, <1>10, <1>11, <1>12, <1>13
  DEF Call, os_task_create_suspended, os_task_delete

\* In a list that is singly linked from h on, nothing points to h.
LEMMA NothingPointsToFirst ==
    ASSUME NEW next, NEW S, S \subseteq Tasks, NEW h \in S, DeferredOK(next, S, h),
           NEW u \in S
    PROVE  next[u] # h
<1>n. PICK n \in Nat : \E f : Enumerates(f, n, S) /\ NextThreads(next, f, n) /\ h = First(f, n)
  BY DEF DeferredOK
<1>1. PICK f : Enumerates(f, n, S) /\ NextThreads(next, f, n) /\ h = First(f, n)
  BY <1>n
<1>2. /\ f \in [1 .. n -> S]
      /\ \A i, j \in 1 .. n : f[i] = f[j] => i = j
      /\ \A x \in S : \E i \in 1 .. n : f[i] = x
      /\ \A i \in 1 .. n : next[f[i]] = IF i = n THEN NULL ELSE f[i + 1]
  BY <1>1 DEF Enumerates, NextThreads
<1>3. PICK j \in 1 .. n : f[j] = u
  BY <1>2
<1>4. n # 0 /\ 1 \in 1 .. n /\ h = f[1]
  BY <1>1, <1>3 DEF First
<1>5. CASE j = n
  BY <1>2, <1>3, <1>5, TasksAssumption
<1>6. CASE j # n
  <2>1. j + 1 \in 1 .. n /\ j + 1 # 1 /\ next[u] = f[j + 1]
    BY <1>2, <1>3, <1>6
  <2> QED
    BY <1>2, <1>4, <2>1
<1> QED
  BY <1>5, <1>6

\* What the prev link of a delayed task leads to points to the task.
LEMMA BlockedPredecessor ==
    ASSUME NEW kk \in KernelRecord, NEW B, B \subseteq Tasks, BlockedOK(kk, B), NEW t \in B,
           kk.prev[t] # NULL
    PROVE  kk.prev[t] \in B /\ kk.next[kk.prev[t]] = t
<1>n. PICK n \in Nat : \E f : IsChain(kk.next, kk.prev, f, n, B)
  BY DEF BlockedOK
<1>1. PICK f : IsChain(kk.next, kk.prev, f, n, B)
  BY <1>n
<1>2. /\ f \in [1 .. n -> B]
      /\ \A u \in B : \E i \in 1 .. n : f[i] = u
      /\ \A i \in 1 .. n : kk.next[f[i]] = IF i = n THEN NULL ELSE f[i + 1]
      /\ \A i \in 1 .. n : kk.prev[f[i]] = IF i = 1 THEN NULL ELSE f[i - 1]
  BY <1>1 DEF IsChain, Enumerates, NextThreads, PrevThreads
<1>3. PICK j \in 1 .. n : f[j] = t
  BY <1>2
<1>4. j # 1 /\ j - 1 \in 1 .. n /\ j - 1 # n /\ (j - 1) + 1 = j
  BY <1>2, <1>3
<1>5. kk.prev[t] = f[j - 1]
  BY <1>2, <1>3, <1>4
<1> QED
  BY <1>2, <1>3, <1>4, <1>5

LEMMA ReadyTail ==
    ASSUME NEW kk \in KernelRecord, NEW R, ReadyOK(kk, R), NEW p \in Priorities
    PROVE  kk.tail[p] \in R \cup {NULL}
<1>1. PICK f : ReadyListOf(kk, R, p, f)
  BY DEF ReadyOK
<1> DEFINE n == kk.count[p]
<1>2. n \in Nat /\ f \in [1 .. n -> AtPriority(kk, R, p)] /\ kk.tail[p] = Last(f, n)
  BY <1>1 DEF ReadyListOf, IsChain, Enumerates, KernelRecord
<1> HIDE DEF n
<1>3. n # 0 => n \in 1 .. n
  BY <1>2
<1> QED
  BY <1>2, <1>3 DEF Last, AtPriority

\* One iteration of the loop does not touch the rest of the list that it walks,
\* although it unlinks the task that it stands on.
LEMMA TickedRest ==
    ASSUME NEW kk \in KernelRecord, NEW al, NEW h, ListInv(kk, al, h), NEW U,
           U \subseteq Delayed(kk), NEW t \in U, DeferredOK(kk.next, U, t),
           kk.delay[t] > 0
    PROVE  LET k2 == Ticked(kk, t)
           IN  /\ DeferredOK(k2.next, U \ {t}, kk.next[t])
               /\ \A u \in Tasks : u # t => /\ k2.state[u] = kk.state[u]
                                            /\ k2.delay[u] = kk.delay[u]
               /\ kk.delay[t] = 1 => k2.state[t] = "READY"
               /\ kk.delay[t] > 1 => /\ k2.state[t] = "BLOCKED"
                                     /\ k2.delay[t] = kk.delay[t] - 1
<1> DEFINE d == kk.delay[t] - 1
           c == [kk EXCEPT !.delay[t] = d]
           r == RemoveFromBlocked(c, t)
           a == AddToReady(r, t)
           k2 == Ticked(kk, t)
           B == Delayed(kk)
<1>1. /\ t \in Tasks /\ kk.state[t] = "BLOCKED" /\ kk.delay \in [Tasks -> Nat] /\ U \subseteq Tasks
      /\ kk.state \in [Tasks -> TaskStates]
  BY DEF Delayed, KernelRecord
<1>2. /\ ListsOK(kk, Ready(kk), B, DoomedIn(kk, al), h)
      /\ Ready(kk) \cap B = {} /\ B \subseteq Tasks
      /\ ReadyOK(kk, Ready(kk)) /\ BlockedOK(kk, B)
  BY DEF ListInv, ListsOK
<1>3. d \in Nat
  BY <1>1
<1> HIDE DEF d
<1>4. /\ c \in KernelRecord /\ c.state = kk.state /\ c.next = kk.next /\ c.prev = kk.prev
      /\ c.priority = kk.priority /\ c.tail = kk.tail
      /\ c.delay = [kk.delay EXCEPT ![t] = d]
  BY <1>3 DEF KernelRecord
<1> HIDE DEF c
<1>5. DeferredOK(kk.next, U \ {t}, kk.next[t])
  BY PopDeferred
<1>6. CASE d # 0
  <2>1. k2 = c /\ kk.delay[t] # 1
    BY <1>1, <1>6 DEF Ticked, c, d
  <2>2. DeferredOK(c.next, U \ {t}, kk.next[t])
    BY <1>4, <1>5
  <2>3. c.delay[t] = d /\ \A u \in Tasks : u # t => c.delay[u] = kk.delay[u]
    BY <1>1, <1>4
  <2> QED
    BY <1>1, <1>4, <2>1, <2>2, <2>3 DEF d
<1>7. CASE d = 0
  <2>1. k2 = a /\ kk.delay[t] = 1
    BY <1>1, <1>7 DEF Ticked, c, d
  <2>2. /\ r \in KernelRecord /\ r.state = kk.state /\ r.delay = c.delay
        /\ r.next = [Store(c.next, c.prev[t], c.next[t]) EXCEPT ![t] = NULL]
        /\ r.priority = kk.priority /\ r.tail = kk.tail
    BY <1>1, <1>4, RemoveFromBlockedFields
  <2> HIDE DEF r
  <2> DEFINE last == kk.tail[kk.priority[t]]
  <2>3. /\ a.state = [kk.state EXCEPT ![t] = "READY"] /\ a.delay = c.delay
        /\ a.next = Store([r.next EXCEPT ![t] = NULL], last, t)
    <3>1. /\ a.state = [r.state EXCEPT ![t] = "READY"] /\ a.delay = r.delay
          /\ a.next = Store([r.next EXCEPT ![t] = NULL], r.tail[r.priority[t]], t)
      BY <1>1, <2>2, AddToReadyFields
    <3> HIDE DEF a
    <3> QED
      BY <2>2, <3>1
  <2>4. last \in Ready(kk) \cup {NULL}
    <3>1. kk.priority[t] \in Priorities
      BY <1>1 DEF KernelRecord
    <3> QED
      BY <1>2, <3>1, ReadyTail
  <2> HIDE DEF last, a
  <2>5. ASSUME NEW u \in U \ {t}
        PROVE  a.next[u] = kk.next[u]
    <3>1. u \in Tasks /\ u \in B /\ u # last /\ u # t
      BY <1>2, <2>4, <2>5, TasksAssumption
    <3>2. u # kk.prev[t]
      <4>1. kk.next[u] # t
        BY <1>1, <2>5, NothingPointsToFirst
      <4>2. CASE kk.prev[t] # NULL
        <5>1. t \in B
          OBVIOUS
        <5>2. kk.next[kk.prev[t]] = t
          <6> HIDE DEF B
          <6> QED
            BY <1>2, <4>2, <5>1, BlockedPredecessor
        <5> QED
          BY <4>1, <5>2
      <4>3. CASE kk.prev[t] = NULL
        BY <3>1, <4>3, TasksAssumption
      <4> QED
        BY <4>2, <4>3
    <3>3. kk.next \in [Tasks -> Pointers] /\ r.next \in [Tasks -> Pointers]
      BY <2>2 DEF KernelRecord
    <3>4. r.next[u] = kk.next[u]
      BY <1>4, <2>2, <3>1, <3>2, <3>3 DEF Store
    <3> QED
      BY <2>3, <3>1, <3>3, <3>4 DEF Store
  <2>6. DeferredOK(a.next, U \ {t}, kk.next[t])
    BY <1>5, <2>5, FrameDeferred
  <2>7. /\ \A u \in Tasks : u # t => a.state[u] = kk.state[u] /\ a.delay[u] = kk.delay[u]
        /\ a.state[t] = "READY"
    BY <1>1, <1>4, <2>3
  <2> QED
    BY <2>1, <2>6, <2>7
<1> QED
  BY <1>6, <1>7

\* U is what the loop still has to visit: a list from walk on, of tasks the tick has
\* not counted yet.  All other tasks it has served.
Unserved(U) ==
    /\ U \subseteq Delayed(k)
    /\ DeferredOK(k.next, U, walk)
    /\ \A t \in U : k.delay[t] = due[t] /\ due[t] > 0
    /\ \A t \in Tasks \ U :
          /\ due[t] = 1 => k.state[t] = "READY"
          /\ due[t] > 1 => k.state[t] = "BLOCKED" /\ k.delay[t] = due[t] - 1
          /\ k.state[t] = "BLOCKED" => due[t] > 1

ServeInv ==
    /\ Counted
    /\ isr = "walk" => \E U \in SUBSET Tasks : Unserved(U)
    /\ TickServesAll

LEMMA ServeStep ==
    ASSUME Inv, ServeInv, Nesting, [Next]_vars
    PROVE  ServeInv'
<1>1. /\ k \in KernelRecord /\ k.state \in [Tasks -> TaskStates] /\ k.delay \in [Tasks -> Nat]
      /\ ListInv(k, alive, ListHead) /\ due \in [Tasks -> Nat]
  BY DEF Inv, TypeOK, KernelRecord
<1>2. CASE Call \/ PendSV
  <2>1. Counted'
    BY <1>2, CallCounted DEF ServeInv
  <2>2. isr' = "none"
    BY <1>2 DEF Call, os_task_create_suspended, os_task_delete, Create, CreateSuspended,
                Allocate, SetPriority, Suspend, SuspendStep, FinishCreateSuspended, Resume,
                DeleteOther, DeleteSelf, Delay, Yield, Start, PendSV, Calling, Executing,
                machine
  <2> QED
    BY <2>1, <2>2 DEF ServeInv, TickServesAll
<1>3. CASE TickBegin
  <2>1. /\ isr' = "walk" /\ walk' = k.blocked /\ k' = k
        /\ due' = [t \in Tasks |-> IF k.state[t] = "BLOCKED" THEN k.delay[t] ELSE 0]
    BY <1>3 DEF TickBegin
  <2>2. DeferredOK(k.next, Delayed(k), k.blocked)
    <3>1. BlockedOK(k, Delayed(k))
      BY <1>1 DEF ListInv, ListsOK
    <3> QED
      BY <3>1 DEF BlockedOK, IsChain, DeferredOK
  <2>3. Delayed(k) \in SUBSET Tasks /\ Delayed(k') = Delayed(k)
    BY <2>1 DEF Delayed
  <2>4. Counted'
    BY <2>1, <2>3 DEF ServeInv, Counted
  <2>5. /\ \A t \in Delayed(k) : k.delay[t] = due'[t] /\ due'[t] > 0
        /\ \A t \in Tasks \ Delayed(k) : due'[t] = 0 /\ k.state[t] # "BLOCKED"
    BY <2>1 DEF ServeInv, Counted, Delayed
  <2>6. Unserved(Delayed(k))'
    BY <2>1, <2>2, <2>3, <2>5 DEF Unserved
  <2> QED
    BY <2>1, <2>3, <2>4, <2>6 DEF ServeInv, TickServesAll
<1>4. CASE TickWalk
  <2>1. /\ isr = "walk" /\ isr' = "walk" /\ walk # NULL /\ k' = Ticked(k, walk)
        /\ walk' = k.next[walk] /\ due' = due
    BY <1>4 DEF TickWalk
  <2>2. PICK U \in SUBSET Tasks : Unserved(U)
    BY <2>1 DEF ServeInv
  <2>3. walk \in U /\ U \subseteq Delayed(k) /\ DeferredOK(k.next, U, walk)
    BY <2>1, <2>2, DeferredHead DEF Unserved
  <2>4. /\ k.delay[walk] = due[walk] /\ due[walk] > 0 /\ walk \in Tasks
        /\ k.state[walk] = "BLOCKED"
    BY <2>2, <2>3 DEF Unserved, Delayed
  <2>5. /\ DeferredOK(k'.next, U \ {walk}, walk')
        /\ \A u \in Tasks : u # walk => /\ k'.state[u] = k.state[u]
                                        /\ k'.delay[u] = k.delay[u]
        /\ k.delay[walk] = 1 => k'.state[walk] = "READY"
        /\ k.delay[walk] > 1 => /\ k'.state[walk] = "BLOCKED"
                                /\ k'.delay[walk] = k.delay[walk] - 1
    BY <1>1, <2>1, <2>3, <2>4, TickedRest
  <2>6. due[walk] \in Nat
    BY <1>1, <2>4
  <2>7. PICK V \in SUBSET Tasks : V = U \ {walk}
    OBVIOUS
  <2>8. Unserved(V)'
    <3>1. U \ {walk} \subseteq Delayed(k')
      BY <2>2, <2>3, <2>5 DEF Delayed
    <3>2. \A t \in U \ {walk} : k'.delay[t] = due[t] /\ due[t] > 0
      BY <2>2, <2>5 DEF Unserved
    <3>3. \A t \in Tasks \ (U \ {walk}) :
              /\ due[t] = 1 => k'.state[t] = "READY"
              /\ due[t] > 1 => k'.state[t] = "BLOCKED" /\ k'.delay[t] = due[t] - 1
              /\ k'.state[t] = "BLOCKED" => due[t] > 1
      <4> SUFFICES ASSUME NEW t \in Tasks, t \notin U \ {walk}
                   PROVE  /\ due[t] = 1 => k'.state[t] = "READY"
                          /\ due[t] > 1 => k'.state[t] = "BLOCKED" /\ k'.delay[t] = due[t] - 1
                          /\ k'.state[t] = "BLOCKED" => due[t] > 1
        OBVIOUS
      <4>1. CASE t = walk
        BY <2>4, <2>5, <2>6, <4>1
      <4>2. CASE t # walk
        BY <2>2, <2>5, <4>2 DEF Unserved
      <4> QED
        BY <4>1, <4>2
    <3> QED
      BY <2>1, <2>5, <2>7, <3>1, <3>2, <3>3 DEF Unserved
  <2>9. Counted'
    <3> SUFFICES ASSUME NEW t \in Tasks, k'.state[t] = "BLOCKED" PROVE k'.delay[t] > 0
      BY DEF Counted, Delayed
    <3>1. CASE t = walk
      BY <2>4, <2>5, <2>6, <3>1
    <3>2. CASE t # walk
      BY <2>5, <3>2 DEF ServeInv, Counted, Delayed
    <3> QED
      BY <3>1, <3>2
  <2> QED
    BY <2>1, <2>8, <2>9 DEF ServeInv, TickServesAll
<1>5. CASE TickDetach
  <2>1. /\ isr = "walk" /\ isr' = "reap" /\ walk = NULL /\ due' = due
        /\ k' = [k EXCEPT !.deferred = NULL]
    BY <1>5 DEF TickDetach
  <2>2. k'.state = k.state /\ k'.delay = k.delay
    BY <1>1, <2>1 DEF KernelRecord
  <2>3. PICK U \in SUBSET Tasks : Unserved(U)
    BY <2>1 DEF ServeInv
  <2>4. U = {}
    BY <2>1, <2>3, DeferredHead DEF Unserved
  <2>5. TickServesAll'
    BY <2>1, <2>2, <2>3, <2>4 DEF Unserved, TickServesAll
  <2> QED
    BY <2>1, <2>2, <2>5 DEF ServeInv, Counted, Delayed
<1>6. CASE TickReap
  BY <1>6 DEF TickReap, ServeInv, Counted, Delayed, TickServesAll
<1>7. CASE TickEnd
  BY <1>7 DEF TickEnd, ServeInv, Counted, Delayed, TickServesAll
<1>8. CASE UNCHANGED vars
  BY <1>8 DEF vars, ServeInv, Counted, Delayed, TickServesAll, Unserved
<1> QED
  BY <1>2, <1>3, <1>4, <1>5, <1>6, <1>7, <1>8 DEF Next, SysTick, os_task_tick

\* A tick serves every delayed task once, although the loop unlinks the tasks it
\* makes ready from the list that it walks (task.c:611-641).
THEOREM TickCorrect ==
    ASSUME Nesting, Usage = {}
    PROVE  Spec => []TickServesAll
<1>1. Init => ServeInv
  BY DEF Init, ServeInv, Counted, Delayed, EmptyKernel, TickServesAll
<1>2. Inv /\ ServeInv /\ [Next]_vars => ServeInv'
  BY ServeStep
<1>3. ServeInv => TickServesAll
  BY DEF ServeInv
<1> QED
  BY <1>1, <1>2, <1>3, InvAlways, PTL DEF Spec

-----------------------------------------------------------------------------
\* Time slicing.

\* os_sched_select_next does not select the current task again when another one of
\* its priority is ready.
LEMMA TurnTaken ==
    ASSUME NEW kk \in KernelRecord, NEW al, NEW h, ListInv(kk, al, h),
           kk.current \in Ready(kk), ReadyAt(kk, kk.priority[kk.current]) # {kk.current}
    PROVE  SelectNext(kk).current # kk.current
<1> DEFINE R == Ready(kk)
           B == Delayed(kk)
           D == DoomedIn(kk, al)
           c == kk.current
           p == kk.priority[c]
           r == Rotate(kk)
           x == FindHighestReady(r)
<1>1. /\ ListsOK(kk, R, B, D, h) /\ ReadyOK(kk, R) /\ R \in SUBSET Tasks
      /\ c \in R /\ c \in Tasks /\ c # NULL /\ p \in Priorities
  BY TasksAssumption DEF ListInv, ListsOK, Ready, KernelRecord
<1>2. FindHighestReady(kk) \in R /\ FindHighestReady(kk) # NULL
  BY <1>1, FindHighest, TasksAssumption
<1>3. PICK t \in R : t # c /\ kk.priority[t] = p
  BY DEF ReadyAt
<1> HIDE DEF R, B, D
<1>4. /\ r \in KernelRecord /\ x \in R \ {c}
  <2>1. CASE FindHighestReady(kk) = c
    <3> DEFINE r1 == RemoveFromReady(kk, c)
               r2 == AddToReady(r1, c)
    <3>1. r1 \in KernelRecord /\ r1.priority = kk.priority
      BY <1>1, RemoveFromReadyFields
    <3>2. ListsOK(r1, R \ {c}, B, D, h)
      BY <1>1, RemoveFromReadyLists
    <3>3. r = r2
      BY <1>1, <2>1 DEF Rotate
    <3> HIDE DEF r1
    <3>4. ReadyOK(r1, R \ {c}) /\ R \ {c} \in SUBSET Tasks
      BY <3>2 DEF ListsOK
    <3>5. PICK f : ReadyListOf(r1, R \ {c}, p, f)
      BY <1>1, <3>4 DEF ReadyOK
    <3>6. r1.tail[p] # NULL
      <4> DEFINE n == r1.count[p]
                 S == AtPriority(r1, R \ {c}, p)
      <4>1. /\ n \in Nat /\ f \in [1 .. n -> S] /\ r1.tail[p] = Last(f, n)
            /\ \A u \in S : \E i \in 1 .. n : f[i] = u
        BY <1>1, <3>1, <3>5 DEF ReadyListOf, IsChain, Enumerates, KernelRecord
      <4>2. t \in S /\ S \subseteq Tasks
        BY <1>1, <1>3, <3>1 DEF AtPriority
      <4> HIDE DEF n, S
      <4>3. n # 0 /\ n \in 1 .. n
        BY <4>1, <4>2
      <4> QED
        BY <4>1, <4>2, <4>3, TasksAssumption DEF Last
    <3>7. /\ r2 \in KernelRecord /\ r2.bitmap = r1.bitmap
          /\ r2.head = [r1.head EXCEPT ![p] = r1.head[p]]
      <4>1. /\ r2 \in KernelRecord
            /\ r2.bitmap = IF r1.tail[r1.priority[c]] = NULL
                           THEN r1.bitmap \cup {r1.priority[c]} ELSE r1.bitmap
            /\ r2.head = [r1.head EXCEPT ![r1.priority[c]] =
                            IF r1.tail[r1.priority[c]] = NULL THEN c
                            ELSE r1.head[r1.priority[c]]]
        BY <1>1, <3>1, AddToReadyFields
      <4> HIDE DEF r2
      <4> QED
        BY <3>1, <3>6, <4>1
    <3>8. r2.head = r1.head
      BY <1>1, <3>1, <3>7 DEF KernelRecord
    <3>9. FindHighestReady(r2) = FindHighestReady(r1)
      BY <3>7, <3>8 DEF FindHighestReady
    <3>10. FindHighestReady(r1) \in R \ {c}
      BY <1>3, <3>1, <3>4, FindHighest
    <3> QED
      BY <3>3, <3>7, <3>9, <3>10
  <2>2. CASE FindHighestReady(kk) # c
    <3>1. r = kk
      BY <2>2 DEF Rotate
    <3> QED
      BY <1>2, <2>2, <3>1
  <2> QED
    BY <2>1, <2>2
<1>5. x # NULL /\ x # c
  BY <1>1, <1>4, TasksAssumption
<1> HIDE DEF r, x, c
<1>6. SelectNext(kk).current = x
  <2> DEFINE s1 == IF r.current # NULL /\ r.state[r.current] = "RUNNING"
                   THEN [r.state EXCEPT ![r.current] = "READY"] ELSE r.state
             k2 == [r EXCEPT !.state = [s1 EXCEPT ![x] = "RUNNING"], !.current = x]
  <2>1. SelectNext(kk) = k2
    BY <1>2, <1>5 DEF SelectNext, r, x
  <2>2. k2.current = x
    BY <1>4 DEF KernelRecord
  <2> QED
    BY <2>1, <2>2
<1> QED
  BY <1>5, <1>6 DEF c

\* Tasks of one priority take turns: a context switch does not go back to the task
\* that was running while another one of its priority is ready
\* (scheduler.c:145-153).
THEOREM TurnsCorrect ==
    ASSUME Nesting, Usage = {}
    PROVE  Spec => TakesTurns
<1> DEFINE Turn == Switched /\ k.state[k.current] = "RUNNING"
                      /\ ReadyAt(k, k.priority[k.current]) # {k.current}
                      => k'.current # k.current
<1>1. Inv /\ [Next]_vars => [Turn]_vars
  <2> SUFFICES ASSUME Inv, Next, Switched, k.state[k.current] = "RUNNING",
                      ReadyAt(k, k.priority[k.current]) # {k.current}
               PROVE  k'.current # k.current
    OBVIOUS
  <2>1. pendsv /\ ~pendsv'
    BY DEF Switched
  <2>2. PendSV
    <3>1. CASE Call
      BY <2>1, <3>1 DEF Call, os_task_create_suspended, os_task_delete, Create,
                        CreateSuspended, SetPriority, Suspend, Resume, DeleteOther, Delay,
                        FinishCreateSuspended, DeleteSelf, Yield, Start, Calling, Executing
    <3>2. CASE SysTick
      BY <2>1, <3>2 DEF SysTick, os_task_tick, TickBegin, TickWalk, TickDetach, TickReap,
                        TickEnd
    <3> QED
      BY <3>1, <3>2 DEF Next
  <2>3. /\ k' = SelectNext(k) /\ k.current # NULL /\ k \in KernelRecord
        /\ ListInv(k, alive, ListHead)
    BY <2>2 DEF PendSV, Inv, TypeOK
  <2>4. k.current \in Ready(k)
    BY <2>3 DEF KernelRecord, Pointers, Ready
  <2> QED
    BY <2>3, <2>4, TurnTaken
<1> QED
  BY <1>1, InvAlways, PTL DEF Spec, TakesTurns
=============================================================================
