------------------------ MODULE OfflineMutation_proofs ------------------------
(***************************************************************************)
(* Proofs about the offline queue and the hook that feeds and drains it,   *)
(* for any number of items, drains and network changes, any                *)
(* MAX_QUEUE_SIZE, overlapping calls, storage errors and kills.  What only *)
(* concerns the queue is proved of QSpec, which Spec implements.           *)
(***************************************************************************)
EXTENDS OfflineMutation, SequenceTheorems, FiniteSetTheorems, TLAPS

-----------------------------------------------------------------------------
(* Every step of the hook, of the network status and of the app is a step  *)
(* of the queue, or leaves the queue alone.                                *)
LEMMA StepsAreQueueSteps == [Next]_vars => [QNext]_qvars
<1> SUFFICES ASSUME [Next]_vars PROVE [QNext]_qvars
  OBVIOUS
<1>1. CASE ChangeNetwork
  BY <1>1 DEF ChangeNetwork, HandleNetworkChange, ListenersDrain, QNext
<1>2. CASE Poll \/ Mount
  BY <1>2 DEF Poll, Mount
<1>9. CASE Listen
  BY <1>9 DEF Listen, HandleNetworkChange, ListenersDrain, QNext
<1>3. CASE PollAnswer
  BY <1>3 DEF PollAnswer, HandleNetworkChange, ListenersDrain, QNext
<1>4. CASE CallEnqueue
  BY <1>4 DEF CallEnqueue, QNext
<1>5. CASE \E i \in Items : FinishEnqueue(i) \/ DrainAfterEnqueue(i)
  BY <1>5 DEF FinishEnqueue, DrainAfterEnqueue, QNext
<1>6. CASE \E d \in Calls : DrainStep(d)
  BY <1>6 DEF DrainStep, Drain, QNext
<1>7. CASE Restart \/ ClearQueue
  BY <1>7 DEF Restart, ClearQueue, QNext
<1>8. CASE UNCHANGED vars
  BY <1>8 DEF vars
<1> QED
  BY <1>1, <1>2, <1>3, <1>4, <1>5, <1>6, <1>7, <1>8, <1>9 DEF Next, Step

(* So what holds of the queue alone holds of the queue under its hook. *)
THEOREM HookImplementsQueue == Spec => QSpec
<1>1. Init => QInit
  BY DEF Init
<1> QED
  BY <1>1, StepsAreQueueSteps, PTL DEF Spec, QSpec

-----------------------------------------------------------------------------
(* What the operations on queues keep.                                     *)

(* Appending an item newer than the whole queue keeps it in order. *)
LEMMA AppendKeepsOrder ==
    ASSUME NEW q \in Queue, NEW e \in Entry, NEW n \in Int
    PROVE  /\ Append(q, e) \in Queue
           /\ Len(Append(q, e)) = Len(q) + 1
           /\ Increasing(q) /\ Below(q, e.id) => Increasing(Append(q, e))
           /\ Below(q, n) /\ e.id < n => Below(Append(q, e), n)
<1>1. /\ Append(q, e) \in Queue
      /\ Len(q) \in Nat
      /\ Len(Append(q, e)) = Len(q) + 1
      /\ \A k \in 1 .. Len(q) : Append(q, e)[k] = q[k]
      /\ Append(q, e)[Len(q) + 1] = e
  BY DEF Queue
<1>2. \A k \in 1 .. Len(q) : q[k].id \in Int
  <2>1. \A k \in 1 .. Len(q) : q[k] \in Entry
    BY DEF Queue
  <2> QED
    BY <2>1, OfflineQueueAssumption DEF Entry, Items
<1>3. e.id \in Int
  BY OfflineQueueAssumption DEF Entry, Items
<1>4. Increasing(q) /\ Below(q, e.id) => Increasing(Append(q, e))
  BY <1>1, <1>2, <1>3 DEF Increasing, Below
<1>5. Below(q, n) /\ e.id < n => Below(Append(q, e), n)
  BY <1>1, <1>2, <1>3 DEF Below
<1> QED
  BY <1>1, <1>4, <1>5

(* The cut to the newest items keeps order and ids, and bounds the length. *)
LEMMA NewestKeepsOrder ==
    ASSUME NEW q \in Queue, NEW n \in Int
    PROVE  /\ Newest(q) \in Queue
           /\ Len(Newest(q)) <= MaxQueueSize
           /\ Increasing(q) => Increasing(Newest(q))
           /\ Below(q, n) => Below(Newest(q), n)
<1> USE OfflineQueueAssumption
<1>1. CASE Len(q) <= MaxQueueSize
  BY <1>1 DEF Newest
<1>2. CASE Len(q) > MaxQueueSize
  <2> DEFINE m == Len(q) - MaxQueueSize + 1
  <2>1. Len(q) \in Nat /\ m \in 1 .. Len(q) /\ Newest(q) = SubSeq(q, m, Len(q))
    BY <1>2 DEF Newest, Queue
  <2>2. \A k \in m .. Len(q) : q[k] \in Entry
    BY <2>1 DEF Queue
  <2>3. /\ Newest(q) \in Queue
        /\ Len(Newest(q)) = MaxQueueSize
        /\ \A k \in 1 .. MaxQueueSize : Newest(q)[k] = q[m + k - 1]
    <3> HIDE DEF m
    <3>1. /\ SubSeq(q, m, Len(q)) \in Seq(Entry)
          /\ Len(SubSeq(q, m, Len(q))) = IF m <= Len(q) THEN Len(q) - m + 1 ELSE 0
          /\ \A k \in 1 .. Len(q) - m + 1 : SubSeq(q, m, Len(q))[k] = q[m + k - 1]
      BY <2>1, <2>2, SubSeqProperties
    <3>2. Len(q) - m + 1 = MaxQueueSize
      BY <2>1 DEF m
    <3> QED
      BY <2>1, <3>1, <3>2 DEF Queue
  <2>4. \A k \in 1 .. MaxQueueSize : m + k - 1 \in 1 .. Len(q)
    BY <2>1
  <2>5. Increasing(q) => Increasing(Newest(q))
    <3> SUFFICES ASSUME Increasing(q), NEW j \in 1 .. Len(Newest(q)),
                        NEW k \in 1 .. Len(Newest(q)), j < k
                 PROVE  Newest(q)[j].id < Newest(q)[k].id
      BY DEF Increasing
    <3>1. m + j - 1 < m + k - 1
      BY <2>1, <2>3
    <3> HIDE DEF m
    <3> QED
      BY <2>3, <2>4, <3>1 DEF Increasing
  <2>6. Below(q, n) => Below(Newest(q), n)
    <3> HIDE DEF m
    <3> QED
      BY <2>3, <2>4 DEF Below
  <2> QED
    BY <2>3, <2>5, <2>6
<1> QED
  BY <1>1, <1>2 DEF Queue

(* The rest of a queue keeps order and ids, and comes after its head. *)
LEMMA TailKeepsOrder ==
    ASSUME NEW q \in Queue, q # <<>>, NEW n \in Int
    PROVE  /\ Tail(q) \in Queue
           /\ Head(q) \in Entry
           /\ Head(q) = q[1]
           /\ 1 \in 1 .. Len(q)
           /\ Len(Tail(q)) = Len(q) - 1
           /\ \A k \in 1 .. Len(Tail(q)) : k + 1 \in 1 .. Len(q) /\ Tail(q)[k] = q[k + 1]
           /\ Increasing(q) => Increasing(Tail(q))
           /\ Increasing(q) => \A k \in 1 .. Len(Tail(q)) : Head(q).id < Tail(q)[k].id
           /\ Below(q, n) => Below(Tail(q), n)
<1>1. /\ Tail(q) \in Queue
      /\ Head(q) \in Entry
      /\ Head(q) = q[1]
      /\ Len(q) \in Nat \ {0}
      /\ Len(Tail(q)) = Len(q) - 1
      /\ \A k \in 1 .. Len(Tail(q)) : Tail(q)[k] = q[k + 1]
  BY HeadTailProperties, EmptySeq DEF Queue
<1>2. \A k \in 1 .. Len(Tail(q)) : k + 1 \in 1 .. Len(q) /\ 1 < k + 1
  BY <1>1
<1>3. Increasing(q) => Increasing(Tail(q))
  BY <1>1, <1>2 DEF Increasing
<1>4. Increasing(q) => \A k \in 1 .. Len(Tail(q)) : Head(q).id < Tail(q)[k].id
  BY <1>1, <1>2 DEF Increasing
<1>5. Below(q, n) => Below(Tail(q), n)
  BY <1>1, <1>2 DEF Below
<1> QED
  BY <1>1, <1>2, <1>3, <1>4, <1>5

(* The ids of a queue are those of items. *)
LEMMA QueueIds ==
    ASSUME NEW q \in Queue
    PROVE  IdsOf(q) \subseteq Items
<1>1. \A k \in 1 .. Len(q) : q[k] \in Entry
  BY DEF Queue
<1>2. \A k \in 1 .. Len(q) : q[k].id \in Items
  BY <1>1 DEF Entry
<1> QED
  BY <1>2 DEF IdsOf

(* The empty queue is a queue in order. *)
LEMMA EmptyQueue ==
    /\ <<>> \in Queue
    /\ Len(<<>>) = 0
    /\ Increasing(<<>>)
    /\ \A n \in Int : Below(<<>>, n)
BY DEF Queue, Increasing, Below

-----------------------------------------------------------------------------
(* Every reachable state has its types (readQueue and writeQueue only ever *)
(* see arrays of items).                                                   *)
THEOREM TypeCorrect == QSpec => []QTypeOK
<1> USE OfflineQueueAssumption
<1>1. QInit => QTypeOK
  <2> SUFFICES ASSUME QInit PROVE QTypeOK
    OBVIOUS
  <2>1. store \in Queue /\ seen \in [Items -> Queue]
    BY EmptyQueue DEF QInit
  <2>2. drains \in [Calls -> [pc : {"idle", "run", "empty", "wrote"},
                             todo : Queue, remaining : Queue]]
    BY EmptyQueue DEF QInit, Idle
  <2>3. succeeded \in [Items -> Nat] /\ rejected \in [Items -> Nat]
    BY DEF QInit
  <2>4. /\ nItems \in 0 .. MaxItems /\ nDrains \in 0 .. MaxDrains
        /\ lapses \in 0 .. MaxLapses
    BY DEF QInit
  <2>5. enqueuing = {} /\ admitted = {} /\ gone = {} /\ draining \in BOOLEAN
    BY DEF QInit
  <2> HIDE OfflineQueueAssumption
  <2> QED
    BY <2>1, <2>2, <2>3, <2>4, <2>5 DEF QTypeOK
<1>2. QTypeOK /\ [QNext]_qvars => QTypeOK'
  <2> SUFFICES ASSUME QTypeOK, [QNext]_qvars PROVE QTypeOK'
    OBVIOUS
  <2> USE DEF QTypeOK
  <2>0. ReadQueue \subseteq Queue
    BY EmptyQueue DEF ReadQueue
  <2>1. CASE EnqueueRead
    BY <2>0, <2>1 DEF EnqueueRead, Items
  <2>2. ASSUME NEW i \in Items, EnqueueWrite(i) PROVE QTypeOK'
    <3> DEFINE e == [id |-> i, retryCount |-> 0]
    <3>1. e \in Entry
      BY DEF Entry
    <3>2. Append(seen[i], e) \in Queue
      BY <3>1, AppendKeepsOrder, 0 \in Int
    <3>3. store' \in Queue
      BY <2>2, <3>2, NewestKeepsOrder, 0 \in Int DEF EnqueueWrite, WriteQueue
    <3>4. gone' \subseteq Items
      <4>1. IdsOf(Append(seen[i], e)) \subseteq Items
        BY <3>2, QueueIds
      <4> QED
        BY <2>2, <4>1 DEF EnqueueWrite
    <3>5. lapses' \in 0 .. MaxLapses
      BY <2>2 DEF EnqueueWrite, WriteQueue
    <3> QED
      BY <2>2, <3>3, <3>4, <3>5, EmptyQueue DEF EnqueueWrite, Items
  <2>3. CASE Clear
    <3>1. IdsOf(store) \subseteq Items
      BY QueueIds
    <3> QED
      BY <2>3, <3>1, EmptyQueue DEF Clear
  <2>4. CASE DrainSkip
    BY <2>4 DEF DrainSkip
  <2>5. CASE DrainRead
    BY <2>0, <2>5, EmptyQueue DEF DrainRead, Calls
  <2>6. ASSUME NEW d \in Calls, Drain(d) PROVE QTypeOK'
    <3>1. CASE ExecuteResolves(d)
      <4>1. Tail(drains[d].todo) \in Queue /\ Head(drains[d].todo) \in Entry
        BY <3>1, TailKeepsOrder, 0 \in Int DEF ExecuteResolves
      <4>2. Head(drains[d].todo).id \in Items
        BY <4>1 DEF Entry
      <4>3. drains' \in [Calls -> [pc : {"idle", "run", "empty", "wrote"},
                                   todo : Queue, remaining : Queue]]
        BY <3>1, <4>1 DEF ExecuteResolves
      <4>4. succeeded' \in [Items -> Nat]
        BY <3>1, <4>2 DEF ExecuteResolves
      <4>5. UNCHANGED <<store, draining, nItems, seen, enqueuing, nDrains,
                        admitted, rejected, gone, lapses>>
        BY <3>1 DEF ExecuteResolves
      <4> HIDE OfflineQueueAssumption
      <4> QED
        BY <4>3, <4>4, <4>5
    <3>2. CASE ExecuteRejects(d)
      <4> DEFINE item == Head(drains[d].todo)
      <4>1. Tail(drains[d].todo) \in Queue /\ item \in Entry
        BY <3>2, TailKeepsOrder, 0 \in Int DEF ExecuteRejects
      <4>2. item.id \in Items /\ [item EXCEPT !.retryCount = @ + 1] \in Entry
        BY <4>1 DEF Entry
      <4>3. Append(drains[d].remaining, [item EXCEPT !.retryCount = @ + 1]) \in Queue
        BY <4>2, AppendKeepsOrder, 0 \in Int
      <4> HIDE DEF item
      <4> DEFINE kept == Append(drains[d].remaining,
                                [item EXCEPT !.retryCount = @ + 1])
                 call == [pc |-> "run", todo |-> Tail(drains[d].todo),
                          remaining |-> kept]
      <4>4. drains' = [drains EXCEPT ![d] = call]
        BY <3>2 DEF ExecuteRejects, item
      <4>5. call \in [pc : {"idle", "run", "empty", "wrote"},
                      todo : Queue, remaining : Queue]
        BY <4>1, <4>3
      <4> HIDE DEF call
      <4>6. drains' \in [Calls -> [pc : {"idle", "run", "empty", "wrote"},
                                   todo : Queue, remaining : Queue]]
        BY <4>4, <4>5
      <4>7. rejected' \in [Items -> Nat]
        <5>1. rejected' = [rejected EXCEPT ![item.id] = @ + 1]
          BY <3>2 DEF ExecuteRejects, item
        <5>2. rejected \in [Items -> Nat]
          OBVIOUS
        <5> QED
          BY <4>2, <5>1, <5>2
      <4>8. UNCHANGED <<store, draining, nItems, seen, enqueuing, nDrains,
                        admitted, succeeded, gone, lapses>>
        BY <3>2 DEF ExecuteRejects
      <4> HIDE OfflineQueueAssumption
      <4> QED
        BY <4>6, <4>7, <4>8
    <3>3. CASE DrainWrite(d)
      <4>1. store' \in Queue /\ lapses' \in 0 .. MaxLapses
        BY <3>3 DEF DrainWrite, WriteQueue
      <4>2. drains' \in [Calls -> [pc : {"idle", "run", "empty", "wrote"},
                                   todo : Queue, remaining : Queue]]
        BY <3>3, EmptyQueue DEF DrainWrite, Idle
      <4> HIDE OfflineQueueAssumption
      <4> QED
        BY <3>3, <4>1, <4>2 DEF DrainWrite
    <3>4. CASE DrainUnlock(d)
      BY <3>4, EmptyQueue DEF DrainUnlock, Idle
    <3> QED
      BY <2>6, <3>1, <3>2, <3>3, <3>4 DEF Drain
  <2>7. CASE Crash
    <3>1. lapses' \in 0 .. MaxLapses
      BY <2>7 DEF Crash
    <3> HIDE OfflineQueueAssumption
    <3> QED
      BY <2>7, <3>1, EmptyQueue DEF Crash, Idle
  <2>8. CASE UNCHANGED qvars
    BY <2>8 DEF qvars
  <2> QED
    BY <2>1, <2>2, <2>3, <2>4, <2>5, <2>6, <2>7, <2>8 DEF QNext
<1> QED
  BY <1>1, <1>2, PTL DEF QSpec

-----------------------------------------------------------------------------
(* The lock flag serialises drains: no two are ever past it, and it is     *)
(* held exactly while one is.                                              *)
THEOREM DrainsAreExclusive == QSpec => []OneDrainAtATime
<1> DEFINE Inv == OneDrainAtATime /\ QTypeOK
<1> USE OfflineQueueAssumption
<1>1. QInit => OneDrainAtATime
  <2> SUFFICES ASSUME QInit PROVE OneDrainAtATime
    OBVIOUS
  <2>1. \A d \in Calls : drains[d].pc = "idle"
    BY DEF QInit, Idle
  <2>2. Active = {} /\ ~draining
    BY <2>1 DEF QInit, Active
  <2> QED
    BY <2>2 DEF OneDrainAtATime
<1>2. QTypeOK /\ OneDrainAtATime /\ [QNext]_qvars => OneDrainAtATime'
  <2> SUFFICES ASSUME QTypeOK, OneDrainAtATime, [QNext]_qvars
               PROVE  OneDrainAtATime'
    OBVIOUS
  <2>1. CASE UNCHANGED <<draining, drains>>
    BY <2>1 DEF OneDrainAtATime, Active
  <2>2. CASE DrainRead
    <3>0. draining'
      BY <2>2 DEF DrainRead
    <3>1. Active = {}
      BY <2>2 DEF DrainRead, OneDrainAtATime
    <3>3. nDrains + 1 \in Calls
      BY <2>2 DEF DrainRead, QTypeOK, Calls
    <3>2. Active' = {nDrains + 1}
      <4>1. PICK q \in ReadQueue :
              drains' = [drains EXCEPT ![nDrains + 1] =
                           [pc |-> IF q = <<>> THEN "empty" ELSE "run",
                            todo |-> q, remaining |-> <<>>]]
        BY <2>2 DEF DrainRead
      <4> QED
        BY <3>1, <3>3, <4>1 DEF Active, QTypeOK
    <3> QED
      BY <3>0, <3>2 DEF OneDrainAtATime
  <2>3. ASSUME NEW d \in Calls, Drain(d) PROVE OneDrainAtATime'
    <3>1. CASE DrainUnlock(d)
      <4>1. Active = {d}
        BY <3>1 DEF DrainUnlock, OneDrainAtATime, Active
      <4>2. Active' = {}
        BY <3>1, <4>1 DEF DrainUnlock, Active, Idle, QTypeOK
      <4> QED
        BY <3>1, <4>2 DEF DrainUnlock, OneDrainAtATime
    <3>2. CASE ~DrainUnlock(d)
      <4>1. drains[d].pc = "run" /\ draining' = draining
        BY <2>3, <3>2 DEF Drain, ExecuteResolves, ExecuteRejects, DrainWrite
      <4>2. drains'[d].pc \in {"run", "wrote"}
        BY <2>3, <3>2, <4>1
        DEF Drain, ExecuteResolves, ExecuteRejects, DrainWrite, Idle, QTypeOK
      <4>3. \A c \in Calls \ {d} : drains'[c] = drains[c]
        BY <2>3, <3>2
        DEF Drain, ExecuteResolves, ExecuteRejects, DrainWrite, QTypeOK
      <4>4. Active' = Active
        BY <4>1, <4>2, <4>3 DEF Active
      <4> QED
        BY <4>1, <4>4 DEF OneDrainAtATime
    <3> QED
      BY <3>1, <3>2
  <2>4. CASE Crash
    BY <2>4 DEF Crash, OneDrainAtATime, Active, Idle
  <2> QED
    BY <2>1, <2>2, <2>3, <2>4
    DEF QNext, qvars, EnqueueRead, EnqueueWrite, Clear, DrainSkip
<1> QED
  BY <1>1, <1>2, TypeCorrect, PTL DEF QSpec

-----------------------------------------------------------------------------
(* A drain that holds nothing holds it in order. *)
LEMMA EmptyInOrder ==
    ASSUME NEW call, NEW n, call.todo = <<>>, call.remaining = <<>>
    PROVE  CallInOrder(call, n)
BY EmptyQueue DEF CallInOrder, Below

(* The inductive invariant behind StoreInOrder: the stored queue, and every *)
(* copy an enqueue or a drain holds in memory, lists distinct items in the  *)
(* order they were created; an enqueue's copy is older than its item, and   *)
(* what a drain has kept precedes what it has still to try.                 *)
THEOREM OrderInvariant == QSpec => []OrderInv
<1> USE OfflineQueueAssumption
<1>1. QInit => OrderInv
  <2> SUFFICES ASSUME QInit PROVE OrderInv
    OBVIOUS
  <2>1. nItems + 1 \in Int /\ \A i \in Items : i \in Int
    BY DEF QInit, Items
  <2>2. \A d \in Calls : drains[d].todo = <<>> /\ drains[d].remaining = <<>>
    BY DEF QInit, Idle
  <2>3. \A d \in Calls : CallInOrder(drains[d], nItems + 1)
    BY <2>2, EmptyInOrder
  <2> QED
    BY <2>1, <2>3, EmptyQueue DEF QInit, OrderInv
<1>2. QTypeOK /\ QTypeOK' /\ OrderInv /\ [QNext]_qvars => OrderInv'
  <2> SUFFICES ASSUME QTypeOK, QTypeOK', OrderInv, [QNext]_qvars
               PROVE  OrderInv'
    OBVIOUS
  <2>0. /\ nItems \in Nat /\ nItems + 1 \in Int
        /\ \A i \in Items : i \in Int
        /\ \A q \in ReadQueue : q \in Queue /\ Increasing(q) /\ Below(q, nItems + 1)
    BY EmptyQueue DEF QTypeOK, ReadQueue, OrderInv, Items
  <2>1. CASE EnqueueRead
    <3>1. nItems' = nItems + 1 /\ UNCHANGED <<store, drains>>
      BY <2>1 DEF EnqueueRead
    <3>2. PICK q \in ReadQueue : seen' = [seen EXCEPT ![nItems + 1] = q]
      BY <2>1 DEF EnqueueRead
    <3>3. \A i \in Items : Increasing(seen'[i]) /\ Below(seen'[i], i)
      BY <2>0, <3>2 DEF OrderInv, QTypeOK
    <3>4. \A q2 \in Queue : Below(q2, nItems + 1) => Below(q2, nItems' + 1)
      <4> SUFFICES ASSUME NEW q2 \in Queue, Below(q2, nItems + 1),
                          NEW k \in 1 .. Len(q2)
                   PROVE  q2[k].id < nItems' + 1
        BY DEF Below
      <4>1. q2[k] \in Entry
        BY DEF Queue
      <4>2. q2[k].id \in Int
        BY <4>1, <2>0 DEF Entry
      <4> QED
        BY <2>0, <3>1, <4>2 DEF Below
    <3>5. store \in Queue /\ \A d \in Calls : drains[d].todo \in Queue
                                           /\ drains[d].remaining \in Queue
      BY DEF QTypeOK
    <3>6. \A d \in Calls : CallInOrder(drains'[d], nItems' + 1)
      BY <3>1, <3>4, <3>5 DEF OrderInv, CallInOrder
    <3> QED
      BY <3>1, <3>3, <3>4, <3>5, <3>6 DEF OrderInv
  <2>2. ASSUME NEW i \in Items, EnqueueWrite(i) PROVE OrderInv'
    <3> DEFINE e == [id |-> i, retryCount |-> 0]
               appended == Append(seen[i], e)
    <3>1. seen[i] \in Queue /\ e \in Entry /\ e.id = i /\ i < nItems + 1
      BY <2>0, <2>2 DEF EnqueueWrite, QTypeOK, Entry, Items
    <3>2. Increasing(seen[i]) /\ Below(seen[i], i) /\ Below(seen[i], nItems + 1)
      <4>1. Increasing(seen[i]) /\ Below(seen[i], i)
        BY DEF OrderInv
      <4>2. \A k \in 1 .. Len(seen[i]) : seen[i][k].id \in Int
        <5>1. \A k \in 1 .. Len(seen[i]) : seen[i][k] \in Entry
          BY <3>1 DEF Queue
        <5> QED
          BY <5>1, <2>0 DEF Entry
      <4> QED
        BY <4>1, <4>2, <3>1, <2>0 DEF Below
    <3> HIDE DEF e
    <3>3. appended \in Queue /\ Increasing(appended) /\ Below(appended, nItems + 1)
      BY <3>1, <3>2, <2>0, AppendKeepsOrder
    <3>4. Increasing(Newest(appended)) /\ Below(Newest(appended), nItems + 1)
      BY <3>3, <2>0, NewestKeepsOrder
    <3>5. store' \in {store, Newest(appended)}
      BY <2>2 DEF EnqueueWrite, WriteQueue, e
    <3>6. \A j \in Items : Increasing(seen'[j]) /\ Below(seen'[j], j)
      <4>1. \A j \in Items : seen'[j] \in {seen[j], <<>>}
        BY <2>2 DEF EnqueueWrite, QTypeOK
      <4> QED
        BY <4>1, <2>0, EmptyQueue DEF OrderInv
    <3>7. UNCHANGED <<nItems, drains>>
      BY <2>2 DEF EnqueueWrite
    <3>8. Increasing(store') /\ Below(store', nItems' + 1)
      BY <3>4, <3>5, <3>7 DEF OrderInv
    <3> QED
      BY <3>6, <3>7, <3>8 DEF OrderInv
  <2>3. CASE Clear
    BY <2>0, <2>3, EmptyQueue DEF Clear, OrderInv
  <2>4. CASE DrainRead
    <3>1. PICK q \in ReadQueue :
            drains' = [drains EXCEPT ![nDrains + 1] =
                         [pc |-> IF q = <<>> THEN "empty" ELSE "run",
                          todo |-> q, remaining |-> <<>>]]
      BY <2>4 DEF DrainRead
    <3>2. ASSUME NEW d \in Calls
          PROVE  \/ drains'[d] = drains[d]
                 \/ drains'[d].todo = q /\ drains'[d].remaining = <<>>
      BY <3>1 DEF QTypeOK
    <3>3. \A k \in 1 .. Len(q) : Below(<<>>, q[k].id)
      BY EmptyQueue DEF Below
    <3>4. Increasing(<<>>) /\ Below(<<>>, nItems + 1)
      BY <2>0, EmptyQueue
    <3>5. UNCHANGED <<store, nItems, seen>>
      BY <2>4 DEF DrainRead
    <3>6. \A d \in Calls : CallInOrder(drains'[d], nItems + 1)
      BY <2>0, <3>2, <3>3, <3>4 DEF OrderInv, CallInOrder
    <3> QED
      BY <3>5, <3>6 DEF OrderInv
  <2>5. ASSUME NEW d \in Calls, Drain(d) PROVE OrderInv'
    <3> DEFINE todo == drains[d].todo
               remaining == drains[d].remaining
    <3>0. /\ todo \in Queue /\ Increasing(todo) /\ Below(todo, nItems + 1)
          /\ remaining \in Queue /\ Increasing(remaining)
          /\ Below(remaining, nItems + 1)
          /\ \A k \in 1 .. Len(todo) : Below(remaining, todo[k].id)
      BY DEF OrderInv, CallInOrder, QTypeOK
    <3>1. \A c \in Calls \ {d} : drains'[c] = drains[c]
      BY <2>5 DEF Drain, ExecuteResolves, ExecuteRejects, DrainWrite,
                  DrainUnlock, QTypeOK
    <3>2. UNCHANGED <<nItems, seen>>
      BY <2>5 DEF Drain, ExecuteResolves, ExecuteRejects, DrainWrite, DrainUnlock
    <3> SUFFICES /\ Increasing(store') /\ Below(store', nItems + 1)
                 /\ CallInOrder(drains'[d], nItems + 1)
      BY <3>1, <3>2 DEF OrderInv
    <3>3. Increasing(store) /\ Below(store, nItems + 1)
      BY DEF OrderInv
    <3>4. CASE ExecuteResolves(d)
      <4>1. todo # <<>> /\ store' = store
            /\ drains'[d].todo = Tail(todo) /\ drains'[d].remaining = remaining
        BY <3>4 DEF ExecuteResolves, QTypeOK
      <4>2. /\ Increasing(Tail(todo)) /\ Below(Tail(todo), nItems + 1)
            /\ \A k \in 1 .. Len(Tail(todo)) : Below(remaining, Tail(todo)[k].id)
        BY <4>1, <3>0, <2>0, TailKeepsOrder
      <4> HIDE DEF todo, remaining
      <4> QED
        BY <4>1, <4>2, <3>0, <3>3 DEF CallInOrder
    <3>5. CASE ExecuteRejects(d)
      <4> DEFINE item == Head(todo)
                 e == [item EXCEPT !.retryCount = @ + 1]
      <4>1. todo # <<>> /\ store' = store
            /\ drains'[d].todo = Tail(todo)
            /\ drains'[d].remaining = Append(remaining, e)
        BY <3>5 DEF ExecuteRejects, QTypeOK
      <4>2. /\ Increasing(Tail(todo)) /\ Below(Tail(todo), nItems + 1)
            /\ item \in Entry /\ item = todo[1] /\ 1 \in 1 .. Len(todo)
            /\ \A k \in 1 .. Len(Tail(todo)) :
                  /\ item.id < Tail(todo)[k].id
                  /\ Below(remaining, Tail(todo)[k].id)
                  /\ Tail(todo)[k].id \in Int
        <5>1. todo \in Queue /\ todo # <<>>
          BY <4>1, <3>0
        <5>2. Tail(todo) \in Queue
          BY <5>1, <2>0, TailKeepsOrder
        <5>3. \A k \in 1 .. Len(Tail(todo)) : Tail(todo)[k].id \in Int
          <6>1. \A k \in 1 .. Len(Tail(todo)) : Tail(todo)[k] \in Entry
            BY <5>2 DEF Queue
          <6> QED
            BY <6>1, <2>0 DEF Entry
        <5> QED
          BY <5>1, <5>3, <3>0, <2>0, TailKeepsOrder
      <4>3. e \in Entry /\ e.id = item.id
        BY <4>2 DEF Entry
      <4>4. Below(remaining, e.id) /\ e.id < nItems + 1
        BY <4>2, <4>3, <3>0 DEF Below
      <4> HIDE DEF e, item, todo, remaining
      <4>5. /\ Increasing(Append(remaining, e))
            /\ Below(Append(remaining, e), nItems + 1)
        BY <4>3, <4>4, <3>0, <2>0, AppendKeepsOrder
      <4>6. \A k \in 1 .. Len(Tail(todo)) :
               Below(Append(remaining, e), Tail(todo)[k].id)
        BY <4>2, <4>3, <3>0, AppendKeepsOrder
      <4> QED
        BY <4>1, <4>2, <4>5, <4>6, <3>3 DEF CallInOrder
    <3>6. CASE DrainWrite(d)
      <4>1. store' \in {store, remaining}
        BY <3>6 DEF DrainWrite, WriteQueue
      <4>2. drains'[d].todo = <<>> /\ drains'[d].remaining = <<>>
        BY <3>6 DEF DrainWrite, Idle, QTypeOK
      <4> QED
        BY <4>1, <4>2, <3>0, <3>3, EmptyInOrder
    <3>7. CASE DrainUnlock(d)
      <4>1. /\ store' = store
            /\ drains'[d].todo = <<>> /\ drains'[d].remaining = <<>>
        BY <3>7 DEF DrainUnlock, Idle, QTypeOK
      <4> QED
        BY <4>1, <3>3, EmptyInOrder
    <3> QED
      BY <2>5, <3>4, <3>5, <3>6, <3>7 DEF Drain
  <2>6. CASE Crash
    <3>1. \A d \in Calls : drains'[d].todo = <<>> /\ drains'[d].remaining = <<>>
      BY <2>6 DEF Crash, Idle
    <3>2. \A i \in Items : seen'[i] = <<>>
      BY <2>6 DEF Crash
    <3>3. UNCHANGED <<store, nItems>>
      BY <2>6 DEF Crash
    <3> QED
      BY <3>1, <3>2, <3>3, <2>0, EmptyQueue, EmptyInOrder DEF OrderInv
  <2>7. CASE UNCHANGED <<store, nItems, seen, drains>>
    BY <2>7 DEF OrderInv
  <2> QED
    BY <2>1, <2>2, <2>3, <2>4, <2>5, <2>6, <2>7 DEF QNext, qvars, DrainSkip
<1> QED
  BY <1>1, <1>2, TypeCorrect, PTL DEF QSpec

(* The stored queue is always in the order of enqueueing, without          *)
(* repetitions, whatever overlaps, fails or is killed.                     *)
THEOREM StoreStaysInOrder == Spec => []StoreInOrder
<1>1. OrderInv => StoreInOrder
  BY DEF OrderInv, StoreInOrder
<1> QED
  BY <1>1, HookImplementsQueue, OrderInvariant, PTL

-----------------------------------------------------------------------------
(* A drain that is not running holds no items. *)
LEMMA HoldsNothing == Held(Idle) = 0 /\ Held(Idle) <= MaxQueueSize
<1>1. Idle.todo = <<>> /\ Idle.remaining = <<>>
  BY DEF Idle
<1> QED
  BY <1>1, EmptyQueue, OfflineQueueAssumption DEF Held

(* The inductive invariant behind StoreBounded: a drain never holds more   *)
(* than it read, and what it read was within MAX_QUEUE_SIZE.               *)
THEOREM BoundInvariant == QSpec => []BoundInv
<1> USE OfflineQueueAssumption
<1>1. QInit => BoundInv
  <2> SUFFICES ASSUME QInit PROVE BoundInv
    OBVIOUS
  <2>1. Len(store) <= MaxQueueSize
    BY EmptyQueue DEF QInit
  <2>2. \A d \in Calls : Held(drains[d]) <= MaxQueueSize
    BY HoldsNothing DEF QInit
  <2> QED
    BY <2>1, <2>2 DEF BoundInv
<1>2. QTypeOK /\ BoundInv /\ [QNext]_qvars => BoundInv'
  <2> SUFFICES ASSUME QTypeOK, BoundInv, [QNext]_qvars PROVE BoundInv'
    OBVIOUS
  <2>0. \A q \in ReadQueue : Len(q) <= MaxQueueSize
    BY EmptyQueue DEF ReadQueue, BoundInv
  <2>1. ASSUME NEW i \in Items, EnqueueWrite(i) PROVE BoundInv'
    <3> DEFINE e == [id |-> i, retryCount |-> 0]
    <3>1. e \in Entry /\ seen[i] \in Queue
      BY DEF Entry, QTypeOK
    <3> HIDE DEF e
    <3>2. Append(seen[i], e) \in Queue
      BY <3>1, AppendKeepsOrder, 0 \in Int
    <3>3. Len(Newest(Append(seen[i], e))) <= MaxQueueSize
      BY <3>2, NewestKeepsOrder, 0 \in Int
    <3>4. /\ store' \in {store, Newest(Append(seen[i], e))}
          /\ UNCHANGED drains
      BY <2>1 DEF EnqueueWrite, WriteQueue, e
    <3> QED
      BY <3>3, <3>4 DEF BoundInv
  <2>2. CASE Clear
    <3>1. store' = <<>> /\ UNCHANGED drains
      BY <2>2 DEF Clear
    <3>2. Len(<<>>) <= MaxQueueSize
      BY EmptyQueue
    <3> QED
      BY <3>1, <3>2 DEF BoundInv
  <2>3. CASE DrainRead
    <3>1. PICK q \in ReadQueue :
            drains' = [drains EXCEPT ![nDrains + 1] =
                         [pc |-> IF q = <<>> THEN "empty" ELSE "run",
                          todo |-> q, remaining |-> <<>>]]
      BY <2>3 DEF DrainRead
    <3>2. Len(q) \in Nat
      BY EmptyQueue DEF ReadQueue, QTypeOK, Queue
    <3>3. store' = store
      BY <2>3 DEF DrainRead
    <3>4. \A d \in Calls : \/ drains'[d] = drains[d]
                          \/ Held(drains'[d]) = Len(q)
      <4> SUFFICES ASSUME NEW d \in Calls, d = nDrains + 1
                   PROVE  Held(drains'[d]) = Len(q)
        BY <3>1 DEF QTypeOK
      <4>1. drains'[d].todo = q /\ drains'[d].remaining = <<>>
        BY <3>1 DEF QTypeOK
      <4> QED
        BY <4>1, <3>2, EmptyQueue DEF Held
    <3> QED
      BY <2>0, <3>3, <3>4 DEF BoundInv
  <2>4. ASSUME NEW d \in Calls, Drain(d) PROVE BoundInv'
    <3> DEFINE todo == drains[d].todo
               remaining == drains[d].remaining
    <3>0. /\ todo \in Queue /\ remaining \in Queue
          /\ Len(todo) \in Nat /\ Len(remaining) \in Nat
          /\ Len(todo) + Len(remaining) <= MaxQueueSize
          /\ Len(remaining) <= MaxQueueSize
      <4>1. todo \in Queue /\ remaining \in Queue
        BY DEF QTypeOK
      <4>2. Len(todo) + Len(remaining) <= MaxQueueSize
        BY DEF BoundInv, Held
      <4> HIDE DEF todo, remaining
      <4>3. Len(todo) \in Nat /\ Len(remaining) \in Nat
        BY <4>1 DEF Queue
      <4> QED
        BY <4>1, <4>2, <4>3
    <3>1. \A c \in Calls \ {d} : drains'[c] = drains[c]
      BY <2>4 DEF Drain, ExecuteResolves, ExecuteRejects, DrainWrite,
                  DrainUnlock, QTypeOK
    <3>2. CASE ExecuteResolves(d)
      <4>1. todo # <<>> /\ store' = store
            /\ drains'[d].todo = Tail(todo) /\ drains'[d].remaining = remaining
        BY <3>2 DEF ExecuteResolves, QTypeOK
      <4>2. Len(Tail(todo)) = Len(todo) - 1
        BY <4>1, <3>0, TailKeepsOrder, 0 \in Int
      <4> HIDE DEF todo, remaining
      <4>3. Held(drains'[d]) <= MaxQueueSize
        BY <4>1, <4>2, <3>0 DEF Held
      <4> QED
        BY <4>1, <4>3, <3>1 DEF BoundInv
    <3>3. CASE ExecuteRejects(d)
      <4> DEFINE e == [Head(todo) EXCEPT !.retryCount = @ + 1]
      <4>1. todo # <<>> /\ store' = store
            /\ drains'[d].todo = Tail(todo)
            /\ drains'[d].remaining = Append(remaining, e)
        BY <3>3 DEF ExecuteRejects, QTypeOK
      <4>2. Len(Tail(todo)) = Len(todo) - 1 /\ Head(todo) \in Entry
        BY <4>1, <3>0, TailKeepsOrder, 0 \in Int
      <4>3. e \in Entry
        BY <4>2 DEF Entry
      <4> HIDE DEF e, todo, remaining
      <4>4. Len(Append(remaining, e)) = Len(remaining) + 1
        BY <4>3, <3>0, AppendKeepsOrder, 0 \in Int
      <4>5. Held(drains'[d]) <= MaxQueueSize
        BY <4>1, <4>2, <4>4, <3>0 DEF Held
      <4> QED
        BY <4>1, <4>5, <3>1 DEF BoundInv
    <3>4. CASE DrainWrite(d)
      <4>1. store' \in {store, remaining}
        BY <3>4 DEF DrainWrite, WriteQueue
      <4>2. drains'[d].todo = <<>> /\ drains'[d].remaining = <<>>
        BY <3>4 DEF DrainWrite, Idle, QTypeOK
      <4>3. Held(drains'[d]) <= MaxQueueSize
        BY <4>2, EmptyQueue DEF Held
      <4> HIDE DEF todo, remaining
      <4>4. Len(remaining) <= MaxQueueSize
        BY <3>0
      <4> QED
        BY <4>1, <4>3, <4>4, <3>1 DEF BoundInv
    <3>5. CASE DrainUnlock(d)
      <4>1. store' = store /\ drains'[d] = Idle
        BY <3>5 DEF DrainUnlock, QTypeOK
      <4> QED
        BY <4>1, <3>1, HoldsNothing DEF BoundInv
    <3> QED
      BY <2>4, <3>2, <3>3, <3>4, <3>5 DEF Drain
  <2>5. CASE Crash
    <3>1. store' = store /\ \A d \in Calls : drains'[d] = Idle
      BY <2>5 DEF Crash
    <3> QED
      BY <3>1, HoldsNothing DEF BoundInv
  <2>6. CASE UNCHANGED <<store, drains>>
    BY <2>6 DEF BoundInv
  <2> QED
    BY <2>1, <2>2, <2>3, <2>4, <2>5, <2>6
    DEF QNext, qvars, EnqueueRead, DrainSkip
<1> QED
  BY <1>1, <1>2, TypeCorrect, PTL DEF QSpec

(* The stored queue never outgrows MAX_QUEUE_SIZE. *)
THEOREM StoreStaysBounded == Spec => []StoreBounded
<1>1. BoundInv => StoreBounded
  BY DEF BoundInv, StoreBounded
<1> QED
  BY <1>1, HookImplementsQueue, BoundInvariant, PTL

-----------------------------------------------------------------------------
(* A hook that listens and says offline agrees with the module: no answer, *)
(* mount or restart leaves it behind when the module hears of being back,  *)
(* but for what the module heard between its render and its effect.        *)
HookInv ==
    /\ missed => ~rendered
    /\ rendered \/ ~lastKnown \/ mounting \/ missed
    /\ mounting /\ ~rendered /\ lastKnown => missed
    /\ netInfo /\ ~mounting => rendered \/ ~lastKnown

THEOREM HookHearsOfReconnect == Spec => []HookNotStuckOffline
<1>1. Init => HookInv
  BY DEF Init, HookInv
<1>2. HookInv /\ [Next]_vars => HookInv'
  <2> SUFFICES ASSUME HookInv, [Next]_vars
               PROVE  HookInv'
    OBVIOUS
  <2> USE DEF HookInv
  <2>0. CASE Next
    <3>0. missed' = (~rendered' /\ (missed \/ (mounting /\ ~lastKnown /\ lastKnown')))
      BY <2>0 DEF Next
    <3>1. CASE ChangeNetwork
      <4>1. CASE netInfo /\ mounting
        <5>1. mounting' = mounting /\ netInfo' = netInfo /\ rendered' = rendered
          BY <3>1, <4>1 DEF ChangeNetwork
        <5> QED
          BY <3>0, <4>1, <5>1, Zenon
      <4>2. CASE netInfo /\ ~mounting
        <5>1. /\ mounting' = mounting /\ netInfo' = netInfo
              /\ rendered' = ~online /\ lastKnown' = ~online
          BY <3>1, <4>2 DEF ChangeNetwork, HandleNetworkChange
        <5>2. rendered' = lastKnown'
          BY <5>1
        <5> QED
          BY <3>0, <4>2, <5>1, <5>2, Zenon
      <4>3. CASE ~netInfo
        <5>1. /\ mounting' = mounting /\ netInfo' = netInfo
              /\ rendered' = rendered /\ lastKnown' = lastKnown
          BY <3>1, <4>3 DEF ChangeNetwork
        <5> QED
          BY <3>0, <5>1, Zenon
      <4> QED
        BY <4>1, <4>2, <4>3
    <3>2. CASE PollAnswer
      <4>1. PICK answer \in polling :
               /\ lastKnown' = answer /\ mounting' = mounting /\ netInfo' = netInfo
               /\ rendered' = (rendered \/ (~lastKnown /\ answer /\ ~mounting))
        BY <3>2 DEF PollAnswer, HandleNetworkChange
      <4> QED
        BY <3>0, <4>1, Zenon
    <3>3. CASE Mount
      <4>1. mounting' = TRUE /\ rendered' = lastKnown /\ lastKnown' = lastKnown
        BY <3>3 DEF Mount, netVars
      <4> QED
        BY <3>0, <4>1, Zenon
    <3>4. CASE Listen
      <4>1. CASE netInfo
        <5>1. /\ mounting' = FALSE /\ netInfo' = netInfo
              /\ rendered' = online /\ lastKnown' = online
          BY <3>4, <4>1 DEF Listen, HandleNetworkChange
        <5>2. rendered' = lastKnown' /\ ~mounting'
          BY <5>1
        <5>3. rendered' \/ ~lastKnown'
          BY <5>2, Zenon
        <5> QED
          BY <3>0, <5>2, <5>3, Zenon
      <4>2. CASE ~netInfo
        <5>1. /\ mounting /\ mounting' = FALSE /\ netInfo' = netInfo
              /\ rendered' = rendered /\ lastKnown' = lastKnown
          BY <3>4, <4>2 DEF Listen
        <5> QED
          BY <3>0, <4>2, <5>1, Zenon
      <4> QED
        BY <4>1, <4>2
    <3>5. CASE Restart
      BY <3>0, <3>5 DEF Restart
    <3>6. CASE UNCHANGED <<lastKnown, rendered, mounting, netInfo>>
      BY <3>0, <3>6
    <3> QED
      BY <2>0, <3>1, <3>2, <3>3, <3>4, <3>5, <3>6
      DEF Next, Step, Poll, CallEnqueue, FinishEnqueue, DrainAfterEnqueue,
          DrainStep, ClearQueue, netVars, hookVars
  <2>1. CASE UNCHANGED vars
    BY <2>1 DEF vars, netVars, hookVars
  <2> QED
    BY <2>0, <2>1
<1>3. HookInv => HookNotStuckOffline
  BY DEF HookInv, HookNotStuckOffline
<1> QED
  BY <1>1, <1>2, <1>3, PTL DEF Spec

-----------------------------------------------------------------------------
(* What the operations on queues do to the ids in them.                    *)
LEMMA EmptyIds == IdsOf(<<>>) = {}
BY DEF IdsOf

LEMMA AppendIds ==
    ASSUME NEW q \in Queue, NEW e \in Entry
    PROVE  /\ Append(q, e) \in Queue
           /\ IdsOf(Append(q, e)) = IdsOf(q) \cup {e.id}
<1>1. /\ Append(q, e) \in Queue
      /\ Len(q) \in Nat
      /\ Len(Append(q, e)) = Len(q) + 1
      /\ \A k \in 1 .. Len(q) : Append(q, e)[k] = q[k]
      /\ Append(q, e)[Len(q) + 1] = e
  BY DEF Queue
<1>2. 1 .. Len(q) + 1 = (1 .. Len(q)) \cup {Len(q) + 1}
  BY <1>1
<1> QED
  BY <1>1, <1>2 DEF IdsOf

LEMMA NewestIds ==
    ASSUME NEW q \in Queue
    PROVE  \A k \in 1 .. Len(Newest(q)) : \E j \in 1 .. Len(q) : Newest(q)[k] = q[j]
<1> USE OfflineQueueAssumption
<1>1. CASE Len(q) <= MaxQueueSize
  BY <1>1 DEF Newest
<1>2. CASE Len(q) > MaxQueueSize
  <2> DEFINE m == Len(q) - MaxQueueSize + 1
  <2>1. Len(q) \in Nat /\ m \in 1 .. Len(q) /\ Newest(q) = SubSeq(q, m, Len(q))
    BY <1>2 DEF Newest, Queue
  <2>2. \A k \in m .. Len(q) : q[k] \in Entry
    BY <2>1 DEF Queue
  <2> HIDE DEF m
  <2>3. /\ Len(Newest(q)) = Len(q) - m + 1
        /\ \A k \in 1 .. Len(q) - m + 1 : Newest(q)[k] = q[m + k - 1]
    BY <2>1, <2>2, SubSeqProperties
  <2>4. \A k \in 1 .. Len(q) - m + 1 : m + k - 1 \in 1 .. Len(q)
    BY <2>1
  <2> QED
    BY <2>3, <2>4
<1>3. Len(q) \in Nat
  BY DEF Queue
<1> QED
  BY <1>1, <1>2, <1>3

LEMMA CutIds ==
    ASSUME NEW q \in Queue
    PROVE  IdsOf(Newest(q)) \subseteq IdsOf(q)
BY NewestIds DEF IdsOf

LEMMA TailIds ==
    ASSUME NEW q \in Queue, q # <<>>
    PROVE  /\ Tail(q) \in Queue /\ Head(q) \in Entry
           /\ IdsOf(q) = {Head(q).id} \cup IdsOf(Tail(q))
           /\ Increasing(q) => Head(q).id \notin IdsOf(Tail(q))
<1>1. /\ Tail(q) \in Queue
      /\ Head(q) \in Entry
      /\ Head(q) = q[1]
      /\ Len(q) \in Nat \ {0}
      /\ Len(Tail(q)) = Len(q) - 1
      /\ \A k \in 1 .. Len(Tail(q)) : Tail(q)[k] = q[k + 1]
  BY HeadTailProperties, EmptySeq DEF Queue
<1>2. IdsOf(q) \subseteq {Head(q).id} \cup IdsOf(Tail(q))
  <2> SUFFICES ASSUME NEW k \in 1 .. Len(q), k # 1
               PROVE  q[k].id \in IdsOf(Tail(q))
    BY <1>1 DEF IdsOf
  <2>1. k - 1 \in 1 .. Len(Tail(q)) /\ Tail(q)[k - 1] = q[k]
    BY <1>1
  <2> QED
    BY <2>1 DEF IdsOf
<1>3. {Head(q).id} \cup IdsOf(Tail(q)) \subseteq IdsOf(q)
  <2>1. \A k \in 1 .. Len(Tail(q)) : k + 1 \in 1 .. Len(q) /\ Tail(q)[k] = q[k + 1]
    BY <1>1
  <2>2. 1 \in 1 .. Len(q) /\ Head(q) = q[1]
    BY <1>1
  <2> QED
    BY <2>1, <2>2 DEF IdsOf
<1>4. Increasing(q) => Head(q).id \notin IdsOf(Tail(q))
  <2>1. Increasing(q) => \A k \in 1 .. Len(Tail(q)) : Head(q).id < Tail(q)[k].id
    BY TailKeepsOrder, 0 \in Int
  <2>2. Head(q).id \in Int
    BY <1>1, OfflineQueueAssumption DEF Entry, Items
  <2> QED
    BY <2>1, <2>2 DEF IdsOf
<1> QED
  BY <1>1, <1>2, <1>3, <1>4

(* A queue of entries below n does not hold n. *)
LEMMA BelowIds ==
    ASSUME NEW q, NEW n \in Int, Below(q, n)
    PROVE  n \notin IdsOf(q)
BY DEF Below, IdsOf

-----------------------------------------------------------------------------
(* The retry counts of q are no more than the executions r has rejected.   *)
EarnedBy(q, r) == \A k \in 1 .. Len(q) : q[k].retryCount <= r[q[k].id]

(* The inductive invariant behind RetryCountIsEarned: it holds of every    *)
(* copy of the queue as well.                                              *)
EarnedInv ==
    /\ EarnedBy(store, rejected)
    /\ \A i \in Items : EarnedBy(seen[i], rejected)
    /\ \A d \in Calls : /\ EarnedBy(drains[d].todo, rejected)
                        /\ EarnedBy(drains[d].remaining, rejected)

LEMMA EmptyEarned == \A r : EarnedBy(<<>>, r)
BY EmptyQueue DEF EarnedBy

(* What append, cut and tail do to it, and that more rejections spoil      *)
(* nothing.                                                                *)
LEMMA EarnedKept ==
    ASSUME NEW r \in [Items -> Nat], NEW q \in Queue, EarnedBy(q, r)
    PROVE  /\ EarnedBy(Newest(q), r)
           /\ q # <<>> => /\ EarnedBy(Tail(q), r)
                          /\ Head(q).retryCount <= r[Head(q).id]
           /\ \A e \in Entry : e.retryCount <= r[e.id] => EarnedBy(Append(q, e), r)
           /\ \A s \in [Items -> Nat] : (\A i \in Items : r[i] <= s[i]) => EarnedBy(q, s)
<1>1. EarnedBy(Newest(q), r)
  BY NewestIds DEF EarnedBy
<1>2. q # <<>> => /\ EarnedBy(Tail(q), r)
                  /\ Head(q).retryCount <= r[Head(q).id]
  BY TailKeepsOrder, 0 \in Int DEF EarnedBy
<1>3. \A e \in Entry : e.retryCount <= r[e.id] => EarnedBy(Append(q, e), r)
  <2> SUFFICES ASSUME NEW e \in Entry, e.retryCount <= r[e.id],
                      NEW k \in 1 .. Len(Append(q, e))
               PROVE  Append(q, e)[k].retryCount <= r[Append(q, e)[k].id]
    BY DEF EarnedBy
  <2>1. /\ Len(q) \in Nat
        /\ Len(Append(q, e)) = Len(q) + 1
        /\ \A j \in 1 .. Len(q) : Append(q, e)[j] = q[j]
        /\ Append(q, e)[Len(q) + 1] = e
    BY DEF Queue
  <2> QED
    BY <2>1 DEF EarnedBy
<1>4. \A s \in [Items -> Nat] : (\A i \in Items : r[i] <= s[i]) => EarnedBy(q, s)
  <2> SUFFICES ASSUME NEW s \in [Items -> Nat], \A i \in Items : r[i] <= s[i],
                      NEW k \in 1 .. Len(q)
               PROVE  q[k].retryCount <= s[q[k].id]
    BY DEF EarnedBy
  <2>1. q[k] \in Entry
    BY DEF Queue
  <2>2. q[k].id \in Items /\ q[k].retryCount \in Nat
    BY <2>1 DEF Entry
  <2>3. /\ q[k].retryCount <= r[q[k].id] /\ r[q[k].id] <= s[q[k].id]
        /\ r[q[k].id] \in Nat /\ s[q[k].id] \in Nat
    BY <2>2 DEF EarnedBy
  <2> QED
    BY <2>2, <2>3
<1> QED
  BY <1>1, <1>2, <1>3, <1>4

(* Whatever overlaps, fails or is killed, every copy of the queue counts   *)
(* no more attempts than there were.                                       *)
THEOREM EarnedInvariant == QSpec => []EarnedInv
<1> USE OfflineQueueAssumption
<1>1. QInit => EarnedInv
  BY EmptyEarned DEF QInit, EarnedInv, Idle
<1>2. QTypeOK /\ QTypeOK' /\ EarnedInv /\ [QNext]_qvars => EarnedInv'
  <2> SUFFICES ASSUME QTypeOK, QTypeOK', EarnedInv, [QNext]_qvars
               PROVE  EarnedInv'
    OBVIOUS
  <2> USE DEF EarnedInv
  <2>0. /\ store \in Queue /\ rejected \in [Items -> Nat]
        /\ seen \in [Items -> Queue]
        /\ \A d \in Calls : drains[d].todo \in Queue /\ drains[d].remaining \in Queue
        /\ \A q \in ReadQueue : EarnedBy(q, rejected)
    BY EmptyEarned DEF QTypeOK, ReadQueue
  <2>1. CASE EnqueueRead
    BY <2>0, <2>1 DEF EnqueueRead
  <2>2. ASSUME NEW i \in Items, EnqueueWrite(i) PROVE EarnedInv'
    <3> DEFINE e == [id |-> i, retryCount |-> 0]
    <3>1. e \in Entry /\ e.retryCount <= rejected[e.id]
      <4>1. e \in Entry /\ e.id = i /\ e.retryCount = 0 /\ rejected[i] \in Nat
        BY <2>0 DEF Entry
      <4> QED
        BY <4>1
    <3>2. /\ UNCHANGED <<rejected, drains>>
          /\ seen' = [seen EXCEPT ![i] = <<>>]
          /\ store' \in {store, Newest(Append(seen[i], e))}
      BY <2>2 DEF EnqueueWrite, WriteQueue
    <3> HIDE DEF e
    <3>3. Append(seen[i], e) \in Queue /\ EarnedBy(Append(seen[i], e), rejected)
      BY <2>0, <3>1, EarnedKept, AppendIds
    <3>4. EarnedBy(Newest(Append(seen[i], e)), rejected)
      BY <2>0, <3>3, EarnedKept
    <3> QED
      BY <2>0, <3>2, <3>4, EmptyEarned
  <2>3. CASE Clear
    BY <2>3, EmptyEarned DEF Clear
  <2>4. CASE DrainRead
    <3>1. PICK q \in ReadQueue :
            drains' = [drains EXCEPT ![nDrains + 1] =
                         [pc |-> IF q = <<>> THEN "empty" ELSE "run",
                          todo |-> q, remaining |-> <<>>]]
      BY <2>4 DEF DrainRead
    <3>2. ASSUME NEW d \in Calls
          PROVE  \/ drains'[d] = drains[d]
                 \/ drains'[d].todo = q /\ drains'[d].remaining = <<>>
      BY <3>1 DEF QTypeOK
    <3>3. UNCHANGED <<store, seen, rejected>>
      BY <2>4 DEF DrainRead
    <3> QED
      BY <2>0, <3>2, <3>3, EmptyEarned
  <2>5. ASSUME NEW d \in Calls, Drain(d) PROVE EarnedInv'
    <3> DEFINE todo == drains[d].todo
               remaining == drains[d].remaining
    <3>0. /\ todo \in Queue /\ EarnedBy(todo, rejected)
          /\ remaining \in Queue /\ EarnedBy(remaining, rejected)
      BY <2>0
    <3>1. UNCHANGED seen /\ \A c \in Calls \ {d} : drains'[c] = drains[c]
      BY <2>5 DEF Drain, ExecuteResolves, ExecuteRejects, DrainWrite,
                  DrainUnlock, QTypeOK
    <3>2. CASE ExecuteResolves(d)
      <4>1. /\ todo # <<>> /\ UNCHANGED <<store, rejected>>
            /\ drains'[d].todo = Tail(todo) /\ drains'[d].remaining = remaining
        BY <3>2 DEF ExecuteResolves, QTypeOK
      <4>2. EarnedBy(Tail(todo), rejected)
        BY <2>0, <3>0, <4>1, EarnedKept
      <4> HIDE DEF todo, remaining
      <4> QED
        BY <3>0, <3>1, <4>1, <4>2
    <3>3. CASE ExecuteRejects(d)
      <4> DEFINE item == Head(todo)
                 e == [item EXCEPT !.retryCount = @ + 1]
      <4>1. /\ todo # <<>> /\ UNCHANGED store
            /\ drains'[d].todo = Tail(todo)
            /\ drains'[d].remaining = Append(remaining, e)
            /\ rejected' = [rejected EXCEPT ![item.id] = @ + 1]
        BY <3>3 DEF ExecuteRejects, QTypeOK
      <4>2. /\ Tail(todo) \in Queue /\ item \in Entry
            /\ EarnedBy(Tail(todo), rejected) /\ item.retryCount <= rejected[item.id]
        BY <2>0, <3>0, <4>1, TailIds, EarnedKept
      <4>3. /\ item.id \in Items /\ item.retryCount \in Nat
            /\ e \in Entry /\ e.id = item.id /\ e.retryCount = item.retryCount + 1
        BY <4>2 DEF Entry
      <4> HIDE DEF e, item, todo, remaining
      <4>4. rejected' \in [Items -> Nat] /\ rejected'[item.id] = rejected[item.id] + 1
            /\ \A i \in Items : rejected[i] <= rejected'[i]
        BY <2>0, <4>1, <4>3
      <4>5. \A q \in Queue : EarnedBy(q, rejected) => EarnedBy(q, rejected')
        BY <2>0, <4>4, EarnedKept
      <4>6. e.retryCount <= rejected'[e.id]
        <5>1. rejected[item.id] \in Nat
          BY <2>0, <4>3
        <5> QED
          BY <4>2, <4>3, <4>4, <5>1
      <4>7. EarnedBy(Append(remaining, e), rejected')
        BY <3>0, <4>3, <4>4, <4>5, <4>6, EarnedKept
      <4> QED
        BY <2>0, <3>1, <4>1, <4>2, <4>5, <4>7
    <3>4. CASE DrainWrite(d)
      <4>1. /\ store' \in {store, remaining} /\ UNCHANGED rejected
            /\ drains'[d].todo = <<>> /\ drains'[d].remaining = <<>>
        BY <3>4 DEF DrainWrite, WriteQueue, Idle, QTypeOK
      <4> HIDE DEF todo, remaining
      <4> QED
        BY <3>0, <3>1, <4>1, EmptyEarned
    <3>5. CASE DrainUnlock(d)
      <4>1. /\ UNCHANGED <<store, rejected>>
            /\ drains'[d].todo = <<>> /\ drains'[d].remaining = <<>>
        BY <3>5 DEF DrainUnlock, Idle, QTypeOK
      <4> QED
        BY <3>1, <4>1, EmptyEarned
    <3> QED
      BY <2>5, <3>2, <3>3, <3>4, <3>5 DEF Drain
  <2>6. CASE Crash
    <3>1. /\ \A d \in Calls : drains'[d].todo = <<>> /\ drains'[d].remaining = <<>>
          /\ \A i \in Items : seen'[i] = <<>>
          /\ UNCHANGED <<store, rejected>>
      BY <2>6 DEF Crash, Idle
    <3> QED
      BY <3>1, EmptyEarned
  <2>7. CASE UNCHANGED <<store, seen, drains, rejected>>
    BY <2>7
  <2> QED
    BY <2>1, <2>2, <2>3, <2>4, <2>5, <2>6, <2>7 DEF QNext, qvars, DrainSkip
<1> QED
  BY <1>1, <1>2, TypeCorrect, PTL DEF QSpec

(* The retryCount stored with an item is never more than its rejected      *)
(* executions, whatever overlaps, fails or is killed.                      *)
THEOREM RetriesAreEarned == Spec => []RetryCountIsEarned
<1>1. EarnedInv => RetryCountIsEarned
  BY DEF EarnedInv, EarnedBy, RetryCountIsEarned
<1> QED
  BY <1>1, HookImplementsQueue, EarnedInvariant, PTL

-----------------------------------------------------------------------------
(* Every id in a copy of the queue is one that was stored, as is every     *)
(* item that was executed; an item is not stored while its enqueue runs.   *)
AdmittedInv ==
    /\ IdsOf(store) \subseteq admitted
    /\ \A i \in Items : /\ IdsOf(seen[i]) \subseteq admitted
                        /\ succeeded[i] > 0 => i \in admitted
    /\ \A d \in Calls : /\ IdsOf(drains[d].todo) \subseteq admitted
                        /\ IdsOf(drains[d].remaining) \subseteq admitted
    /\ enqueuing \cap admitted = {}

(* Only what was stored is ever read or executed. *)
THEOREM AdmittedInvariant == QSpec => []AdmittedInv
<1> USE OfflineQueueAssumption
<1>1. QInit => AdmittedInv
  BY EmptyIds DEF QInit, AdmittedInv, Idle
<1>2. QTypeOK /\ AdmittedInv /\ [QNext]_qvars => AdmittedInv'
  <2> SUFFICES ASSUME QTypeOK, AdmittedInv, [QNext]_qvars
               PROVE  AdmittedInv'
    OBVIOUS
  <2> USE DEF AdmittedInv
  <2>0. /\ seen \in [Items -> Queue] /\ succeeded \in [Items -> Nat]
        /\ \A d \in Calls : drains[d].todo \in Queue /\ drains[d].remaining \in Queue
        /\ \A q \in ReadQueue : IdsOf(q) \subseteq admitted
    BY EmptyIds DEF QTypeOK, ReadQueue
  <2>1. CASE EnqueueRead
    <3>1. nItems + 1 \notin admitted
      BY DEF QTypeOK
    <3>2. PICK q \in ReadQueue : seen' = [seen EXCEPT ![nItems + 1] = q]
      BY <2>1 DEF EnqueueRead
    <3>3. /\ enqueuing' = enqueuing \cup {nItems + 1}
          /\ UNCHANGED <<store, drains, admitted, succeeded>>
      BY <2>1 DEF EnqueueRead
    <3> QED
      BY <2>0, <3>1, <3>2, <3>3
  <2>2. ASSUME NEW i \in Items, EnqueueWrite(i) PROVE AdmittedInv'
    <3> DEFINE e == [id |-> i, retryCount |-> 0]
    <3>1. e \in Entry /\ e.id = i
      BY DEF Entry
    <3>2. /\ UNCHANGED <<succeeded, drains>>
          /\ seen' = [seen EXCEPT ![i] = <<>>]
          /\ store' \in {store, Newest(Append(seen[i], e))}
          /\ admitted' = admitted \cup (IdsOf(store') \cap {i})
          /\ enqueuing' = enqueuing \ {i}
      BY <2>2 DEF EnqueueWrite, WriteQueue
    <3> HIDE DEF e
    <3>3. /\ Append(seen[i], e) \in Queue
          /\ IdsOf(Append(seen[i], e)) = IdsOf(seen[i]) \cup {i}
      BY <2>0, <3>1, AppendIds
    <3>4. IdsOf(Newest(Append(seen[i], e))) \subseteq IdsOf(seen[i]) \cup {i}
      BY <3>3, CutIds
    <3>5. IdsOf(store') \subseteq admitted'
      BY <3>2, <3>4
    <3> QED
      BY <2>0, <3>2, <3>5, EmptyIds
  <2>3. CASE Clear
    BY <2>3, EmptyIds DEF Clear
  <2>4. CASE DrainRead
    <3>1. PICK q \in ReadQueue :
            drains' = [drains EXCEPT ![nDrains + 1] =
                         [pc |-> IF q = <<>> THEN "empty" ELSE "run",
                          todo |-> q, remaining |-> <<>>]]
      BY <2>4 DEF DrainRead
    <3>2. ASSUME NEW d \in Calls
          PROVE  \/ drains'[d] = drains[d]
                 \/ drains'[d].todo = q /\ drains'[d].remaining = <<>>
      BY <3>1 DEF QTypeOK
    <3>3. UNCHANGED <<store, seen, enqueuing, admitted, succeeded>>
      BY <2>4 DEF DrainRead
    <3> QED
      BY <2>0, <3>2, <3>3, EmptyIds
  <2>5. ASSUME NEW d \in Calls, Drain(d) PROVE AdmittedInv'
    <3> DEFINE todo == drains[d].todo
               remaining == drains[d].remaining
    <3>0. /\ todo \in Queue /\ IdsOf(todo) \subseteq admitted
          /\ remaining \in Queue /\ IdsOf(remaining) \subseteq admitted
      BY <2>0
    <3>1. UNCHANGED <<seen, enqueuing, admitted>> /\ \A c \in Calls \ {d} : drains'[c] = drains[c]
      BY <2>5 DEF Drain, ExecuteResolves, ExecuteRejects, DrainWrite,
                  DrainUnlock, QTypeOK
    <3>2. CASE ExecuteResolves(d)
      <4>1. /\ todo # <<>> /\ UNCHANGED store
            /\ drains'[d].todo = Tail(todo) /\ drains'[d].remaining = remaining
            /\ succeeded' = [succeeded EXCEPT ![Head(todo).id] = @ + 1]
        BY <3>2 DEF ExecuteResolves, QTypeOK
      <4>2. IdsOf(todo) = {Head(todo).id} \cup IdsOf(Tail(todo))
        BY <3>0, <4>1, TailIds
      <4>3. Head(todo).id \in admitted /\ IdsOf(Tail(todo)) \subseteq admitted
        BY <3>0, <4>2
      <4> HIDE DEF todo, remaining
      <4>4. \A i \in Items : i # Head(todo).id => succeeded'[i] = succeeded[i]
        BY <2>0, <4>1
      <4> QED
        BY <3>0, <3>1, <4>1, <4>3, <4>4
    <3>3. CASE ExecuteRejects(d)
      <4> DEFINE e == [Head(todo) EXCEPT !.retryCount = @ + 1]
      <4>1. /\ todo # <<>> /\ UNCHANGED <<store, succeeded>>
            /\ drains'[d].todo = Tail(todo)
            /\ drains'[d].remaining = Append(remaining, e)
        BY <3>3 DEF ExecuteRejects, QTypeOK
      <4>2. Head(todo) \in Entry /\ IdsOf(todo) = {Head(todo).id} \cup IdsOf(Tail(todo))
        BY <3>0, <4>1, TailIds
      <4>3. e \in Entry /\ e.id = Head(todo).id
        BY <4>2 DEF Entry
      <4> HIDE DEF e, todo, remaining
      <4>4. IdsOf(Append(remaining, e)) = IdsOf(remaining) \cup {e.id}
        BY <3>0, <4>3, AppendIds
      <4> QED
        BY <3>0, <3>1, <4>1, <4>2, <4>3, <4>4
    <3>4. CASE DrainWrite(d)
      <4>1. /\ store' \in {store, remaining} /\ UNCHANGED succeeded
            /\ drains'[d].todo = <<>> /\ drains'[d].remaining = <<>>
        BY <3>4 DEF DrainWrite, WriteQueue, Idle, QTypeOK
      <4> HIDE DEF todo, remaining
      <4> QED
        BY <3>0, <3>1, <4>1, EmptyIds
    <3>5. CASE DrainUnlock(d)
      <4>1. /\ UNCHANGED <<store, succeeded>>
            /\ drains'[d].todo = <<>> /\ drains'[d].remaining = <<>>
        BY <3>5 DEF DrainUnlock, Idle, QTypeOK
      <4> QED
        BY <3>1, <4>1, EmptyIds
    <3> QED
      BY <2>5, <3>2, <3>3, <3>4, <3>5 DEF Drain
  <2>6. CASE Crash
    <3>1. /\ \A d \in Calls : drains'[d].todo = <<>> /\ drains'[d].remaining = <<>>
          /\ \A i \in Items : seen'[i] = <<>>
          /\ enqueuing' = {}
          /\ UNCHANGED <<store, admitted, succeeded>>
      BY <2>6 DEF Crash, Idle
    <3> QED
      BY <3>1, EmptyIds
  <2>7. CASE UNCHANGED <<store, seen, enqueuing, drains, admitted, succeeded>>
    BY <2>7
  <2> QED
    BY <2>1, <2>2, <2>3, <2>4, <2>5, <2>6, <2>7 DEF QNext, qvars, DrainSkip
<1> QED
  BY <1>1, <1>2, TypeCorrect, PTL DEF QSpec

-----------------------------------------------------------------------------
(* Durable and SucceedsOncePerLapse hold while calls are awaited one by    *)
(* one; what makes them inductive is that a copy of the queue then is the  *)
(* queue.                                                                  *)

(* Every item that was stored is still stored, executed, or discarded.     *)
Kept == \A i \in admitted : i \in IdsOf(store) \/ succeeded[i] > 0 \/ i \in gone

(* What an enqueue has read, and what a drain has still to try, has kept   *)
(* or has executed, are all that is stored.                                *)
CopiesAreWhole ==
    /\ \A i \in enqueuing : IdsOf(store) \subseteq IdsOf(seen[i])
    /\ \A d \in Calls : drains[d].pc = "run" =>
          \A i \in IdsOf(store) :
              i \in IdsOf(drains[d].todo) \cup IdsOf(drains[d].remaining) \/ succeeded[i] > 0

(* What is stored, unless a drain is about to replace it, and what an      *)
(* enqueue or a drain would store, has been executed once for each lapse.  *)
OncePerLapse ==
    /\ \A i \in Items : succeeded[i] <= 1 + lapses
    /\ (\A d \in Calls : drains[d].pc # "run") => \A i \in IdsOf(store) : succeeded[i] <= lapses
    /\ \A d \in Calls : drains[d].pc = "run" =>
          \A i \in IdsOf(drains[d].todo) \cup IdsOf(drains[d].remaining) : succeeded[i] <= lapses
    /\ \A i \in enqueuing : \A j \in IdsOf(seen[i]) : succeeded[j] <= lapses

Awaited == Kept /\ CopiesAreWhole /\ OncePerLapse

AwaitedInv == spoilt \/ (~Overlapping /\ Awaited)

(* Without an overlap, an enqueue is the only call that runs. *)
LEMMA AtMostOne ==
    ASSUME NEW n \in Nat, NEW S \in SUBSET (1 .. n), NEW i \in S,
           NEW m \in Nat, NEW T \in SUBSET (1 .. m),
           ~(Cardinality(S) + Cardinality(T) > 1)
    PROVE  S = {i} /\ T = {}
<1>1. IsFiniteSet(1 .. n) /\ IsFiniteSet(1 .. m)
  BY FS_Interval, 1 \in Int, n \in Int, m \in Int
<1>2. IsFiniteSet(S) /\ IsFiniteSet(T)
  BY <1>1, FS_Subset
<1>3. Cardinality(S) \in Nat /\ Cardinality(T) \in Nat
  BY <1>2, FS_CardinalityType
<1>4. Cardinality(S) # 0
  BY <1>2, FS_EmptySet
<1>5. Cardinality(T) = 0 /\ Cardinality(S) = 1
  BY <1>3, <1>4
<1> QED
  BY <1>2, <1>5, FS_EmptySet, FS_Singleton

LEMMA Alone ==
    ASSUME QTypeOK, ~Overlapping, NEW i \in enqueuing
    PROVE  enqueuing = {i} /\ Active = {}
<1>1. /\ nItems \in Nat /\ enqueuing \in SUBSET (1 .. nItems)
      /\ MaxDrains \in Nat /\ Active \in SUBSET (1 .. MaxDrains)
  BY OfflineQueueAssumption DEF QTypeOK, Active, Calls
<1> QED
  BY <1>1, AtMostOne DEF Overlapping

LEMMA AloneThen ==
    ASSUME QTypeOK', ~Overlapping', NEW i \in enqueuing'
    PROVE  enqueuing' = {i} /\ Active' = {}
<1>1. /\ nItems' \in Nat /\ enqueuing' \in SUBSET (1 .. nItems')
      /\ MaxDrains \in Nat /\ Active' \in SUBSET (1 .. MaxDrains)
  BY OfflineQueueAssumption DEF QTypeOK, Active, Calls
<1> QED
  BY <1>1, AtMostOne DEF Overlapping

(* A step of the queue that overlaps nothing and misreads nothing keeps    *)
(* it.  A failed write and a kill are each a lapse, and allow one more     *)
(* execution of what they bring back.                                      *)
LEMMA AwaitedStep ==
    ASSUME QTypeOK, OneDrainAtATime, OrderInv, AdmittedInv, Awaited, ~Overlapping,
           QTypeOK', ~Overlapping', ~Misread', [QNext]_qvars
    PROVE  Awaited'
<1> USE DEF Awaited
<1>0. /\ store \in Queue /\ seen \in [Items -> Queue] /\ lapses \in Nat
      /\ succeeded \in [Items -> Nat]
      /\ \A d \in Calls : drains[d].todo \in Queue /\ drains[d].remaining \in Queue
      /\ enqueuing \subseteq Items /\ admitted \subseteq Items
      /\ IdsOf(store) \subseteq Items
  <2>1. nItems \in 0 .. MaxItems /\ enqueuing \subseteq 1 .. nItems /\ admitted \subseteq 1 .. nItems
        /\ store \in Queue
    BY DEF QTypeOK
  <2>2. enqueuing \subseteq Items /\ admitted \subseteq Items
    BY <2>1, OfflineQueueAssumption DEF Items
  <2>3. lapses \in Nat
    BY OfflineQueueAssumption DEF QTypeOK
  <2> QED
    BY <2>1, <2>2, <2>3, QueueIds DEF QTypeOK
<1>1. \A i \in enqueuing : /\ enqueuing = {i}
                           /\ \A d \in Calls : drains[d].pc \notin {"run", "empty", "wrote"}
  BY Alone DEF Active
<1>2. \A d \in Calls : drains[d].pc \in {"run", "empty", "wrote"} =>
         /\ enqueuing = {}
         /\ \A c \in Calls \ {d} : drains[c].pc \notin {"run", "empty", "wrote"}
  BY <1>1 DEF OneDrainAtATime, Active
<1>3. CASE EnqueueRead
  <2> DEFINE n == nItems + 1
  <2>1. PICK q \in ReadQueue : seen' = [seen EXCEPT ![n] = q]
    BY <1>3 DEF EnqueueRead
  <2>2. /\ enqueuing' = enqueuing \cup {n}
        /\ UNCHANGED <<store, drains, admitted, succeeded, gone, lapses>>
    BY <1>3 DEF EnqueueRead
  <2>3. n \in Items /\ enqueuing' \subseteq Items
    BY <1>0, <1>3, <2>2, OfflineQueueAssumption DEF EnqueueRead, Items, QTypeOK
  <2> HIDE DEF n
  <2>4. enqueuing' = {n} /\ Active' = {}
    <3>1. n \in enqueuing'
      BY <2>2
    <3> QED
      BY <3>1, AloneThen
  <2>5. \A d \in Calls : drains[d].pc # "run"
    BY <2>2, <2>4 DEF Active
  <2>6. seen'[n] = q /\ q = store
    <3>1. seen'[n] = q
      BY <1>0, <2>1, <2>3
    <3> QED
      BY <2>1, <2>2, <2>4, <3>1 DEF Misread, ReadQueue
  <2>7. Kept' /\ CopiesAreWhole'
    BY <2>2, <2>4, <2>5, <2>6 DEF Kept, CopiesAreWhole
  <2>8. OncePerLapse'
    BY <2>2, <2>4, <2>5, <2>6 DEF OncePerLapse
  <2> QED
    BY <2>7, <2>8
<1>4. ASSUME NEW i \in Items, EnqueueWrite(i) PROVE Awaited'
  <2> DEFINE e == [id |-> i, retryCount |-> 0]
             appended == Append(seen[i], e)
             updated == Newest(appended)
  <2>1. /\ i \in enqueuing /\ enqueuing' = {}
        /\ \A d \in Calls : drains[d].pc # "run"
        /\ UNCHANGED <<succeeded, drains>>
        /\ WriteQueue(updated)
        /\ gone' = gone \cup (IdsOf(appended) \ (IdsOf(updated) \cup IdsOf(store')))
        /\ admitted' = admitted \cup (IdsOf(store') \cap {i})
    BY <1>1, <1>4 DEF EnqueueWrite
  <2>2. e \in Entry /\ e.id = i
    BY DEF Entry
  <2> HIDE DEF e
  <2>3. appended \in Queue /\ IdsOf(appended) = IdsOf(seen[i]) \cup {i}
    BY <1>0, <2>2, AppendIds
  <2>4. IdsOf(updated) \subseteq IdsOf(appended)
    BY <2>3, CutIds
  <2>5. i \notin admitted /\ succeeded[i] = 0
    BY <1>0, <2>1 DEF AdmittedInv
  <2>6. \A j \in IdsOf(appended) : succeeded[j] <= lapses
    BY <1>0, <2>1, <2>3, <2>5 DEF OncePerLapse
  <2> HIDE DEF appended, updated
  <2>7. CASE store' = updated /\ UNCHANGED lapses
    <3>1. Kept'
      BY <2>1, <2>3, <2>7 DEF Kept, CopiesAreWhole
    <3>2. CopiesAreWhole'
      BY <2>1 DEF CopiesAreWhole
    <3>3. OncePerLapse'
      BY <2>1, <2>4, <2>6, <2>7 DEF OncePerLapse
    <3> QED
      BY <3>1, <3>2, <3>3
  <2>8. CASE UNCHANGED store /\ lapses' = lapses + 1
    <3>1. Kept'
      BY <2>1, <2>8 DEF Kept
    <3>2. CopiesAreWhole'
      BY <2>1 DEF CopiesAreWhole
    <3>3. OncePerLapse'
      BY <1>0, <2>1, <2>8 DEF OncePerLapse
    <3> QED
      BY <3>1, <3>2, <3>3
  <2> QED
    BY <2>1, <2>7, <2>8 DEF WriteQueue
<1>5. CASE Clear
  <2>1. /\ IdsOf(store') = {} /\ gone' = gone \cup IdsOf(store)
        /\ UNCHANGED <<seen, enqueuing, drains, admitted, succeeded, lapses>>
    BY <1>5, EmptyIds DEF Clear
  <2> QED
    BY <2>1 DEF Kept, CopiesAreWhole, OncePerLapse
<1>6. CASE UNCHANGED <<store, seen, enqueuing, drains, admitted, succeeded, gone, lapses>>
  BY <1>6 DEF Kept, CopiesAreWhole, OncePerLapse
<1>7. CASE DrainRead
  <2> DEFINE d == nDrains + 1
  <2>1. PICK q \in ReadQueue :
          drains' = [drains EXCEPT ![d] = [pc |-> IF q = <<>> THEN "empty" ELSE "run",
                                           todo |-> q, remaining |-> <<>>]]
    BY <1>7 DEF DrainRead
  <2>2. /\ UNCHANGED <<store, seen, enqueuing, admitted, succeeded, gone, lapses>>
        /\ d \in Calls
        /\ \A c \in Calls : drains[c].pc # "run"
    BY <1>7, OfflineQueueAssumption DEF DrainRead, OneDrainAtATime, Active, QTypeOK, Calls
  <2> HIDE DEF d
  <2>3. /\ drains'[d].pc = IF q = <<>> THEN "empty" ELSE "run"
        /\ drains'[d].todo = q /\ drains'[d].remaining = <<>>
        /\ \A c \in Calls \ {d} : drains'[c] = drains[c]
    BY <2>1, <2>2 DEF QTypeOK
  <2>4. enqueuing = {}
    <3>1. d \in Active'
      BY <2>2, <2>3 DEF Active
    <3>2. \A i \in enqueuing' : Active' = {}
      BY AloneThen
    <3> QED
      BY <2>2, <3>1, <3>2
  <2>5. q # <<>> => q = store
    BY <2>1 DEF ReadQueue
  <2>6. Kept'
    BY <2>2 DEF Kept
  <2>7. CopiesAreWhole'
    BY <2>2, <2>3, <2>4, <2>5 DEF CopiesAreWhole
  <2>8. OncePerLapse'
    BY <2>2, <2>3, <2>4, <2>5, EmptyIds DEF OncePerLapse
  <2> QED
    BY <2>6, <2>7, <2>8
<1>8. ASSUME NEW d \in Calls, Drain(d) PROVE Awaited'
  <2> DEFINE todo == drains[d].todo
             remaining == drains[d].remaining
  <2>0. /\ todo \in Queue /\ Increasing(todo) /\ remaining \in Queue
        /\ \A k \in 1 .. Len(todo) : Below(remaining, todo[k].id)
    BY <1>0 DEF OrderInv, CallInOrder
  <2>1. /\ UNCHANGED <<seen, enqueuing, admitted, gone>>
        /\ \A c \in Calls \ {d} : drains'[c] = drains[c]
    BY <1>8 DEF Drain, ExecuteResolves, ExecuteRejects, DrainWrite, DrainUnlock, QTypeOK
  <2>2. /\ drains[d].pc \in {"run", "empty", "wrote"} /\ enqueuing = {}
        /\ \A c \in Calls \ {d} : drains[c].pc # "run"
    BY <1>2, <1>8 DEF Drain, ExecuteResolves, ExecuteRejects, DrainWrite, DrainUnlock
  <2>3. CASE ExecuteResolves(d)
    <3> DEFINE h == Head(todo).id
    <3>1. /\ todo # <<>> /\ UNCHANGED <<store, lapses>>
          /\ drains[d].pc = "run" /\ drains'[d].pc = "run"
          /\ drains'[d].todo = Tail(todo) /\ drains'[d].remaining = remaining
          /\ succeeded' = [succeeded EXCEPT ![h] = @ + 1]
      BY <2>3 DEF ExecuteResolves, QTypeOK
    <3>2. /\ IdsOf(todo) = {h} \cup IdsOf(Tail(todo))
          /\ h \notin IdsOf(Tail(todo)) /\ h \in Items
      BY <2>0, <3>1, TailIds DEF Entry
    <3>3. h \notin IdsOf(remaining)
      <4>1. /\ Head(todo) = todo[1] /\ 1 \in 1 .. Len(todo)
            /\ h \in Int
        BY <2>0, <3>1, <3>2, TailKeepsOrder, 0 \in Int, OfflineQueueAssumption DEF Items
      <4>2. Below(remaining, h)
        BY <2>0, <4>1
      <4> QED
        BY <4>1, <4>2, BelowIds
    <3>4. IdsOf(remaining) \subseteq Items /\ IdsOf(Tail(todo)) \subseteq Items
      <4>1. IdsOf(todo) \subseteq Items /\ IdsOf(remaining) \subseteq Items
        BY <2>0, QueueIds
      <4> QED
        BY <3>2, <4>1
    <3> HIDE DEF h, todo, remaining
    <3>5. /\ succeeded' \in [Items -> Nat] /\ succeeded'[h] = succeeded[h] + 1
          /\ \A i \in Items \ {h} : succeeded'[i] = succeeded[i]
          /\ \A i \in Items : succeeded[i] \in Nat /\ (succeeded[i] > 0 => succeeded'[i] > 0)
      BY <1>0, <3>1, <3>2
    <3>6. Kept'
      BY <1>0, <2>1, <3>1, <3>5 DEF Kept
    <3>7. CopiesAreWhole'
      <4>1. \A i \in IdsOf(store) :
               i \in IdsOf(todo) \cup IdsOf(remaining) \/ succeeded[i] > 0
        BY <3>1 DEF CopiesAreWhole, todo, remaining
      <4>2. \A i \in IdsOf(store) :
               i \in IdsOf(Tail(todo)) \cup IdsOf(remaining) \/ succeeded'[i] > 0
        BY <1>0, <3>2, <3>5, <4>1
      <4> QED
        BY <2>1, <2>2, <3>1, <4>2 DEF CopiesAreWhole
    <3>8. OncePerLapse'
      <4>1. \A i \in IdsOf(todo) \cup IdsOf(remaining) : succeeded[i] <= lapses
        BY <3>1 DEF OncePerLapse, todo, remaining
      <4>2. \A i \in IdsOf(Tail(todo)) \cup IdsOf(remaining) : succeeded'[i] <= lapses
        BY <3>2, <3>3, <3>4, <3>5, <4>1
      <4>3. \A i \in Items : succeeded'[i] <= 1 + lapses
        BY <1>0, <3>2, <3>5, <4>1 DEF OncePerLapse
      <4> QED
        BY <2>1, <2>2, <3>1, <4>2, <4>3 DEF OncePerLapse
    <3> QED
      BY <3>6, <3>7, <3>8
  <2>4. CASE ExecuteRejects(d)
    <3> DEFINE e == [Head(todo) EXCEPT !.retryCount = @ + 1]
    <3>1. /\ todo # <<>> /\ UNCHANGED <<store, succeeded, lapses>>
          /\ drains[d].pc = "run" /\ drains'[d].pc = "run"
          /\ drains'[d].todo = Tail(todo)
          /\ drains'[d].remaining = Append(remaining, e)
      BY <2>4 DEF ExecuteRejects, QTypeOK
    <3>2. Head(todo) \in Entry /\ IdsOf(todo) = {Head(todo).id} \cup IdsOf(Tail(todo))
      BY <2>0, <3>1, TailIds
    <3>3. e \in Entry /\ e.id = Head(todo).id
      BY <3>2 DEF Entry
    <3> HIDE DEF e, todo, remaining
    <3>4. IdsOf(Append(remaining, e)) = IdsOf(remaining) \cup {e.id}
      BY <2>0, <3>3, AppendIds
    <3>5. IdsOf(drains'[d].todo) \cup IdsOf(drains'[d].remaining)
             = IdsOf(drains[d].todo) \cup IdsOf(drains[d].remaining)
      BY <3>1, <3>2, <3>3, <3>4 DEF todo, remaining
    <3>6. Kept'
      BY <2>1, <3>1 DEF Kept
    <3>7. CopiesAreWhole'
      BY <2>1, <2>2, <3>1, <3>5 DEF CopiesAreWhole
    <3>8. OncePerLapse'
      BY <2>1, <2>2, <3>1, <3>5 DEF OncePerLapse
    <3> QED
      BY <3>6, <3>7, <3>8
  <2>5. CASE DrainWrite(d)
    <3>1. /\ todo = <<>> /\ WriteQueue(remaining) /\ UNCHANGED succeeded
          /\ drains[d].pc = "run" /\ drains'[d].pc = "wrote"
      BY <2>5 DEF DrainWrite, Idle, QTypeOK
    <3>2. \A c \in Calls : drains'[c].pc # "run"
      BY <2>1, <2>2, <3>1
    <3>3. \A i \in IdsOf(store) : i \in IdsOf(remaining) \/ succeeded[i] > 0
      BY <3>1, EmptyIds DEF CopiesAreWhole
    <3>4. \A i \in IdsOf(remaining) : succeeded[i] <= lapses
      BY <3>1 DEF OncePerLapse
    <3>5. CopiesAreWhole'
      BY <2>1, <2>2, <3>2 DEF CopiesAreWhole
    <3> HIDE DEF todo, remaining
    <3>6. CASE store' = remaining /\ UNCHANGED lapses
      <4>1. Kept'
        BY <2>1, <3>1, <3>3, <3>6 DEF Kept
      <4>2. OncePerLapse'
        BY <2>1, <2>2, <3>1, <3>2, <3>4, <3>6 DEF OncePerLapse
      <4> QED
        BY <3>5, <4>1, <4>2
    <3>7. CASE UNCHANGED store /\ lapses' = lapses + 1
      <4>1. Kept'
        BY <2>1, <3>1, <3>7 DEF Kept
      <4>2. OncePerLapse'
        BY <1>0, <2>1, <2>2, <3>1, <3>2, <3>7 DEF OncePerLapse
      <4> QED
        BY <3>5, <4>1, <4>2
    <3> QED
      BY <3>1, <3>6, <3>7 DEF WriteQueue
  <2>6. CASE DrainUnlock(d)
    <3>1. /\ UNCHANGED <<store, succeeded, lapses>>
          /\ drains[d].pc # "run" /\ drains'[d].pc # "run"
      BY <2>6 DEF DrainUnlock, Idle, QTypeOK
    <3> QED
      BY <2>1, <2>2, <3>1 DEF Kept, CopiesAreWhole, OncePerLapse
  <2> QED
    BY <1>8, <2>3, <2>4, <2>5, <2>6 DEF Drain
<1>9. CASE Crash
  <2>1. /\ UNCHANGED <<store, admitted, succeeded, gone>>
        /\ lapses' = lapses + 1 /\ enqueuing' = {}
        /\ \A d \in Calls : drains'[d].pc # "run"
    BY <1>9 DEF Crash, Idle
  <2>2. Kept' /\ CopiesAreWhole'
    BY <2>1 DEF Kept, CopiesAreWhole
  <2>3. OncePerLapse'
    BY <1>0, <2>1 DEF OncePerLapse
  <2> QED
    BY <2>2, <2>3
<1> QED
  BY <1>3, <1>4, <1>5, <1>6, <1>7, <1>8, <1>9 DEF QNext, qvars, DrainSkip

(* While calls are awaited one by one, no copy of the queue is stale.      *)
THEOREM AwaitedInvariant == Spec => []AwaitedInv
<1> DEFINE Known == QTypeOK /\ OneDrainAtATime /\ OrderInv /\ AdmittedInv
<1>1. Init => AwaitedInv
  <2> SUFFICES ASSUME Init PROVE ~Overlapping /\ Awaited
    BY DEF AwaitedInv
  <2>1. /\ store = <<>> /\ enqueuing = {} /\ admitted = {} /\ lapses = 0
        /\ succeeded = [i \in Items |-> 0]
        /\ \A d \in Calls : drains[d].pc = "idle"
    BY DEF Init, QInit, Idle
  <2>2. Active = {}
    BY <2>1 DEF Active
  <2>3. ~Overlapping
    BY <2>1, <2>2, FS_EmptySet DEF Overlapping
  <2>4. Awaited
    BY <2>1, EmptyIds DEF Awaited, Kept, CopiesAreWhole, OncePerLapse
  <2> QED
    BY <2>3, <2>4
<1>2. Known /\ Known' /\ AwaitedInv /\ [QNext]_qvars /\ [Next]_vars => AwaitedInv'
  <2> SUFFICES ASSUME Known, Known', AwaitedInv, [QNext]_qvars, [Next]_vars, ~spoilt'
               PROVE  ~Overlapping' /\ Awaited'
    BY DEF AwaitedInv
  <2>1. CASE Next
    <3>1. ~spoilt /\ ~Overlapping' /\ ~Misread'
      BY <2>1, Zenon DEF Next
    <3>2. ~Overlapping /\ Awaited
      BY <3>1 DEF AwaitedInv
    <3> QED
      BY <3>1, <3>2, AwaitedStep
  <2>2. CASE UNCHANGED vars
    <3>1. ~Overlapping /\ Awaited
      BY <2>2 DEF AwaitedInv, vars
    <3> QED
      BY <2>2, <3>1
      DEF vars, qvars, Overlapping, Active, Awaited, Kept, CopiesAreWhole, OncePerLapse
  <2> QED
    BY <2>1, <2>2
<1>3. [Next]_vars => [QNext]_qvars
  BY StepsAreQueueSteps
<1> QED
  BY <1>1, <1>2, <1>3, HookImplementsQueue, TypeCorrect, DrainsAreExclusive,
     OrderInvariant, AdmittedInvariant, PTL DEF Spec

(* A queued mutation is not lost: once stored it stays stored until it has *)
(* been executed, evicted or cleared, if calls are awaited one by one, and *)
(* whatever is killed and whichever writes fail.                           *)
THEOREM MutationsAreDurable == Spec => []Durable
<1>1. AwaitedInv => Durable
  BY Zenon DEF AwaitedInv, Awaited, Kept, Durable
<1> QED
  BY <1>1, AwaitedInvariant, PTL

(* Each kill and each failed write lets an item succeed once more, nothing *)
(* else does, if calls are awaited one by one.                             *)
THEOREM RepeatsAreLapses == Spec => []SucceedsOncePerLapse
<1>1. AwaitedInv => SucceedsOncePerLapse
  BY Zenon DEF AwaitedInv, Awaited, OncePerLapse, SucceedsOncePerLapse
<1> QED
  BY <1>1, AwaitedInvariant, PTL
===============================================================================
