---------------------------- MODULE OfflineQueue ----------------------------
(***************************************************************************)
(* The offline mutation queue of the mobile app                            *)
(* (mobile/services/offline-queue/index.ts): one AsyncStorage key that     *)
(* enqueue and drain read, change in memory and write back.  Every await   *)
(* is a point where another call may run, so a read and the write that     *)
(* follows it are two steps.  AsyncStorage serves its calls in order: a    *)
(* getItem or a setItem takes effect at the step that issues it.           *)
(*                                                                         *)
(* Items are numbered in the order generateId() creates them, drain calls  *)
(* in the order they are made; a payload is never looked at.               *)
(***************************************************************************)
EXTENDS Integers, Sequences, FiniteSets

CONSTANTS
    MaxItems,      \* bound: how many mutations are ever enqueued
    MaxDrains,     \* bound: how many times drain() is ever called
    MaxLapses,     \* bound: how often a kill or a failed write happens
    MaxQueueSize,  \* MAX_QUEUE_SIZE
    Overlap,       \* TRUE: calls may overlap; FALSE: each is awaited first,
                   \* but for a drain during a drain
    Crashes,       \* TRUE: the process may be killed
    ReadFaults,    \* TRUE: getItem may reject
    WriteFaults    \* TRUE: setItem may reject

ASSUME OfflineQueueAssumption ==
    /\ {MaxItems, MaxDrains, MaxLapses} \subseteq Nat
    /\ MaxQueueSize \in Nat \ {0}
    /\ {Overlap, Crashes, ReadFaults, WriteFaults} \subseteq BOOLEAN

VARIABLES
    store,      \* what AsyncStorage holds under QUEUE_KEY
    draining,   \* _draining
    nItems,     \* mutations created so far
    seen,       \* seen[i]: the queue enqueue(i) read, while it is running
    enqueuing,  \* the items whose enqueue() is running
    nDrains,    \* drain() calls made so far
    drains,     \* drains[d]: the local state of drain call d
    admitted,   \* items some write has put into the stored queue
    succeeded,  \* succeeded[i]: executions of i that resolved
    rejected,   \* rejected[i]: executions of i that rejected
    gone,       \* items evicted by the size limit or discarded by clearQueue
    lapses      \* history: kills and failed writes so far

qvars == <<store, draining, nItems, seen, enqueuing, nDrains, drains,
           admitted, succeeded, rejected, gone, lapses>>

Items == 1 .. MaxItems
Calls == 1 .. MaxDrains

Entry == [id : Items, retryCount : Nat]
Queue == Seq(Entry)

Idle == [pc |-> "idle", todo |-> <<>>, remaining |-> <<>>]

IdsOf(q) == {q[k].id : k \in 1 .. Len(q)}

-----------------------------------------------------------------------------
(* readQueue and writeQueue: an error is caught and reads as an empty      *)
(* queue, or leaves the stored one as it was.                              *)
ReadQueue == {store} \cup (IF ReadFaults THEN {<<>>} ELSE {})

WriteQueue(q) ==
    \/ store' = q /\ UNCHANGED lapses
    \/ WriteFaults /\ lapses < MaxLapses
       /\ lapses' = lapses + 1 /\ UNCHANGED store

Newest(q) ==
    IF Len(q) <= MaxQueueSize THEN q
    ELSE SubSeq(q, Len(q) - MaxQueueSize + 1, Len(q))

Active == {d \in Calls : drains[d].pc \in {"run", "empty", "wrote"}}

MayCall == Overlap \/ (enqueuing = {} /\ Active = {})

QInit ==
    /\ store = <<>> /\ draining = FALSE
    /\ nItems = 0 /\ seen = [i \in Items |-> <<>>] /\ enqueuing = {}
    /\ nDrains = 0 /\ drains = [d \in Calls |-> Idle]
    /\ admitted = {} /\ gone = {}
    /\ succeeded = [i \in Items |-> 0]
    /\ rejected = [i \in Items |-> 0]
    /\ lapses = 0

-----------------------------------------------------------------------------
(* enqueue(): a new item, and the read its append is based on. *)
EnqueueRead ==
    /\ MayCall /\ nItems < MaxItems
    /\ nItems' = nItems + 1
    /\ enqueuing' = enqueuing \cup {nItems + 1}
    /\ \E q \in ReadQueue : seen' = [seen EXCEPT ![nItems + 1] = q]
    /\ UNCHANGED <<store, draining, nDrains, drains, admitted, succeeded,
                   rejected, gone, lapses>>

(* mutated (as are the forms so marked below: slips the code could well    *)
(* contain, each breaks a property, the specification uses none):          *)
(* [item, ...current]                                                      *)
EnqueueWriteFirst(i) ==
    LET updated == Newest(<<[id |-> i, retryCount |-> 0]>> \o seen[i])
    IN  /\ i \in enqueuing
        /\ WriteQueue(updated)
        /\ admitted' = admitted \cup (IdsOf(store') \cap {i})
        /\ enqueuing' = enqueuing \ {i}
        /\ seen' = [seen EXCEPT ![i] = <<>>]
        /\ UNCHANGED <<draining, nItems, nDrains, drains, succeeded, rejected, gone>>

(* ... the append, the cut to the newest MaxQueueSize, the write. *)
EnqueueWrite(i) ==
    LET appended == Append(seen[i], [id |-> i, retryCount |-> 0])
        updated  == Newest(appended)
    IN  /\ i \in enqueuing
        /\ WriteQueue(updated)
        /\ gone' = gone \cup (IdsOf(appended) \ (IdsOf(updated) \cup IdsOf(store')))
        /\ admitted' = admitted \cup (IdsOf(store') \cap {i})
        /\ enqueuing' = enqueuing \ {i}
        /\ seen' = [seen EXCEPT ![i] = <<>>]
        /\ UNCHANGED <<draining, nItems, nDrains, drains, succeeded, rejected>>

(* clearQueue() *)
Clear ==
    /\ MayCall /\ store # <<>>
    /\ store' = <<>>
    /\ gone' = gone \cup IdsOf(store)
    /\ UNCHANGED <<draining, nItems, seen, enqueuing, nDrains, drains,
                   admitted, succeeded, rejected, lapses>>

-----------------------------------------------------------------------------
(* drain() while another drain holds the lock returns at once. *)
DrainSkip ==
    /\ nDrains < MaxDrains /\ draining
    /\ nDrains' = nDrains + 1
    /\ UNCHANGED <<store, draining, nItems, seen, enqueuing, drains,
                   admitted, succeeded, rejected, gone, lapses>>

(* drain() takes the lock and reads the queue. *)
DrainRead ==
    /\ MayCall /\ nDrains < MaxDrains /\ ~draining
    /\ draining' = TRUE
    /\ nDrains' = nDrains + 1
    /\ \E q \in ReadQueue :
          drains' = [drains EXCEPT ![nDrains + 1] =
                       [pc |-> IF q = <<>> THEN "empty" ELSE "run",
                        todo |-> q, remaining |-> <<>>]]
    /\ UNCHANGED <<store, nItems, seen, enqueuing, admitted, succeeded,
                   rejected, gone, lapses>>

(* mutated: `remaining` keeps the item all the same *)
ExecuteResolvesButStays(d) ==
    /\ drains[d].pc = "run" /\ drains[d].todo # <<>>
    /\ succeeded' = [succeeded EXCEPT ![Head(drains[d].todo).id] = @ + 1]
    /\ drains' = [drains EXCEPT ![d] =
         [@ EXCEPT !.todo = Tail(@),
                   !.remaining = Append(@, Head(drains[d].todo))]]
    /\ UNCHANGED <<store, draining, nItems, seen, enqueuing, nDrains,
                   admitted, rejected, gone, lapses>>

(* executor(item) resolves: the item is left out of `remaining`. *)
ExecuteResolves(d) ==
    /\ drains[d].pc = "run" /\ drains[d].todo # <<>>
    /\ succeeded' = [succeeded EXCEPT ![Head(drains[d].todo).id] = @ + 1]
    /\ drains' = [drains EXCEPT ![d].todo = Tail(@)]
    /\ UNCHANGED <<store, draining, nItems, seen, enqueuing, nDrains,
                   admitted, rejected, gone, lapses>>

(* mutated: retryCount is raised in the item and again in its copy *)
ExecuteRejectsTwice(d) ==
    LET item == Head(drains[d].todo)
    IN  /\ drains[d].pc = "run" /\ drains[d].todo # <<>>
        /\ rejected' = [rejected EXCEPT ![item.id] = @ + 1]
        /\ drains' = [drains EXCEPT ![d] =
             [pc |-> "run", todo |-> Tail(@.todo),
              remaining |-> Append(@.remaining,
                 [item EXCEPT !.retryCount = @ + 2])]]
        /\ UNCHANGED <<store, draining, nItems, seen, enqueuing, nDrains,
                       admitted, succeeded, gone, lapses>>

(* executor(item) rejects: the item stays, with one more attempt. *)
ExecuteRejects(d) ==
    LET item == Head(drains[d].todo)
    IN  /\ drains[d].pc = "run" /\ drains[d].todo # <<>>
        /\ rejected' = [rejected EXCEPT ![item.id] = @ + 1]
        /\ drains' = [drains EXCEPT ![d] =
             [pc |-> "run", todo |-> Tail(@.todo),
              remaining |-> Append(@.remaining,
                 [item EXCEPT !.retryCount = @ + 1])]]
        /\ UNCHANGED <<store, draining, nItems, seen, enqueuing, nDrains,
                       admitted, succeeded, gone, lapses>>

(* mutated: the queue is cleared, failed items with it *)
DrainWriteNothing(d) ==
    /\ drains[d].pc = "run" /\ drains[d].todo = <<>>
    /\ WriteQueue(<<>>)
    /\ drains' = [drains EXCEPT ![d] = [Idle EXCEPT !.pc = "wrote"]]
    /\ UNCHANGED <<draining, nItems, seen, enqueuing, nDrains, admitted,
                   succeeded, rejected, gone>>

(* The loop is over: the queue becomes the list of failed items. *)
DrainWrite(d) ==
    /\ drains[d].pc = "run" /\ drains[d].todo = <<>>
    /\ WriteQueue(drains[d].remaining)
    /\ drains' = [drains EXCEPT ![d] = [Idle EXCEPT !.pc = "wrote"]]
    /\ UNCHANGED <<draining, nItems, seen, enqueuing, nDrains, admitted,
                   succeeded, rejected, gone>>

(* finally { _draining = false } *)
DrainUnlock(d) ==
    /\ drains[d].pc \in {"empty", "wrote"}
    /\ draining' = FALSE
    /\ drains' = [drains EXCEPT ![d] = Idle]
    /\ UNCHANGED <<store, nItems, seen, enqueuing, nDrains, admitted,
                   succeeded, rejected, gone, lapses>>

(* The process is killed and started again: memory is lost, AsyncStorage   *)
(* is not, and nothing drains the queue at start.                          *)
Crash ==
    /\ Crashes /\ lapses < MaxLapses
    /\ lapses' = lapses + 1
    /\ draining' = FALSE
    /\ enqueuing' = {}
    /\ seen' = [i \in Items |-> <<>>]
    /\ drains' = [d \in Calls |-> Idle]
    /\ UNCHANGED <<store, nItems, nDrains, admitted, succeeded, rejected, gone>>

Drain(d) ==
    ExecuteResolves(d) \/ ExecuteRejects(d) \/ DrainWrite(d) \/ DrainUnlock(d)

QNext ==
    \/ EnqueueRead
    \/ \E i \in Items : EnqueueWrite(i)
    \/ Clear
    \/ DrainSkip
    \/ DrainRead
    \/ \E d \in Calls : Drain(d)
    \/ Crash

QSpec == QInit /\ [][QNext]_qvars

-----------------------------------------------------------------------------
QTypeOK ==
    /\ store \in Queue /\ draining \in BOOLEAN
    /\ nItems \in 0 .. MaxItems
    /\ seen \in [Items -> Queue]
    /\ enqueuing \subseteq 1 .. nItems
    /\ nDrains \in 0 .. MaxDrains
    /\ drains \in [Calls -> [pc : {"idle", "run", "empty", "wrote"},
                             todo : Queue, remaining : Queue]]
    /\ admitted \subseteq 1 .. nItems /\ gone \subseteq Items
    /\ succeeded \in [Items -> Nat] /\ rejected \in [Items -> Nat]
    /\ lapses \in 0 .. MaxLapses

(* Drains never overlap: at any moment at most one drain() is past the     *)
(* lock, and the lock is held exactly while one is.  (index.ts: Concurrent *)
(* drain calls are serialised via a module-level lock flag.)               *)
OneDrainAtATime ==
    /\ draining <=> Active # {}
    /\ \A c, d \in Active : c = d

(* However enqueues, drains and clears overlap, the stored queue lists     *)
(* distinct items in the order they were created.                          *)
Increasing(q) == \A j, k \in 1 .. Len(q) : j < k => q[j].id < q[k].id

StoreInOrder == Increasing(store)

(* The stored queue never exceeds MAX_QUEUE_SIZE. *)
StoreBounded == Len(store) <= MaxQueueSize

(* The retryCount stored with an item never exceeds the executions of it   *)
(* that were rejected: stale writes and crashes lose attempts, they never  *)
(* invent one.                                                             *)
RetryCountIsEarned ==
    \A k \in 1 .. Len(store) :
        store[k].retryCount <= rejected[store[k].id]

-----------------------------------------------------------------------------
(* The inductive invariants behind StoreInOrder and StoreBounded: what     *)
(* every copy of the queue held in memory satisfies as well.               *)
Below(q, n) == \A k \in 1 .. Len(q) : q[k].id < n

CallInOrder(call, n) ==
    /\ Increasing(call.todo) /\ Below(call.todo, n)
    /\ Increasing(call.remaining) /\ Below(call.remaining, n)
    /\ \A k \in 1 .. Len(call.todo) : Below(call.remaining, call.todo[k].id)

OrderInv ==
    /\ Increasing(store) /\ Below(store, nItems + 1)
    /\ \A i \in Items : Increasing(seen[i]) /\ Below(seen[i], i)
    /\ \A d \in Calls : CallInOrder(drains[d], nItems + 1)

Held(call) == Len(call.todo) + Len(call.remaining)

BoundInv ==
    /\ Len(store) <= MaxQueueSize
    /\ \A d \in Calls : Held(drains[d]) <= MaxQueueSize
=============================================================================
