---------------------------- MODULE Idempotency ----------------------------
(***************************************************************************)
(* IdempotencyCache (core/src/sync/idempotency.rs) as pure operators: the  *)
(* cache is the sequence of the ids it tracks, oldest first.               *)
(***************************************************************************)
EXTENDS Naturals, Sequences

(* mutated (a slip the code could well contain; nothing uses it): ids      *)
(* up to the newest count as seen                                          *)
IsUpToNewest(cache, id) == cache # <<>> /\ id <= cache[Len(cache)]

IsDuplicate(cache, id) == \E k \in 1 .. Len(cache) : cache[k] = id

(* When the cache is full its oldest id makes room; pop_front of an empty  *)
(* queue does nothing, so a cache of max_size 0 still tracks one id.       *)
Insert(cache, id, maxSize) ==
    Append(IF Len(cache) >= maxSize /\ cache # <<>> THEN Tail(cache) ELSE cache,
           id)
=============================================================================
