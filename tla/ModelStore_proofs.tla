-------------------------- MODULE ModelStore_proofs --------------------------
(***************************************************************************)
(* Proofs about the downloads of a model, for any number of downloads,     *)
(* chunks and wrong chunks, and about the cache of models, for any models, *)
(* sizes and targets.                                                      *)
(***************************************************************************)
EXTENDS ModelStore, FiniteSetTheorems, WellFoundedInduction, TLAPS

-----------------------------------------------------------------------------
(* The downloads.                                                          *)

Points == {"idle", "ask", "sent", "body", "verify", "rename"}

Call == [at : Points, source : {"hf", "cdn"}, retry : BOOLEAN,
         offset : 0 .. Chunks, file : Files \cup {None}]

DownloadTypeOK ==
    /\ pinned \in BOOLEAN /\ shared \in BOOLEAN
    /\ content \in [Files -> 0 .. Chunks \cup {Bad}]
    /\ partial \in Files \cup {None} /\ final \in Files \cup {None}
    /\ calls \in [Downloads -> Call]
    /\ \A d \in Downloads : calls[d].at = "body" <=> calls[d].file # None

(* While no two downloads ran at once: one of them at most is under way,   *)
(* it writes to the file under the .partial path, that file and the model's *)
(* are two, and what is verified or installed is whole.                    *)
AloneInv ==
    /\ \A d, e \in Downloads : calls[d].at # "idle" /\ calls[e].at # "idle" => d = e
    /\ \A d \in Downloads : calls[d].at = "body" => calls[d].file = partial
    /\ final # None => partial # final
    /\ pinned /\ final # None => content[final] = Chunks
    /\ pinned => \A d \in Downloads :
          calls[d].at = "rename" /\ partial # None => content[partial] = Chunks

DownloadInv == DownloadTypeOK /\ (shared \/ AloneInv)

(* One inode more than there are downloads is enough: when the .partial    *)
(* path is free, an inode in no use is left for the download that opens it. *)
LEMMA UnusedIsFree ==
    ASSUME DownloadTypeOK, NEW d \in Downloads, calls[d].at = "sent", partial = None
    PROVE  /\ Unused \in Files /\ Unused # final
           /\ \A e \in Downloads : calls[e].file # Unused
<1> USE ModelDownloadAssumption
<1> DEFINE g == [e \in Downloads |-> IF e = d THEN final ELSE calls[e].file]
           T == {g[e] : e \in Downloads}
<1>1. calls[d].file = None
  BY DEF DownloadTypeOK
<1>2. IsFiniteSet(T) /\ Cardinality(T) <= Cardinality(Downloads)
  <2>1. g \in Surjection(Downloads, T)
    BY DEF Surjection
  <2> HIDE DEF g, T
  <2> QED
    BY <2>1, FS_Surjection
<1>3. \E f \in Files : f \notin T
  <2> SUFFICES ASSUME Files \subseteq T PROVE FALSE
    OBVIOUS
  <2> HIDE DEF T
  <2>1. Cardinality(Files) <= Cardinality(T)
    BY <1>2, FS_Subset
  <2> QED
    BY <1>2, <2>1, FS_CardinalityType
<1>4. {partial, final} \cup {calls[e].file : e \in Downloads} \subseteq T \cup {None}
  BY <1>1
<1>5. \E f \in Files : f \notin {partial, final} \cup {calls[e].file : e \in Downloads}
  BY <1>3, <1>4
<1>6. /\ Unused \in Files
      /\ Unused \notin {partial, final} \cup {calls[e].file : e \in Downloads}
  BY <1>5 DEF Unused
<1> QED
  BY <1>6

(* The length a partial file shows is one a file of the model has. *)
LEMMA PartialSizeType ==
    ASSUME DownloadTypeOK
    PROVE  PartialSize \subseteq 0 .. Chunks
<1>1. CASE partial = None
  BY <1>1, ModelDownloadAssumption DEF PartialSize
<1>2. CASE partial # None /\ content[partial] = Bad
  BY <1>2 DEF PartialSize
<1>3. CASE partial # None /\ content[partial] # Bad
  BY <1>3 DEF PartialSize, DownloadTypeOK
<1> QED
  BY <1>1, <1>2, <1>3

(* What a call may become. *)
LEMMA CallTypes ==
    ASSUME NEW c \in Call
    PROVE  /\ NoCall \in Call
           /\ [NoCall EXCEPT !.at = "ask"] \in Call
           /\ [NoCall EXCEPT !.at = "ask", !.source = "cdn"] \in Call
           /\ [NoCall EXCEPT !.at = "ask", !.source = "cdn", !.retry = TRUE] \in Call
           /\ \A n \in 0 .. Chunks : [c EXCEPT !.at = "sent", !.offset = n] \in Call
           /\ \A n \in 0 .. Chunks, f \in Files :
                 [c EXCEPT !.at = "body", !.offset = n, !.file = f] \in Call
           /\ \A n \in 0 .. Chunks : [c EXCEPT !.offset = n] \in Call
           /\ [c EXCEPT !.at = "verify", !.file = None] \in Call
           /\ [c EXCEPT !.at = "rename"] \in Call
<1>0. None \in Files \cup {None} /\ 0 \in 0 .. Chunks
  BY ModelDownloadAssumption
<1>1. NoCall \in Call
  BY <1>0 DEF NoCall, Call, Points
<1>2. \A x \in Call, a \in Points : [x EXCEPT !.at = a] \in Call
  BY DEF Call
<1>3. \A x \in Call, s \in {"hf", "cdn"} : [x EXCEPT !.source = s] \in Call
  BY DEF Call
<1>4. \A x \in Call, r \in BOOLEAN : [x EXCEPT !.retry = r] \in Call
  BY DEF Call
<1>5. \A x \in Call, n \in 0 .. Chunks : [x EXCEPT !.offset = n] \in Call
  BY DEF Call
<1>6. \A x \in Call, f \in Files \cup {None} : [x EXCEPT !.file = f] \in Call
  BY DEF Call
<1> QED
  BY <1>0, <1>1, <1>2, <1>3, <1>4, <1>5, <1>6 DEF Points

(* Where a new call is. *)
LEMMA NewCalls ==
    /\ NoCall.at = "idle"
    /\ [NoCall EXCEPT !.at = "ask", !.source = "cdn"].at = "ask"
    /\ [NoCall EXCEPT !.at = "ask", !.source = "cdn", !.retry = TRUE].at = "ask"
BY DEF NoCall

(* Types are preserved by each step of a download.                         *)
LEMMA DownloadTypeStep ==
    ASSUME DownloadTypeOK, NEW d \in Downloads, Start(d) \/ Step(d) \/ Drop(d)
    PROVE  DownloadTypeOK'
<1> USE ModelDownloadAssumption DEF DownloadTypeOK, Go
<1>0. calls[d] \in Call /\ calls[d].file \in Files \cup {None}
      /\ calls[d].offset \in 0 .. Chunks
  BY DEF Call
<1>1. CASE Start(d)
  BY <1>0, <1>1, CallTypes DEF Start, NoCall
<1>2. CASE Ask(d)
  <2>1. PICK size \in PartialSize :
          calls' = [calls EXCEPT ![d] = [calls[d] EXCEPT !.at = "sent", !.offset = size]]
    BY <1>2 DEF Ask
  <2>2. \A x \in Call : [x EXCEPT !.at = "sent", !.offset = size] \in Call
    BY PartialSizeType, CallTypes
  <2>3. [calls[d] EXCEPT !.at = "sent", !.offset = size] \in Call
    BY <1>0, <2>2
  <2>4. calls' \in [Downloads -> Call]
    BY <2>1, <2>3
  <2>5. \A e \in Downloads : calls'[e].at = "body" <=> calls'[e].file # None
    BY <1>0, <1>2, <2>1 DEF Ask, Call
  <2> QED
    BY <1>2, <2>4, <2>5 DEF Ask
<1>3. CASE FetchFails(d)
  <2>1. \/ calls' = [calls EXCEPT ![d] = [NoCall EXCEPT !.at = "ask", !.source = "cdn"]]
        \/ calls' = [calls EXCEPT ![d] = NoCall]
    BY <1>3 DEF FetchFails
  <2>2. /\ [NoCall EXCEPT !.at = "ask", !.source = "cdn"] \in Call
        /\ NoCall \in Call
    <3>1. \E c : c \in Call
      BY <1>0
    <3> QED
      BY <3>1, CallTypes
  <2>3. \A e \in Downloads : calls'[e].at = "body" <=> calls'[e].file # None
    <3>1. /\ [NoCall EXCEPT !.at = "ask", !.source = "cdn"].at = "ask"
          /\ [NoCall EXCEPT !.at = "ask", !.source = "cdn"].file = None
          /\ NoCall.at = "idle" /\ NoCall.file = None
      BY DEF NoCall
    <3>2. calls'[d].at # "body" /\ calls'[d].file = None
      BY <2>1, <3>1
    <3> QED
      BY <2>1, <3>2
  <2> QED
    BY <1>3, <2>1, <2>2, <2>3 DEF FetchFails
<1>4. CASE FetchOpens(d)
  <2> DEFINE f == IF partial = None THEN Unused ELSE partial
  <2>1. f \in Files
    BY <1>4, UnusedIsFree DEF FetchOpens
  <2>2. /\ content' = IF partial = None THEN [content EXCEPT ![f] = 0] ELSE content
        /\ partial' = f
        /\ UNCHANGED <<pinned, final, shared>>
    BY <1>4 DEF FetchOpens
  <2>3. PICK from \in {calls[d].offset, 0} :
          calls' = [calls EXCEPT ![d] = [calls[d] EXCEPT !.at = "body",
                                            !.offset = from, !.file = f]]
    BY <1>4 DEF FetchOpens
  <2> HIDE DEF f
  <2>4. [calls[d] EXCEPT !.at = "body", !.offset = from, !.file = f] \in Call
    <3>1. \A x \in Call, n \in 0 .. Chunks, g \in Files :
            [x EXCEPT !.at = "body", !.offset = n, !.file = g] \in Call
      BY CallTypes
    <3>2. from \in 0 .. Chunks
      BY <1>0
    <3> QED
      BY <1>0, <2>1, <3>1, <3>2
  <2>5. calls' \in [Downloads -> Call]
    BY <2>3, <2>4
  <2>6. content' \in [Files -> 0 .. Chunks \cup {Bad}]
    BY <2>1, <2>2
  <2>7. \A e \in Downloads : calls'[e].at = "body" <=> calls'[e].file # None
    BY <1>0, <2>1, <2>3 DEF Call
  <2> QED
    BY <2>1, <2>2, <2>5, <2>6, <2>7
<1>5. CASE FetchChunk(d)
  <2>1. calls[d].file \in Files /\ calls[d].offset + 1 \in 0 .. Chunks
    BY <1>0, <1>5 DEF FetchChunk
  <2>2. calls' = [calls EXCEPT ![d] = [calls[d] EXCEPT !.offset = calls[d].offset + 1]]
    BY <1>5 DEF FetchChunk
  <2>3. content' \in [Files -> 0 .. Chunks \cup {Bad}]
    BY <1>5, <2>1 DEF FetchChunk
  <2>4. [calls[d] EXCEPT !.offset = calls[d].offset + 1] \in Call
    BY <1>0, <2>1, CallTypes
  <2>5. \A e \in Downloads : calls'[e].at = "body" <=> calls'[e].file # None
    BY <1>0, <2>2 DEF Call
  <2> QED
    BY <1>5, <2>2, <2>3, <2>4, <2>5 DEF FetchChunk
<1>6. CASE FetchEnds(d)
  <2>1. calls' = [calls EXCEPT ![d] = [calls[d] EXCEPT !.at = "verify", !.file = None]]
    BY <1>6 DEF FetchEnds
  <2>2. \A x \in Call : [x EXCEPT !.at = "verify", !.file = None] \in Call
    BY CallTypes
  <2>3. calls' \in [Downloads -> Call]
    BY <1>0, <2>1, <2>2
  <2>4. \A e \in Downloads : calls'[e].at = "body" <=> calls'[e].file # None
    BY <1>0, <2>1 DEF Call
  <2> QED
    BY <1>6, <2>3, <2>4 DEF FetchEnds
<1>7. CASE Verify(d)
  <2>1. \/ calls' = [calls EXCEPT ![d] = [calls[d] EXCEPT !.at = "rename"]]
        \/ calls' = [calls EXCEPT ![d] = NoCall]
        \/ calls' = [calls EXCEPT ![d] =
                        [NoCall EXCEPT !.at = "ask", !.source = "cdn", !.retry = TRUE]]
    BY <1>7 DEF Verify
  <2>2. calls' \in [Downloads -> Call]
    BY <1>0, <2>1, CallTypes
  <2>3. \A e \in Downloads : calls'[e].at = "body" <=> calls'[e].file # None
    <3>1. calls[d].file = None
      BY <1>7 DEF Verify
    <3>2. [calls[d] EXCEPT !.at = "rename"].file = None
      BY <1>0, <3>1 DEF Call
    <3>3. [calls[d] EXCEPT !.at = "rename"].at = "rename"
      BY <1>0 DEF Call
    <3>4. calls'[d].at # "body" /\ calls'[d].file = None
      <4>1. CASE calls' = [calls EXCEPT ![d] = [calls[d] EXCEPT !.at = "rename"]]
        BY <3>2, <3>3, <4>1
      <4>2. CASE calls' = [calls EXCEPT ![d] = NoCall]
        BY <4>2 DEF NoCall
      <4>3. CASE calls' = [calls EXCEPT ![d] =
                        [NoCall EXCEPT !.at = "ask", !.source = "cdn", !.retry = TRUE]]
        BY <4>3 DEF NoCall
      <4> QED
        BY <2>1, <4>1, <4>2, <4>3
    <3> QED
      BY <2>1, <3>4
  <2>4. partial' \in Files \cup {None}
    BY <1>7 DEF Verify
  <2> QED
    BY <1>7, <2>2, <2>3, <2>4 DEF Verify
<1>8. CASE Rename(d)
  BY <1>0, <1>8, CallTypes DEF Rename, NoCall
<1>9. CASE PartialGone(d)
  BY <1>0, <1>9, CallTypes DEF PartialGone, NoCall
<1>10. CASE Drop(d)
  BY <1>0, <1>10, CallTypes DEF Drop, NoCall
<1> QED
  BY <1>1, <1>2, <1>3, <1>4, <1>5, <1>6, <1>7, <1>8, <1>9, <1>10 DEF Step

(* A step of the only download under way keeps it whole.                   *)
LEMMA AloneStep ==
    ASSUME DownloadTypeOK, DownloadTypeOK', AloneInv, ~shared',
           NEW d \in Downloads, Start(d) \/ Step(d) \/ Drop(d)
    PROVE  AloneInv'
<1> USE ModelDownloadAssumption DEF DownloadTypeOK
<1> DEFINE c == calls'[d]
           Whole == /\ c.at = "body" => c.file = partial'
                    /\ final' # None => partial' # final'
                    /\ pinned' /\ final' # None => content'[final'] = Chunks
                    /\ pinned' /\ c.at = "rename" /\ partial' # None
                          => content'[partial'] = Chunks
<1>0. calls[d] \in Call /\ \E r : calls' = [calls EXCEPT ![d] = r]
  BY DEF Start, Step, Drop, Ask, FetchFails, FetchOpens, FetchChunk, FetchEnds, Verify,
         Rename, PartialGone, Go
<1>1. \A e \in Downloads : e # d => calls'[e] = calls[e]
  BY <1>0
<1>2. \A e \in Downloads : e # d => calls[e].at = "idle"
  <2>1. CASE Start(d)
    BY <2>1 DEF Start
  <2>2. CASE Step(d) \/ Drop(d)
    <3>1. calls[d].at # "idle"
      BY <2>2 DEF Step, Drop, Ask, FetchFails, FetchOpens, FetchChunk, FetchEnds, Verify,
                  Rename, PartialGone
    <3> QED
      BY <3>1 DEF AloneInv
  <2> QED
    BY <2>1, <2>2
<1>3. /\ final # None => partial # final
      /\ pinned /\ final # None => content[final] = Chunks
      /\ calls[d].at = "body" => calls[d].file = partial
      /\ pinned /\ calls[d].at = "rename" /\ partial # None => content[partial] = Chunks
  BY DEF AloneInv
<1>4. SUFFICES Whole
  BY <1>1, <1>2 DEF AloneInv
<1>5. CASE Start(d)
  BY <1>3, <1>5 DEF Start, Go, NoCall
<1>6. CASE Ask(d)
  <2>1. PICK size \in PartialSize :
          calls' = [calls EXCEPT ![d] = [calls[d] EXCEPT !.at = "sent", !.offset = size]]
    BY <1>6 DEF Ask, Go
  <2>2. c.at = "sent"
    BY <1>0, <2>1 DEF Call
  <2> QED
    BY <1>3, <1>6, <2>2 DEF Ask
<1>7. CASE FetchFails(d)
  <2>1. c.at \in {"ask", "idle"}
    <3>1. c = NoCall \/ c = [NoCall EXCEPT !.at = "ask", !.source = "cdn"]
      BY <1>7 DEF FetchFails, Go
    <3> QED
      BY <3>1, NewCalls
  <2>2. partial' \in {partial, None} /\ UNCHANGED <<pinned, content, final>>
    BY <1>7 DEF FetchFails
  <2> QED
    BY <1>3, <2>1, <2>2
<1>8. CASE FetchOpens(d)
  <2> DEFINE f == IF partial = None THEN Unused ELSE partial
  <2>1. /\ content' = IF partial = None THEN [content EXCEPT ![f] = 0] ELSE content
        /\ partial' = f
        /\ UNCHANGED <<pinned, final>>
    BY <1>8 DEF FetchOpens
  <2>2. PICK from \in {calls[d].offset, 0} :
          calls' = [calls EXCEPT ![d] = [calls[d] EXCEPT !.at = "body",
                                            !.offset = from, !.file = f]]
    BY <1>8 DEF FetchOpens, Go
  <2>3. \/ f \in Files /\ f # final
        \/ partial # None /\ f = partial
    BY <1>8, UnusedIsFree DEF FetchOpens
  <2> HIDE DEF f
  <2>4. c.at = "body" /\ c.file = f
    BY <1>0, <2>2 DEF Call
  <2> QED
    BY <1>3, <2>1, <2>3, <2>4
<1>9. CASE FetchChunk(d)
  <2>1. calls' = [calls EXCEPT ![d] = [calls[d] EXCEPT !.offset = calls[d].offset + 1]]
    BY <1>9 DEF FetchChunk, Go
  <2>2. c.at = "body" /\ c.file = calls[d].file
    BY <1>0, <1>9, <2>1 DEF FetchChunk, Call
  <2>3. PICK n : content' = [content EXCEPT ![partial] = n]
    BY <1>3, <1>9 DEF FetchChunk
  <2> QED
    BY <1>3, <1>9, <2>2, <2>3 DEF FetchChunk
<1>10. CASE FetchEnds(d)
  <2>1. calls' = [calls EXCEPT ![d] = [calls[d] EXCEPT !.at = "verify", !.file = None]]
    BY <1>10 DEF FetchEnds, Go
  <2>2. c.at = "verify"
    BY <1>0, <2>1 DEF Call
  <2> QED
    BY <1>3, <1>10, <2>2 DEF FetchEnds
<1>11. CASE Verify(d)
  <2>1. CASE ~pinned \/ content[partial] = Chunks
    <3>1. calls' = [calls EXCEPT ![d] = [calls[d] EXCEPT !.at = "rename"]]
      BY <1>11, <2>1 DEF Verify, Go
    <3>2. c.at = "rename"
      BY <1>0, <3>1 DEF Call
    <3> QED
      BY <1>3, <1>11, <2>1, <3>2 DEF Verify
  <2>2. CASE ~(~pinned \/ content[partial] = Chunks)
    <3>1. c = NoCall \/ c = [NoCall EXCEPT !.at = "ask", !.source = "cdn", !.retry = TRUE]
      BY <1>11, <2>2 DEF Verify, Go
    <3>2. c.at \in {"idle", "ask"}
      BY <3>1, NewCalls
    <3> QED
      BY <1>3, <1>11, <2>2, <3>2 DEF Verify
  <2> QED
    BY <2>1, <2>2
<1>12. CASE Rename(d)
  BY <1>3, <1>12 DEF Rename, Go, NoCall
<1>13. CASE PartialGone(d)
  BY <1>3, <1>13 DEF PartialGone, Go, NoCall
<1>14. CASE Drop(d)
  BY <1>3, <1>14 DEF Drop, Go, NoCall
<1> QED
  BY <1>5, <1>6, <1>7, <1>8, <1>9, <1>10, <1>11, <1>12, <1>13, <1>14 DEF Step

LEMMA DownloadInvariant == Spec => []DownloadInv
<1>1. Init => DownloadInv
  <2> SUFFICES ASSUME Init PROVE DownloadInv
    OBVIOUS
  <2>1. NoCall \in Call /\ NoCall.at = "idle" /\ NoCall.file = None
    BY ModelDownloadAssumption DEF NoCall, Call, Points
  <2>2. DownloadTypeOK
    <3>1. content \in [Files -> 0 .. Chunks \cup {Bad}]
      BY ModelDownloadAssumption DEF Init, DInit
    <3>2. calls = [d \in Downloads |-> NoCall] /\ "idle" # "body"
      BY DEF Init, DInit
    <3>3. calls \in [Downloads -> Call]
      BY <2>1, <3>2
    <3>4. \A d \in Downloads : calls[d].at = "body" <=> calls[d].file # None
      BY <2>1, <3>2
    <3> QED
      BY <3>1, <3>3, <3>4 DEF Init, DInit, DownloadTypeOK
  <2>3. AloneInv
    BY <2>1 DEF Init, DInit, AloneInv
  <2> QED
    BY <2>2, <2>3 DEF DownloadInv
<1>2. DownloadInv /\ [Next]_vars => DownloadInv'
  <2> SUFFICES ASSUME DownloadInv, [Next]_vars PROVE DownloadInv'
    OBVIOUS
  <2>1. CASE UNCHANGED downloadVars
    <3>1. DownloadTypeOK'
      BY <2>1 DEF DownloadInv, DownloadTypeOK, downloadVars
    <3>2. shared' \/ AloneInv'
      BY <2>1 DEF DownloadInv, AloneInv, downloadVars
    <3> QED
      BY <3>1, <3>2 DEF DownloadInv
  <2>2. CASE DNext
    <3>1. PICK d \in Downloads : Start(d) \/ Step(d) \/ Drop(d)
      BY <2>2 DEF DNext
    <3>2. DownloadTypeOK'
      BY <3>1, DownloadTypeStep DEF DownloadInv
    <3>3. shared => shared'
      BY <3>1 DEF Start, Step, Drop, Ask, FetchFails, FetchOpens, FetchChunk, FetchEnds,
                  Verify, Rename, PartialGone
    <3>4. ASSUME ~shared' PROVE AloneInv'
      BY <3>1, <3>2, <3>3, <3>4, AloneStep DEF DownloadInv
    <3> QED
      BY <3>2, <3>4 DEF DownloadInv
  <2>3. CASE UNCHANGED vars
    BY <2>1, <2>3 DEF vars
  <2> QED
    BY <2>1, <2>2, <2>3 DEF Next, Download, Cache
<1> QED
  BY <1>1, <1>2, PTL DEF Spec

(* A model whose hash is pinned is installed only when it is whole, and    *)
(* stays whole, however often its download was dropped, resumed, started   *)
(* again or fed wrong bytes, as long as no two downloads ran at once.      *)
THEOREM InstalledStaysWhole == Spec => []InstalledIsWhole
<1>1. DownloadInv => InstalledIsWhole
  BY DEF DownloadInv, AloneInv, InstalledIsWhole
<1> QED
  BY <1>1, DownloadInvariant, PTL

-----------------------------------------------------------------------------
(* The cache.                                                              *)

IsEntries(i) == i = [m \in DOMAIN i |-> i[m]]

(* The entries of an index: the numbers of last uses, no two the same.     *)
Entries(i, n) ==
    /\ IsEntries(i)
    /\ \A m \in DOMAIN i : i[m] \in Nat /\ i[m] <= n
    /\ \A m, k \in DOMAIN i : i[m] = i[k] => m = k

CacheTypeOK ==
    /\ clock \in Nat
    /\ Entries(index, clock) /\ Entries(disk, clock)
    /\ evict = [on |-> evict.on, loaded |-> evict.loaded,
                todo |-> evict.todo, evicted |-> evict.evicted]
    /\ evict.on \in BOOLEAN
    /\ ~evict.on => evict = NotRunning
    /\ Entries(evict.todo, clock) /\ Entries(evict.evicted, clock)

(* What the index on disk lists and the one in memory does not is what     *)
(* evictions removed since it was written, however they ended.             *)
PresentInv ==
    /\ IndexedIsPresent
    /\ DOMAIN disk \subseteq DOMAIN index \cup removed

(* A running eviction: what is left to look at is in the index; the rest   *)
(* of the index is kept for cause; what is gone is older than all that is  *)
(* left, and without the last removal the cache was too large.             *)
Spared == Imported \cup {evict.loaded}

LastGone ==
    CHOOSE m \in DOMAIN evict.evicted :
        \A n \in DOMAIN evict.evicted : evict.evicted[n] <= evict.evicted[m]

EvictInv ==
    /\ \A m \in DOMAIN evict.todo : m \in DOMAIN index /\ evict.todo[m] = index[m]
    /\ evict.on => DOMAIN index \ DOMAIN evict.todo \subseteq Spared
    /\ \A e \in DOMAIN evict.evicted, m \in DOMAIN evict.todo :
          evict.evicted[e] < evict.todo[m]
    /\ DOMAIN evict.evicted \cap Spared = {}
    /\ evict.evicted # NoEntries => TotalSize(DOMAIN index \cup {LastGone}) > Target

CacheInv == CacheTypeOK /\ PresentInv /\ EvictInv

-----------------------------------------------------------------------------
(* What the operators on entries do.                                       *)

LEMMA NoEntriesIsEmpty ==
    /\ DOMAIN NoEntries = {} /\ IsEntries(NoEntries)
    /\ \A i : IsEntries(i) /\ DOMAIN i = {} => i = NoEntries
BY DEF NoEntries, IsEntries

(* A set of numbers has a least one. *)
LEMMA LeastExists ==
    ASSUME NEW S, S \subseteq Nat, S # {}
    PROVE  \E n \in S : \A k \in S : n <= k
<1> DEFINE R == {ss \in Nat \X Nat : ss[1] < ss[2]}
<1>1. IsWellFoundedOn(R, Nat)
  BY NatLessThanWellFounded DEF OpToRel
<1>2. \E n \in S : \A k \in S : ~(<<k, n>> \in R)
  <2> HIDE DEF R
  <2> QED
    BY <1>1, WFMin
<1>3. \A k, n \in S : ~(<<k, n>> \in R) => n <= k
  OBVIOUS
<1> HIDE DEF R
<1> QED
  BY <1>2, <1>3

(* Of the entries left to look at, one was used before all the others.     *)
LEMMA OldestIsOldest ==
    ASSUME CacheTypeOK, evict.todo # NoEntries
    PROVE  /\ Oldest \in DOMAIN evict.todo
           /\ \A m \in DOMAIN evict.todo \ {Oldest} : evict.todo[Oldest] < evict.todo[m]
<1> DEFINE t == evict.todo
           S == {t[m] : m \in DOMAIN t}
<1>1. IsEntries(t) /\ \A m \in DOMAIN t : t[m] \in Nat
  BY DEF CacheTypeOK, Entries
<1>2. \A m, n \in DOMAIN t : t[m] = t[n] => m = n
  BY DEF CacheTypeOK, Entries
<1>3. Oldest = CHOOSE m \in DOMAIN t : \A n \in DOMAIN t : t[m] <= t[n]
  BY DEF Oldest
<1> HIDE DEF t
<1>4. S \subseteq Nat /\ S # {}
  BY <1>1, NoEntriesIsEmpty DEF t
<1>5. \E n \in S : \A k \in S : n <= k
  <2> HIDE DEF S
  <2> QED
    BY <1>4, LeastExists
<1>6. \E m \in DOMAIN t : \A n \in DOMAIN t : t[m] <= t[n]
  BY <1>5
<1>7. Oldest \in DOMAIN t /\ \A n \in DOMAIN t : t[Oldest] <= t[n]
  BY <1>3, <1>6
<1> QED
  BY <1>1, <1>2, <1>7 DEF t

LEMMA EntriesWithout ==
    ASSUME NEW i, NEW n, NEW m, Entries(i, n)
    PROVE  Entries(Without(i, m), n)
<1> DEFINE w == Without(i, m)
<1>1. /\ IsEntries(w) /\ DOMAIN w = DOMAIN i \ {m}
      /\ \A k \in DOMAIN i \ {m} : w[k] = i[k]
  BY DEF Without, Restrict, IsEntries
<1> HIDE DEF w
<1>2. Entries(w, n)
  BY <1>1 DEF Entries
<1> QED
  BY <1>2 DEF w

LEMMA EntriesWithNew ==
    ASSUME NEW i, NEW n \in Nat, NEW m, Entries(i, n)
    PROVE  /\ Entries(i, n + 1)
           /\ Entries(With(i, m, n + 1), n + 1)
           /\ m \in DOMAIN i => [i EXCEPT ![m] = n + 1] = With(i, m, n + 1)
<1>1. Entries(i, n + 1) /\ \A k \in DOMAIN i : i[k] # n + 1
  BY DEF Entries
<1> DEFINE w == With(i, m, n + 1)
<1>2. /\ IsEntries(w) /\ DOMAIN w = DOMAIN i \cup {m} /\ w[m] = n + 1
      /\ \A k \in DOMAIN i \ {m} : w[k] = i[k]
  BY DEF With, IsEntries
<1>3. m \in DOMAIN i => [i EXCEPT ![m] = n + 1] = With(i, m, n + 1)
  BY DEF With
<1> HIDE DEF w
<1>4. Entries(w, n + 1)
  BY <1>1, <1>2 DEF Entries
<1> QED
  BY <1>1, <1>3, <1>4 DEF w

LEMMA EntriesWithOther ==
    ASSUME NEW g, NEW n, NEW m, NEW used \in Nat, used <= n, Entries(g, n),
           \A e \in DOMAIN g : g[e] # used
    PROVE  Entries(With(g, m, used), n)
<1> DEFINE w == With(g, m, used)
<1>1. /\ IsEntries(w) /\ DOMAIN w = DOMAIN g \cup {m} /\ w[m] = used
      /\ \A k \in DOMAIN g \ {m} : w[k] = g[k]
  BY DEF With, IsEntries
<1> HIDE DEF w
<1>2. Entries(w, n)
  BY <1>1 DEF Entries
<1> QED
  BY <1>2 DEF w

LEMMA NoEntriesTyped == \A n : Entries(NoEntries, n)
BY NoEntriesIsEmpty DEF Entries

-----------------------------------------------------------------------------
(* The steps.                                                              *)

LEMMA NotRunningFields ==
    /\ NotRunning = [on |-> NotRunning.on, loaded |-> NotRunning.loaded,
                     todo |-> NotRunning.todo, evicted |-> NotRunning.evicted]
    /\ NotRunning.on = FALSE /\ NotRunning.todo = NoEntries
    /\ NotRunning.evicted = NoEntries
BY DEF NotRunning

(* A step that leaves no eviction running. *)
LEMMA StoppedKeepsEvictInv ==
    ASSUME evict' = NotRunning
    PROVE  EvictInv'
BY NotRunningFields, NoEntriesIsEmpty DEF EvictInv

(* The state of an eviction after it looked at one entry.                  *)
LEMMA EvictNextFields ==
    ASSUME CacheTypeOK, EvictNext, NEW o, o = Oldest
    PROVE  /\ evict' = [on |-> evict'.on, loaded |-> evict'.loaded,
                        todo |-> evict'.todo, evicted |-> evict'.evicted]
           /\ evict'.on = evict.on /\ evict'.loaded = evict.loaded
           /\ evict'.todo = Without(evict.todo, o)
           /\ IF o \in Spared
              THEN UNCHANGED <<files, index>> /\ evict'.evicted = evict.evicted
              ELSE /\ files' = files \ {o} /\ index' = Without(index, o)
                   /\ evict'.evicted = With(evict.evicted, o, index[o])
<1>1. CASE o \in Spared
  <2>1. evict' = [evict EXCEPT !.todo = Without(evict.todo, o)] /\ UNCHANGED <<files, index>>
    BY <1>1 DEF EvictNext, Spared
  <2> QED
    BY <1>1, <2>1 DEF CacheTypeOK
<1>2. CASE o \notin Spared
  <2>1. /\ files' = files \ {o} /\ index' = Without(index, o)
        /\ evict' = [evict EXCEPT !.todo = Without(evict.todo, o),
                                  !.evicted = With(evict.evicted, o, index[o])]
    BY <1>2 DEF EvictNext, Spared
  <2> QED
    BY <1>2, <2>1 DEF CacheTypeOK
<1> QED
  BY <1>1, <1>2

LEMMA CacheTypeStep ==
    ASSUME CacheInv, CNext
    PROVE  CacheTypeOK'
<1> USE DEF CacheInv
<1>1. ASSUME NEW m \in Models, Install(m) PROVE CacheTypeOK'
  BY <1>1 DEF CacheTypeOK, Install
<1>2. ASSUME NEW m \in Models, Register(m) PROVE CacheTypeOK'
  <2>1. evict = NotRunning /\ UNCHANGED <<disk, evict>>
    BY <1>2 DEF CacheTypeOK, Register
  <2>2. clock \in Nat /\ clock' = clock + 1 /\ index' = With(index, m, clock + 1)
    BY <1>2 DEF CacheTypeOK, Register
  <2>3. Entries(index', clock') /\ Entries(disk', clock')
    BY <2>1, <2>2, EntriesWithNew DEF CacheTypeOK
  <2> QED
    BY <2>1, <2>2, <2>3, NotRunningFields, NoEntriesTyped DEF CacheTypeOK
<1>3. ASSUME NEW m \in Models, Touch(m) PROVE CacheTypeOK'
  <2>1. evict = NotRunning /\ UNCHANGED evict
    BY <1>3 DEF CacheTypeOK, Touch
  <2>2. /\ clock \in Nat /\ clock' = clock + 1
        /\ index' = [index EXCEPT ![m] = clock + 1] /\ m \in DOMAIN index
        /\ disk' \in {disk, index'}
    BY <1>3 DEF CacheTypeOK, Touch, Write
  <2>3. Entries(index', clock') /\ Entries(disk, clock')
    <3>1. index' = With(index, m, clock + 1)
      BY <2>2 DEF With
    <3>2. Entries(index, clock) /\ Entries(disk, clock)
      BY DEF CacheTypeOK
    <3>3. clock \in Nat /\ clock' = clock + 1
      BY <2>2
    <3>4. Entries(With(index, m, clock + 1), clock + 1) /\ Entries(disk, clock + 1)
      BY <3>2, <3>3, EntriesWithNew
    <3> QED
      BY <3>1, <3>3, <3>4
  <2>4. Entries(disk', clock')
    BY <2>2, <2>3
  <2> QED
    BY <2>1, <2>2, <2>3, <2>4, NotRunningFields, NoEntriesTyped DEF CacheTypeOK
<1>4. CASE PersistIndex
  <2>1. disk' \in {disk, index} /\ UNCHANGED <<index, clock, evict>>
    BY <1>4 DEF PersistIndex, Write
  <2> QED
    BY <2>1 DEF CacheTypeOK
<1>5. CASE CleanupOrphans
  <2>1. disk' \in {disk, index} /\ UNCHANGED <<index, clock, evict>>
    BY <1>5 DEF CleanupOrphans, Write
  <2> QED
    BY <2>1 DEF CacheTypeOK
<1>6. ASSUME evict' = NotRunning, UNCHANGED clock,
             index' \in {index, disk}, disk' \in {index, disk}
      PROVE  CacheTypeOK'
  BY <1>6, NotRunningFields, NoEntriesTyped DEF CacheTypeOK
<1>7. CASE Reopen
  BY <1>6, <1>7 DEF Reopen, CacheTypeOK
<1>8. CASE EvictEnd
  BY <1>6, <1>8 DEF EvictEnd, Write, CacheTypeOK
<1>9. CASE EvictFails
  BY <1>6, <1>9 DEF EvictFails, CacheTypeOK
<1>10. ASSUME NEW m, EvictStart(m) PROVE CacheTypeOK'
  <2>1. /\ evict' = [NotRunning EXCEPT !.on = TRUE, !.loaded = m, !.todo = index]
        /\ UNCHANGED <<index, disk, clock>>
    BY <1>10 DEF EvictStart
  <2>2. /\ evict' = [on |-> evict'.on, loaded |-> evict'.loaded,
                     todo |-> evict'.todo, evicted |-> evict'.evicted]
        /\ evict'.on = TRUE /\ evict'.todo = index /\ evict'.evicted = NoEntries
    BY <2>1 DEF NotRunning
  <2> QED
    BY <2>1, <2>2, NoEntriesTyped DEF CacheTypeOK
<1>11. CASE EvictNext
  <2>1. PICK o : o = Oldest
    OBVIOUS
  <2>2. /\ evict.on /\ evict.todo # NoEntries /\ UNCHANGED <<disk, clock>>
    BY <1>11 DEF EvictNext
  <2>3. o \in DOMAIN evict.todo /\ o \in DOMAIN index /\ evict.todo[o] = index[o]
    BY <2>1, <2>2, OldestIsOldest DEF EvictInv
  <2>4. Entries(evict'.todo, clock)
    BY <1>11, <2>1, EvictNextFields, EntriesWithout DEF CacheTypeOK
  <2>5. Entries(index', clock)
    BY <1>11, <2>1, EvictNextFields, EntriesWithout DEF CacheTypeOK
  <2>6. Entries(evict'.evicted, clock)
    <3>1. CASE o \in Spared
      BY <1>11, <2>1, <3>1, EvictNextFields DEF CacheTypeOK
    <3>2. CASE o \notin Spared
      <4>1. evict'.evicted = With(evict.evicted, o, index[o])
        BY <1>11, <2>1, <3>2, EvictNextFields
      <4>2. index[o] \in Nat /\ index[o] <= clock
        BY <2>3 DEF CacheTypeOK, Entries
      <4>3. \A e \in DOMAIN evict.evicted : evict.evicted[e] # index[o]
        BY <2>3, <4>2 DEF EvictInv, CacheTypeOK, Entries
      <4> QED
        BY <4>1, <4>2, <4>3, EntriesWithOther DEF CacheTypeOK
    <3> QED
      BY <3>1, <3>2
  <2> QED
    BY <1>11, <2>1, <2>2, <2>4, <2>5, <2>6, EvictNextFields DEF CacheTypeOK
<1> QED
  BY <1>1, <1>2, <1>3, <1>4, <1>5, <1>7, <1>8, <1>9, <1>10, <1>11 DEF CNext

(* Whether the index is written or not, the one on disk is explained.      *)
LEMMA WriteKeeps ==
    ASSUME DOMAIN disk \subseteq DOMAIN index \cup removed, NEW entries, Write(entries),
           DOMAIN entries = DOMAIN index
    PROVE  DOMAIN disk' \subseteq DOMAIN index \cup removed'
BY DEF Write

(* A model leaves the index as its file does, and the disk at the next     *)
(* write.                                                                  *)
LEMMA PresentStep ==
    ASSUME CacheInv, CNext
    PROVE  PresentInv'
<1> USE DEF CacheInv
<1>1. /\ DOMAIN index \subseteq files \cup unbacked \cup revived
      /\ DOMAIN disk \subseteq DOMAIN index \cup removed
  BY DEF PresentInv, IndexedIsPresent
<1> DEFINE Goal == /\ DOMAIN index' \subseteq files' \cup unbacked' \cup revived'
                   /\ DOMAIN disk' \subseteq DOMAIN index' \cup removed'
<1>2. SUFFICES Goal
  BY DEF PresentInv, IndexedIsPresent
<1>3. ASSUME NEW m \in Models, Install(m) PROVE Goal
  BY <1>1, <1>3 DEF Install
<1>4. ASSUME NEW m \in Models, Register(m) PROVE Goal
  <2>1. DOMAIN index' = DOMAIN index \cup {m}
    BY <1>4 DEF Register, With
  <2> QED
    BY <1>1, <1>4, <2>1 DEF Register
<1>5. ASSUME NEW m \in Models, Touch(m) PROVE Goal
  <2>1. /\ DOMAIN index' = DOMAIN index /\ Write(index')
        /\ UNCHANGED <<files, unbacked, revived>>
    BY <1>5 DEF Touch
  <2>2. DOMAIN disk' \subseteq DOMAIN index \cup removed'
    BY <1>1, <2>1 DEF Write
  <2> QED
    BY <1>1, <2>1, <2>2
<1>6. CASE PersistIndex \/ CleanupOrphans
  <2>1. /\ DOMAIN index \cap files \subseteq files' /\ Write(index)
        /\ UNCHANGED <<index, unbacked, revived>>
    BY <1>6 DEF PersistIndex, CleanupOrphans
  <2> QED
    BY <1>1, <2>1, WriteKeeps
<1>7. CASE Reopen
  BY <1>1, <1>7 DEF Reopen
<1>8. ASSUME NEW m, EvictStart(m) PROVE Goal
  BY <1>1, <1>8 DEF EvictStart
<1>9. CASE EvictNext
  <2>1. PICK o : o = Oldest
    OBVIOUS
  <2>2. UNCHANGED <<disk, unbacked, revived>>
    BY <1>9 DEF EvictNext
  <2>3. CASE o \in Spared
    <3>1. UNCHANGED <<files, index, removed>>
      BY <1>9, <2>1, <2>3 DEF EvictNext, Spared
    <3> QED
      BY <1>1, <2>2, <3>1
  <2>4. CASE o \notin Spared
    <3>1. files' = files \ {o} /\ index' = Without(index, o) /\ removed' = removed \cup {o}
      BY <1>9, <2>1, <2>4 DEF EvictNext, Spared
    <3>2. DOMAIN index' = DOMAIN index \ {o}
      BY <3>1 DEF Without, Restrict
    <3> QED
      BY <1>1, <2>2, <3>1, <3>2
  <2> QED
    BY <2>3, <2>4
<1>10. CASE EvictEnd
  <2>1. UNCHANGED <<files, index, unbacked, revived>>
    BY <1>10 DEF EvictEnd
  <2>2. DOMAIN disk' \subseteq DOMAIN index \cup removed'
    BY <1>1, <1>10, WriteKeeps DEF EvictEnd
  <2> QED
    BY <1>1, <2>1, <2>2
<1>11. CASE EvictFails
  BY <1>1, <1>11 DEF EvictFails
<1> QED
  BY <1>3, <1>4, <1>5, <1>6, <1>7, <1>8, <1>9, <1>10, <1>11 DEF CNext

(* What an eviction removes is the oldest of what it may remove.           *)
LEMMA EvictStep ==
    ASSUME CacheInv, CNext
    PROVE  EvictInv'
<1> USE DEF CacheInv
<1>1. ASSUME UNCHANGED evict, ~evict.on PROVE EvictInv'
  BY <1>1, StoppedKeepsEvictInv DEF CacheTypeOK
<1>2. CASE evict' = NotRunning
  BY <1>2, StoppedKeepsEvictInv
<1>3. ASSUME NEW m, EvictStart(m) PROVE EvictInv'
  <2>1. /\ evict'.on = TRUE /\ evict'.todo = index /\ evict'.evicted = NoEntries
        /\ index' = index
    BY <1>3 DEF EvictStart, NotRunning
  <2> QED
    BY <2>1, NoEntriesIsEmpty DEF EvictInv
<1>5. ASSUME UNCHANGED <<index, evict>> PROVE EvictInv'
  BY <1>5 DEF EvictInv, Spared, LastGone
<1>4. CASE EvictNext
  <2>1. PICK o : o = Oldest
    OBVIOUS
  <2>2. evict.on /\ evict.todo # NoEntries /\ TotalSize(DOMAIN index) > Target
    BY <1>4 DEF EvictNext
  <2>3. /\ o \in DOMAIN evict.todo /\ o \in DOMAIN index /\ evict.todo[o] = index[o]
        /\ \A m \in DOMAIN evict.todo \ {o} : evict.todo[o] < evict.todo[m]
    BY <2>1, <2>2, OldestIsOldest DEF EvictInv
  <2>4. /\ DOMAIN evict'.todo = DOMAIN evict.todo \ {o}
        /\ \A m \in DOMAIN evict.todo \ {o} : evict'.todo[m] = evict.todo[m]
        /\ evict'.on = evict.on /\ evict'.loaded = evict.loaded
    BY <1>4, <2>1, EvictNextFields DEF Without, Restrict
  <2>5. CASE o \in Spared
    <3>1. UNCHANGED index /\ evict'.evicted = evict.evicted
      BY <1>4, <2>1, <2>5, EvictNextFields
    <3>2. LastGone' = LastGone /\ Spared' = Spared
      BY <2>4, <3>1 DEF LastGone, Spared
    <3> QED
      BY <2>3, <2>4, <2>5, <3>1, <3>2 DEF EvictInv
  <2>6. CASE o \notin Spared
    <3> DEFINE g == evict.evicted
               h == evict'.evicted
    <3>1. /\ DOMAIN index' = DOMAIN index \ {o}
          /\ \A m \in DOMAIN index \ {o} : index'[m] = index[m]
      BY <1>4, <2>1, <2>6, EvictNextFields DEF Without, Restrict
    <3>2. /\ DOMAIN h = DOMAIN g \cup {o} /\ h[o] = index[o]
          /\ \A e \in DOMAIN g \ {o} : h[e] = g[e]
      BY <1>4, <2>1, <2>6, EvictNextFields DEF With
    <3>3. /\ \A e \in DOMAIN g : g[e] \in Nat
          /\ index[o] \in Nat
          /\ \A m \in DOMAIN evict.todo : evict.todo[m] \in Nat
      BY <2>3 DEF CacheTypeOK, Entries
    <3>4. \A e \in DOMAIN g, m \in DOMAIN evict.todo : g[e] < evict.todo[m]
      BY DEF EvictInv
    <3>5. \A e \in DOMAIN h : h[e] <= index[o] /\ (h[e] = index[o] => e = o)
      BY <2>3, <3>2, <3>3, <3>4
    <3>6. LastGone' = o
      <4>1. \A m \in DOMAIN h : (\A n \in DOMAIN h : h[n] <= h[m]) => m = o
        BY <3>2, <3>3, <3>4, <3>5, <2>3
      <4>2. o \in DOMAIN h /\ \A n \in DOMAIN h : h[n] <= h[o]
        BY <3>2, <3>5
      <4>3. LastGone' = CHOOSE m \in DOMAIN h : \A n \in DOMAIN h : h[n] <= h[m]
        BY DEF LastGone
      <4> HIDE DEF h
      <4> QED
        BY <4>1, <4>2, <4>3
    <3>7. Spared' = Spared
      BY <2>4 DEF Spared
    <3>8. DOMAIN index' \cup {LastGone'} = DOMAIN index
      BY <2>3, <3>1, <3>6
    <3>9. \A e \in DOMAIN h, m \in DOMAIN evict'.todo : h[e] < evict'.todo[m]
      BY <2>3, <2>4, <3>2, <3>3, <3>4
    <3>10. DOMAIN h \cap Spared = {}
      BY <2>6, <3>2 DEF EvictInv
    <3>11. \A m \in DOMAIN evict'.todo : m \in DOMAIN index' /\ evict'.todo[m] = index'[m]
      BY <2>4, <3>1 DEF EvictInv
    <3>12. DOMAIN index' \ DOMAIN evict'.todo \subseteq Spared
      BY <2>2, <2>4, <3>1 DEF EvictInv
    <3>13. TotalSize(DOMAIN index' \cup {LastGone'}) > Target
      BY <2>2, <3>8
    <3> QED
      BY <3>7, <3>9, <3>10, <3>11, <3>12, <3>13 DEF EvictInv
  <2> QED
    BY <2>5, <2>6
<1> QED
  BY <1>1, <1>2, <1>3, <1>4, <1>5 DEF CNext, Install, Register, Touch, PersistIndex, CleanupOrphans,
         Reopen, EvictEnd, EvictFails

LEMMA CacheInvariant == Spec => []CacheInv
<1>1. Init => CacheInv
  <2> SUFFICES ASSUME Init PROVE CacheInv
    OBVIOUS
  <2>1. /\ files = {} /\ index = NoEntries /\ disk = NoEntries
        /\ clock = 0 /\ evict = NotRunning
    BY DEF Init, CInit
  <2>2. CacheTypeOK
    BY <2>1, NotRunningFields, NoEntriesTyped DEF CacheTypeOK
  <2>3. PresentInv
    BY <2>1, NoEntriesIsEmpty DEF PresentInv, IndexedIsPresent
  <2>4. EvictInv
    BY <2>1, NotRunningFields, NoEntriesIsEmpty DEF EvictInv
  <2> QED
    BY <2>2, <2>3, <2>4 DEF CacheInv
<1>2. CacheInv /\ [Next]_vars => CacheInv'
  <2> SUFFICES ASSUME CacheInv, [Next]_vars PROVE CacheInv'
    OBVIOUS
  <2>1. CASE CNext
    BY <2>1, CacheTypeStep, PresentStep, EvictStep DEF CacheInv
  <2>2. CASE UNCHANGED cacheVars
    <3>1. UNCHANGED <<files, index, disk, clock, evict, unbacked, removed, revived>>
      BY <2>2 DEF cacheVars
    <3>2. CacheTypeOK' /\ PresentInv'
      BY <3>1 DEF CacheInv, CacheTypeOK, PresentInv, IndexedIsPresent
    <3>3. EvictInv'
      BY <3>1 DEF CacheInv, EvictInv, Spared, LastGone
    <3> QED
      BY <3>2, <3>3 DEF CacheInv
  <2>3. CASE UNCHANGED vars
    BY <2>2, <2>3 DEF vars
  <2> QED
    BY <2>1, <2>2, <2>3 DEF Next, Download, Cache
<1> QED
  BY <1>1, <1>2, PTL DEF Spec

(* Whatever fails or is killed, no process counts a model without a file,  *)
(* but one registered without, or one that a kill brought back after its   *)
(* eviction (cache.rs, register, evict_lru, persist_index and open).       *)
THEOREM IndexedStaysPresent == Spec => []IndexedIsPresent
<1>1. CacheInv => IndexedIsPresent
  BY DEF CacheInv, PresentInv
<1> QED
  BY <1>1, CacheInvariant, PTL

(* Whatever the sizes, the target and the uses, evict_lru removes the      *)
(* least recently used of what it may remove, one no sooner than needed,   *)
(* and neither the loaded model nor an imported one.                       *)
THEOREM EvictionIsNeeded == Spec => []EvictsOnlyWhatItMust
<1>1. CacheInv => EvictsOnlyWhatItMust
  <2> SUFFICES ASSUME CacheInv, evict.evicted # NoEntries
               PROVE  /\ \A e \in DOMAIN evict.evicted, k \in DOMAIN index \ Spared :
                            evict.evicted[e] <= index[k]
                      /\ TotalSize(DOMAIN index \cup {LastGone}) > Target
                      /\ DOMAIN evict.evicted \cap Spared = {}
    BY DEF EvictsOnlyWhatItMust, Spared, LastGone
  <2>1. evict.on
    BY NotRunningFields DEF CacheInv, CacheTypeOK
  <2>2. \A k \in DOMAIN index \ Spared : k \in DOMAIN evict.todo /\ evict.todo[k] = index[k]
    BY <2>1 DEF CacheInv, EvictInv
  <2>3. /\ \A e \in DOMAIN evict.evicted : evict.evicted[e] \in Nat
        /\ \A k \in DOMAIN evict.todo : evict.todo[k] \in Nat
    BY DEF CacheInv, CacheTypeOK, Entries
  <2>4. \A e \in DOMAIN evict.evicted, k \in DOMAIN index \ Spared :
           evict.evicted[e] <= index[k]
    BY <2>2, <2>3 DEF CacheInv, EvictInv
  <2> QED
    BY <2>4 DEF CacheInv, EvictInv
<1> QED
  BY <1>1, CacheInvariant, PTL
=============================================================================
