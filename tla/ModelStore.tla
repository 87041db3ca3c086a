----------------------------- MODULE ModelStore -----------------------------
(***************************************************************************)
(* The downloads of one model and the cache of all of them.  The two meet  *)
(* in the file a download leaves, the cache's Install; they share no other *)
(* state, so a behaviour is one of either part.                            *)
(***************************************************************************)
EXTENDS ModelDownload, ModelCache

VARIABLE part

vars == <<downloadVars, cacheVars, part>>

Init == DInit /\ CInit /\ part \in {"download", "cache"}

Download(A) == part = "download" /\ A /\ UNCHANGED <<cacheVars, part>>
Cache(A) == part = "cache" /\ A /\ UNCHANGED <<downloadVars, part>>

Next == Download(DNext) \/ Cache(CNext)

(* No fairness: the stream is lazy, its consumer need not poll it, and the *)
(* client is built without a timeout, a server need never answer.          *)
Spec == Init /\ [][Next]_vars

-----------------------------------------------------------------------------
(* A model whose hash is pinned is never installed unless it is whole,     *)
(* however often its download was dropped, resumed, restarted by a server  *)
(* that ignores Range or fed wrong bytes, as long as no two downloads of   *)
(* it ran at once; and it stays whole.                                     *)
InstalledIsWhole == final # None /\ pinned /\ ~shared => content[final] = Chunks

(* No download goes on for ever, whatever the servers send: fetches,       *)
(* fallbacks and the one retry are finitely many.  It ends, or stays at    *)
(* one point: no answer comes, no more of the body, or nobody polls.       *)
DownloadsEndOrHang ==
    \A d \in Downloads :
        \/ []<>(calls[d].at = "idle")
        \/ \E p \in {"ask", "sent", "body", "verify", "rename"} : <>[](calls[d].at = p)

(* A running process does not count a model whose file is gone, whatever   *)
(* failed before: it was registered without a file that never came, or the *)
(* process was killed after its eviction and before the next write of the  *)
(* index, which lets the next process find it there again.                 *)
IndexedIsPresent == DOMAIN index \subseteq files \cup unbacked \cup revived

(* evict_lru removes nothing it need not: what it removed was used before  *)
(* all that it could have removed instead, and without the last removal    *)
(* the cache was too large.                                                *)
EvictsOnlyWhatItMust ==
    LET gone == evict.evicted
        Kept == DOMAIN index \ (Imported \cup {evict.loaded})
        Last == CHOOSE m \in DOMAIN gone : \A n \in DOMAIN gone : gone[n] <= gone[m]
    IN  gone # NoEntries =>
            /\ \A e \in DOMAIN gone, k \in Kept : gone[e] <= index[k]
            /\ TotalSize(DOMAIN index \cup {Last}) > Target
            /\ DOMAIN gone \cap (Imported \cup {evict.loaded}) = {}
=============================================================================
