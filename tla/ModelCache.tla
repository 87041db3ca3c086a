----------------------------- MODULE ModelCache -----------------------------
(***************************************************************************)
(* The cache of downloaded models (core/src/models/cache.rs): model files, *)
(* an index in memory and its copy on disk, which register does not write  *)
(* and evict_lru writes after its loop.  register asks for no file: it may *)
(* come before the download.  Removing a file or writing the index may     *)
(* fail, and the process may be killed.                                    *)
(***************************************************************************)
EXTENDS Integers, FiniteSetsExt, Functions

CONSTANTS
    Models,
    Size,        \* Size[m]: in MB
    Imported,    \* the models the user imported
    Target,      \* target_size_mb of each eviction
    MaxClock     \* bound: uses and registrations, which are numbered

VARIABLES
    files,      \* the models whose file is there
    index,      \* the index in memory: last_used_at of each id in it
    disk,       \* index.json, likewise
    clock,
    evict,      \* a running evict_lru: what is loaded, what is left to look
                \* at and what is evicted, each with its last_used_at
    unbacked,   \* history: registered when there was no file, and none came since
    removed,    \* history: evicted since index.json was last written
    revived     \* history: removed when the process was killed

cacheVars == <<files, index, disk, clock, evict, unbacked, removed, revived>>

Nothing == "nothing"
NoEntries == [m \in {} |-> 0]
NotRunning == [on |-> FALSE, loaded |-> Nothing, todo |-> NoEntries, evicted |-> NoEntries]

CInit ==
    /\ files = {} /\ index = NoEntries /\ disk = NoEntries
    /\ clock = 0 /\ evict = NotRunning
    /\ unbacked = {} /\ removed = {} /\ revived = {}

With(entries, m, used) ==
    [n \in DOMAIN entries \cup {m} |-> IF n = m THEN used ELSE entries[n]]
Without(entries, m) == Restrict(entries, DOMAIN entries \ {m})
TotalSize(ids) == MapThenSumSet(LAMBDA m : Size[m], ids)

(* persist_index: what it writes replaces the old index in one rename; or  *)
(* it fails and nothing is written.                                        *)
Write(entries) ==
    \/ disk' = entries /\ removed' = {}
    \/ UNCHANGED <<disk, removed>>

-----------------------------------------------------------------------------
(* A download ends with the file in place, or the user copies one there.   *)
Install(m) ==
    /\ m \notin files /\ files' = files \cup {m}
    /\ unbacked' = unbacked \ {m} /\ revived' = revived \ {m}
    /\ UNCHANGED <<index, disk, clock, evict, removed>>

(* register, in memory only; its caller may persist_index.                 *)
Register(m) ==
    /\ ~evict.on /\ clock < MaxClock
    /\ clock' = clock + 1 /\ index' = With(index, m, clock + 1)
    /\ unbacked' = IF m \in files THEN unbacked ELSE unbacked \cup {m}
    /\ UNCHANGED <<files, disk, evict, removed, revived>>

PersistIndex ==
    /\ ~evict.on /\ Write(index)
    /\ UNCHANGED <<files, index, clock, evict, unbacked, revived>>

(* touch: the write that follows may fail.                                 *)
Touch(m) ==
    /\ m \in DOMAIN index /\ ~evict.on /\ clock < MaxClock
    /\ clock' = clock + 1 /\ index' = [index EXCEPT ![m] = clock + 1]
    /\ Write(index')
    /\ UNCHANGED <<files, evict, unbacked, revived>>

-----------------------------------------------------------------------------
(* evict_lru: the entries, sorted by last use ...                          *)
EvictStart(loaded) ==
    /\ ~evict.on /\ index # NoEntries
    /\ evict' = [NotRunning EXCEPT !.on = TRUE, !.loaded = loaded, !.todo = index]
    /\ UNCHANGED <<files, index, disk, clock, unbacked, removed, revived>>

(* mutated (as are the forms so marked below: slips the code could well    *)
(* contain, each breaks a property, the specification uses none):          *)
(* last_used_at descending                                                 *)
Newest == CHOOSE m \in DOMAIN evict.todo : \A n \in DOMAIN evict.todo : evict.todo[n] <= evict.todo[m]

Oldest == CHOOSE m \in DOMAIN evict.todo : \A n \in DOMAIN evict.todo : evict.todo[m] <= evict.todo[n]

(* mutated: the file is removed before it is seen that the model is spared *)
EvictNextFileFirst ==
    /\ evict.on /\ evict.todo # NoEntries /\ TotalSize(DOMAIN index) > Target
    /\ files' = files \ {Oldest}
    /\ IF Oldest = evict.loaded \/ Oldest \in Imported
       THEN /\ evict' = [evict EXCEPT !.todo = Without(@, Oldest)]
            /\ UNCHANGED <<index, removed>>
       ELSE /\ index' = Without(index, Oldest) /\ removed' = removed \cup {Oldest}
            /\ evict' = [evict EXCEPT !.todo = Without(@, Oldest),
                                      !.evicted = With(@, Oldest, index[Oldest])]
    /\ UNCHANGED <<disk, clock, unbacked, revived>>

(* ... are removed one by one, file first, until the rest is small enough; *)
(* the loaded model and the imported ones are skipped.                     *)
EvictNext ==
    /\ evict.on /\ evict.todo # NoEntries /\ TotalSize(DOMAIN index) > Target
    /\ IF Oldest = evict.loaded \/ Oldest \in Imported
       THEN /\ evict' = [evict EXCEPT !.todo = Without(@, Oldest)]
            /\ UNCHANGED <<files, index, removed>>
       ELSE /\ files' = files \ {Oldest} /\ index' = Without(index, Oldest)
            /\ removed' = removed \cup {Oldest}
            /\ evict' = [evict EXCEPT !.todo = Without(@, Oldest),
                                      !.evicted = With(@, Oldest, index[Oldest])]
    /\ UNCHANGED <<disk, clock, unbacked, revived>>

EvictEnd ==
    /\ evict.on /\ (evict.todo = NoEntries \/ TotalSize(DOMAIN index) <= Target)
    /\ evict' = NotRunning
    /\ IF evict.evicted = NoEntries THEN UNCHANGED <<disk, removed>> ELSE Write(index)
    /\ UNCHANGED <<files, index, clock, unbacked, revived>>

(* A file that cannot be removed ends the call before the index is written. *)
EvictFails ==
    /\ evict.on /\ evict' = NotRunning
    /\ UNCHANGED <<files, index, disk, clock, unbacked, removed, revived>>

(* cleanup_orphans: every model file that is not in the index goes, then   *)
(* the index is written; either may fail.                                  *)
CleanupOrphans ==
    /\ ~evict.on
    /\ \E gone \in SUBSET (files \ DOMAIN index) \ {{}} : files' = files \ gone
    /\ Write(index)
    /\ UNCHANGED <<index, clock, evict, unbacked, revived>>

(* The process is killed; the next one opens the cache.                    *)
Reopen ==
    /\ index' = disk /\ evict' = NotRunning
    /\ revived' = (revived \cup removed) \ files /\ removed' = {}
    /\ UNCHANGED <<files, disk, clock, unbacked>>

CNext ==
    \/ \E m \in Models : Install(m) \/ Register(m) \/ Touch(m)
    \/ PersistIndex \/ CleanupOrphans \/ Reopen
    \/ \E m \in Models \cup {Nothing} : EvictStart(m)
    \/ EvictNext \/ EvictEnd \/ EvictFails
=============================================================================
