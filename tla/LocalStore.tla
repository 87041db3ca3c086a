----------------------------- MODULE LocalStore -----------------------------
(***************************************************************************)
(* The local database of the mobile app: EncryptedDB.open and its users    *)
(* (encryptedDB.ts, useEncryptedDB.ts) with the import of the former       *)
(* Flutter app's database that runs at each launch until it is marked done *)
(* (migrationService.ts).  Key store, file system and SQL may fail at any  *)
(* call, and the process may be killed between any two.                    *)
(*                                                                         *)
(* A row is its id and whose content it has; keys are numbered.            *)
(***************************************************************************)
EXTENDS Integers, Sequences, FiniteSets

CONSTANTS
    Openers,      \* the callers of open(): mounted hooks, the import's caller
    Tables,       \* the tables in the order the import takes them
    Source,       \* Source[t]: the ids of the Flutter database's rows
    Own,          \* Own[t]: the ids a user's new rows may get
    MaxLaunches,  \* bound: launches
    MaxFaults     \* bound: calls that fail

VARIABLES
    keyStored,  \* the key in the key store, 0 if there is none
    fileKey,    \* the key the database file was made with, 0 if no file
    nKeys,      \* keys generated so far
    instance,   \* _instance is set
    opens,      \* opens[o]: what o's open() awaits, and its key
    raced,      \* history: two open() calls found no key at once
    rows,       \* rows[t][id]: "none", "source" or "user" (whose content it
                \* has), or "deleted" by the user
    flag,       \* MIGRATION_DONE_FLAG
    backup,     \* the .bak file: "none", "part" or "whole"
    import,     \* the import of this launch: its step, tables left, counts
    landed,     \* history: the rows of Source that were imported once
    excused,    \* history: why the flag may be set without them
    lost,       \* history: edits and deletions of the user that it undid
    launches, faults

openVars == <<keyStored, fileKey, nKeys, instance, opens, raced>>
rowVars == <<rows, lost>>
importVars == <<flag, backup, import, landed>>
vars == <<openVars, rowVars, importVars, excused, launches, faults>>

TableSet == {Tables[k] : k \in DOMAIN Tables}
Ids(t) == Source[t] \cup Own[t]
SourceRows == UNION {{t} \X Source[t] : t \in TableSet}

ASSUME LocalStoreAssumption ==
    /\ Tables \in Seq(STRING)
    /\ \A t \in TableSet : IsFiniteSet(Source[t]) /\ IsFiniteSet(Own[t])

Idle == [at |-> "idle", key |-> 0]
NotRun == [at |-> "off", todo |-> <<>>, counts |-> [t \in TableSet |-> 0]]

Init ==
    /\ keyStored = 0 /\ fileKey = 0 /\ nKeys = 0 /\ raced = FALSE
    /\ instance = FALSE /\ opens = [o \in Openers |-> Idle]
    /\ rows = [t \in TableSet |-> [id \in Ids(t) |-> "none"]] /\ lost = {}
    /\ flag = FALSE /\ backup = "none" /\ import = NotRun /\ landed = {}
    /\ excused = {} /\ launches = 1 /\ faults = 0

Works == UNCHANGED faults
Fails == faults < MaxFaults /\ faults' = faults + 1

-----------------------------------------------------------------------------
(* open(): an instance that is there is returned, a caller that finds none *)
(* goes on to the key.                                                     *)
CallOpen(o) ==
    /\ opens[o].at = "idle" /\ ~instance
    /\ opens' = [opens EXCEPT ![o].at = "get"]
    /\ UNCHANGED <<keyStored, fileKey, nKeys, instance, raced, rowVars,
                   importVars, excused, launches, faults>>

(* mutated (as are the forms so marked below: slips the code could well    *)
(* contain, each breaks a property, the specification uses none): a key    *)
(* that cannot be read is taken for none                                   *)
DeriveKeyAnyway(o) ==
    /\ opens[o].at = "get"
    /\ \/ Works /\ keyStored # 0
          /\ opens' = [opens EXCEPT ![o] = [at |-> "schema", key |-> keyStored]]
          /\ UNCHANGED <<nKeys, raced>>
       \/ /\ (Works /\ keyStored = 0) \/ Fails
          /\ nKeys' = nKeys + 1
          /\ opens' = [opens EXCEPT ![o] = [at |-> "set", key |-> nKeys + 1]]
          /\ raced' = (raced \/ \E p \in Openers : opens[p].at = "set")
    /\ UNCHANGED <<keyStored, fileKey, instance, rowVars, importVars, excused, launches>>

(* deriveDBKey: read the key; if there is none, generate one ...           *)
DeriveKey(o) ==
    /\ opens[o].at = "get"
    /\ \/ Works /\ keyStored # 0
          /\ opens' = [opens EXCEPT ![o] = [at |-> "schema", key |-> keyStored]]
          /\ UNCHANGED <<nKeys, raced>>
       \/ Works /\ keyStored = 0
          /\ nKeys' = nKeys + 1
          /\ opens' = [opens EXCEPT ![o] = [at |-> "set", key |-> nKeys + 1]]
          /\ raced' = (raced \/ \E p \in Openers : opens[p].at = "set")
       \/ Fails
          /\ opens' = [opens EXCEPT ![o] = Idle]
          /\ UNCHANGED <<nKeys, raced>>
    /\ UNCHANGED <<keyStored, fileKey, instance, rowVars, importVars, excused, launches>>

(* ... and store it.                                                       *)
StoreKey(o) ==
    /\ opens[o].at = "set"
    /\ \/ Works /\ keyStored' = opens[o].key
          /\ opens' = [opens EXCEPT ![o].at = "schema"]
       \/ Fails /\ opens' = [opens EXCEPT ![o] = Idle] /\ UNCHANGED keyStored
    /\ UNCHANGED <<fileKey, nKeys, instance, raced, rowVars, importVars,
                   excused, launches>>

(* Open the file: the first statement of the schema makes it, or fails if  *)
(* it was made with another key ...                                        *)
OpenFile(o) ==
    /\ opens[o].at = "schema"
    /\ \/ Works /\ fileKey \in {0, opens[o].key}
          /\ fileKey' = opens[o].key /\ opens' = [opens EXCEPT ![o].at = "tables"]
       \/ Works /\ fileKey \notin {0, opens[o].key}
          /\ opens' = [opens EXCEPT ![o] = Idle] /\ UNCHANGED fileKey
       \/ Fails /\ opens' = [opens EXCEPT ![o] = Idle] /\ UNCHANGED fileKey
    /\ UNCHANGED <<keyStored, nKeys, instance, raced, rowVars, importVars,
                   excused, launches>>

(* ... and the rest of it completes the instance.                          *)
ApplySchema(o) ==
    /\ opens[o].at = "tables"
    /\ opens' = [opens EXCEPT ![o] = Idle]
    /\ \/ Works /\ instance' = TRUE
       \/ Fails /\ UNCHANGED instance
    /\ UNCHANGED <<keyStored, fileKey, nKeys, raced, rowVars, importVars, excused, launches>>

-----------------------------------------------------------------------------
(* migrateFromFlutter, once in each launch, before the main UI.            *)

(* The flag (unreadable is unset), the Flutter key (unreadable is absent), *)
(* the Flutter database and its row counts (a failed count is 0).          *)
StartImport ==
    /\ import.at = "off" /\ instance
    /\ \/ /\ flag /\ Works
          /\ import' = [import EXCEPT !.at = "over"]
          /\ UNCHANGED <<flag, excused>>
       \/ /\ faults < MaxFaults
          /\ excused' = excused \cup {"gave up"}
          /\ import' = [import EXCEPT !.at = "over"]
          /\ flag' = TRUE /\ faults' = faults + 1
       \/ /\ (~flag /\ Works) \/ (flag /\ Fails)
          /\ import' = [at |-> "backup", todo |-> Tables,
                        counts |-> [t \in TableSet |-> Cardinality(Source[t])]]
          /\ UNCHANGED <<flag, excused>>
       \/ /\ ~flag /\ Fails
          /\ \E t \in TableSet :
                import' = [at |-> "backup", todo |-> Tables,
                           counts |-> [u \in TableSet |->
                                         IF u = t THEN 0 ELSE Cardinality(Source[u])]]
          /\ excused' = excused \cup {"miscounted"}
          /\ UNCHANGED flag
    /\ UNCHANGED <<openVars, rowVars, backup, landed, launches>>

(* backupFlutterDB: a .bak that exists, whole or not, is not copied again; *)
(* without one the import is given up for this launch.                     *)
BackUp ==
    /\ import.at = "backup"
    /\ \/ Works /\ import' = [import EXCEPT !.at = "import"]
          /\ backup' = IF backup = "none" THEN "whole" ELSE backup
       \/ Fails /\ import' = [import EXCEPT !.at = "over"]
          /\ backup' \in {backup} \cup (IF backup = "none" THEN {"part"} ELSE {})
    /\ UNCHANGED <<openVars, rowVars, flag, landed, excused, launches>>

Present(t) == {id \in Ids(t) : rows[t][id] \in {"source", "user"}}

(* One table: messages and drafts replace a row with the same id, actions  *)
(* leave it alone.  A row, or the whole read, may fail, and is left out.   *)
ImportTable ==
    LET t == Head(import.todo)
    IN  /\ import.at = "import" /\ import.todo # <<>>
        /\ \E came \in SUBSET Source[t] :
              LET written == {id \in came : t = "actions" => id \notin Present(t)}
              IN  /\ IF came = Source[t] THEN Works ELSE Fails
                  /\ rows' = [rows EXCEPT ![t] =
                       [id \in Ids(t) |-> IF id \in written THEN "source" ELSE @[id]]]
                  /\ lost' = lost \cup {<<t, id>> : id \in
                                {i \in written : rows[t][i] \in {"user", "deleted"}}}
                  /\ landed' = landed \cup {<<t, id>> : id \in came}
        /\ import' = [import EXCEPT !.todo = Tail(@)]
        /\ UNCHANGED <<openVars, flag, backup, excused, launches>>

(* mutated: the counts are compared the other way round *)
VerifiedBackwards ==
    \A t \in TableSet : import.counts[t] >= Cardinality(Present(t))

(* verifyMigratedCounts: rows the user made count as well.                 *)
Verified == \A t \in TableSet : Cardinality(Present(t)) >= import.counts[t]

(* mutated: the flag is written when a launch gives up, not at success *)
FinishImportUnmarked ==
    /\ import.at = "import" /\ import.todo = <<>>
    /\ Works /\ import' = [import EXCEPT !.at = "over"]
    /\ UNCHANGED <<openVars, rowVars, flag, excused, backup, landed, launches>>

FinishImport ==
    /\ import.at = "import" /\ import.todo = <<>>
    /\ \/ Works /\ Verified /\ import' = [import EXCEPT !.at = "mark"]
       \/ Works /\ ~Verified /\ import' = [import EXCEPT !.at = "over"]
       \/ Fails /\ import' = [import EXCEPT !.at = "over"]
    /\ UNCHANGED <<openVars, rowVars, flag, backup, landed, excused, launches>>

Mark ==
    /\ import.at = "mark"
    /\ import' = [import EXCEPT !.at = "over"]
    /\ \/ Works /\ flag' = TRUE
       \/ Fails /\ UNCHANGED flag
    /\ UNCHANGED <<openVars, rowVars, backup, landed, excused, launches>>

-----------------------------------------------------------------------------
(* The main UI: saveDraft, insertMessage, enqueueAction, updateActionStatus *)
(* and the deletes, which a failed call leaves undone.                     *)
Save(t, id) ==
    /\ import.at = "over"
    /\ rows' = [rows EXCEPT ![t][id] = "user"]
    /\ excused' = IF id \notin Present(t) /\ ~flag THEN excused \cup {"masked"} ELSE excused
    /\ UNCHANGED <<openVars, lost, importVars, launches, faults>>

Delete(t, id) ==
    /\ import.at = "over" /\ id \in Present(t)
    /\ rows' = [rows EXCEPT ![t][id] = "deleted"]
    /\ UNCHANGED <<openVars, lost, importVars, excused, launches, faults>>

(* The process ends, at any moment, and is started again.                  *)
Relaunch ==
    /\ launches < MaxLaunches
    /\ launches' = launches + 1
    /\ instance' = FALSE /\ opens' = [o \in Openers |-> Idle]
    /\ import' = NotRun
    /\ UNCHANGED <<keyStored, fileKey, nKeys, raced, rowVars, flag, backup,
                   landed, excused, faults>>

Next ==
    \/ \E o \in Openers : CallOpen(o) \/ DeriveKey(o) \/ StoreKey(o)
                         \/ OpenFile(o) \/ ApplySchema(o)
    \/ StartImport \/ BackUp \/ ImportTable \/ FinishImport \/ Mark
    \/ \E t \in TableSet : \E id \in Ids(t) : Save(t, id) \/ Delete(t, id)
    \/ Relaunch

Spec == Init /\ [][Next]_vars

-----------------------------------------------------------------------------
OpenTypeOK ==
    /\ keyStored \in Nat /\ fileKey \in Nat /\ nKeys \in Nat /\ raced \in BOOLEAN
    /\ opens \in [Openers -> [at : {"idle", "get", "set", "schema", "tables"}, key : Nat]]

RowTypeOK ==
    /\ DOMAIN rows = TableSet
    /\ \A t \in TableSet : rows[t] \in [Ids(t) -> {"none", "source", "user", "deleted"}]
    /\ landed \subseteq SourceRows

ImportStates == [at : {"off", "backup", "import", "mark", "over"},
                 todo : Seq(TableSet), counts : [TableSet -> Nat]]

ImportTypeOK == flag \in BOOLEAN /\ faults \in Nat /\ import \in ImportStates

TypeOK == OpenTypeOK /\ RowTypeOK /\ ImportTypeOK

(* The key store always holds the key the database file was made with,     *)
(* whatever failed or was killed while the first key was made and stored,  *)
(* unless two first calls of open() found no key at once: the check for an *)
(* instance is before the first await (encryptedDB.ts: "Idempotent").      *)
DataReadable == fileKey # 0 /\ ~raced => keyStored = fileKey

(* The import is marked done only when every row of the Flutter database   *)
(* came over, in one launch or in several that failed, unless it gave up   *)
(* on a key or a file it could not read, took a failed count for 0, or the *)
(* user's own rows made up for the missing ones.                           *)
MarkedOnlyIfComplete == flag /\ excused = {} => landed = SourceRows

(* Unless some call fails, the import never undoes what the user wrote or  *)
(* deleted since: it does not run a second time.                           *)
EditsSurvive == faults = 0 => lost = {}
=============================================================================
