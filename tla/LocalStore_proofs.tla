-------------------------- MODULE LocalStore_proofs --------------------------
(***************************************************************************)
(* Proofs about LocalStore, for any callers of open(), any tables and rows *)
(* and any number of launches and faults.                                  *)
(***************************************************************************)
EXTENDS LocalStore, FiniteSetTheorems, TLAPS

(* The tables are a sequence of their own set, each with finitely many rows. *)
LEMMA TablesAreTables ==
    /\ Tables \in Seq(TableSet)
    /\ \A t \in TableSet : Cardinality(Source[t]) \in Nat
    /\ \A t \in TableSet : Cardinality(Source[t]) >= 0
<1>1. Tables \in Seq(TableSet)
  BY LocalStoreAssumption DEF TableSet
<1>2. \A t \in TableSet : Cardinality(Source[t]) \in Nat
  BY LocalStoreAssumption, FS_CardinalityType
<1> QED
  BY <1>1, <1>2

(* Of the steps, only those of open() and a relaunch touch its state, and  *)
(* only the import's, the user's and a relaunch the rows and the import.   *)
LEMMA OthersLeaveOpen ==
    [Next]_vars =>
        \/ \E o \in Openers : CallOpen(o) \/ DeriveKey(o) \/ StoreKey(o)
                              \/ OpenFile(o) \/ ApplySchema(o)
        \/ Relaunch
        \/ UNCHANGED openVars
BY DEF Next, vars, StartImport, BackUp, ImportTable, FinishImport, Mark, Save, Delete

(* The first launch's state has its types.                                 *)
LEMMA TypeInit == Init => TypeOK
<1> SUFFICES ASSUME Init PROVE TypeOK
  OBVIOUS
<1>1. OpenTypeOK
  BY DEF Init, OpenTypeOK, Idle
<1>2. RowTypeOK
  BY DEF Init, RowTypeOK
<1>3. ImportTypeOK
  <2>1. flag \in BOOLEAN /\ faults \in Nat
    BY DEF Init
  <2>2. import = [at |-> "off", todo |-> <<>>, counts |-> [t \in TableSet |-> 0]]
    BY DEF Init, NotRun
  <2> QED
    BY <2>1, <2>2 DEF ImportTypeOK, ImportStates
<1> QED
  BY <1>1, <1>2, <1>3 DEF TypeOK

(* Every step leaves the state of open() well-typed.                       *)
LEMMA OpenTypeStep == OpenTypeOK /\ [Next]_vars => OpenTypeOK'
<1> SUFFICES ASSUME OpenTypeOK, [Next]_vars PROVE OpenTypeOK'
  OBVIOUS
<1> USE DEF OpenTypeOK, Works, Fails, Idle
<1>1. ASSUME NEW o \in Openers, CallOpen(o) PROVE OpenTypeOK'
  BY <1>1 DEF CallOpen
<1>2. ASSUME NEW o \in Openers, DeriveKey(o) PROVE OpenTypeOK'
  <2>1. raced' \in BOOLEAN
    BY <1>2, Zenon DEF DeriveKey
  <2>2. /\ keyStored' = keyStored /\ fileKey' = fileKey
        /\ nKeys' \in {nKeys, nKeys + 1}
        /\ \E call \in {[at |-> "schema", key |-> keyStored],
                        [at |-> "set", key |-> nKeys + 1], Idle} :
              opens' = [opens EXCEPT ![o] = call]
    BY <1>2 DEF DeriveKey
  <2> QED
    BY <2>1, <2>2
<1>3. ASSUME NEW o \in Openers, StoreKey(o) PROVE OpenTypeOK'
  BY <1>3 DEF StoreKey
<1>4. ASSUME NEW o \in Openers, OpenFile(o) PROVE OpenTypeOK'
  BY <1>4 DEF OpenFile
<1>5. ASSUME NEW o \in Openers, ApplySchema(o) PROVE OpenTypeOK'
  BY <1>5 DEF ApplySchema
<1>6. CASE Relaunch
  BY <1>6 DEF Relaunch
<1>7. CASE UNCHANGED openVars
  BY <1>7 DEF openVars
<1> QED
  BY <1>1, <1>2, <1>3, <1>4, <1>5, <1>6, <1>7, OthersLeaveOpen

(* The same for the rows and the import. *)
LEMMA OthersLeaveRows ==
    [Next]_vars =>
        \/ /\ UNCHANGED <<rowVars, importVars, excused>>
           /\ faults' = faults \/ faults' = faults + 1
        \/ StartImport \/ BackUp \/ ImportTable \/ FinishImport \/ Mark
        \/ \E t \in TableSet : \E id \in Ids(t) : Save(t, id) \/ Delete(t, id)
        \/ Relaunch
<1> SUFFICES ASSUME [Next]_vars
             PROVE  \/ /\ UNCHANGED <<rowVars, importVars, excused>>
                       /\ faults' = faults \/ faults' = faults + 1
                    \/ StartImport \/ BackUp \/ ImportTable \/ FinishImport \/ Mark
                    \/ \E t \in TableSet : \E id \in Ids(t) : Save(t, id) \/ Delete(t, id)
                    \/ Relaunch
  OBVIOUS
<1>1. ASSUME NEW o \in Openers,
             CallOpen(o) \/ DeriveKey(o) \/ StoreKey(o) \/ OpenFile(o) \/ ApplySchema(o)
      PROVE  /\ UNCHANGED <<rowVars, importVars, excused>>
             /\ faults' = faults \/ faults' = faults + 1
  BY <1>1 DEF CallOpen, DeriveKey, StoreKey, OpenFile, ApplySchema, Works, Fails
<1>2. CASE UNCHANGED vars
  BY <1>2 DEF vars
<1> QED
  BY <1>1, <1>2 DEF Next

(* What the import of one table does. *)
LEMMA ImportOneTable ==
    ASSUME TypeOK, ImportTable
    PROVE  \E t \in TableSet : \E came \in SUBSET Source[t] :
             /\ t = Head(import.todo) /\ import.todo # <<>> /\ import.at = "import"
             /\ \/ faults' = faults /\ came = Source[t]
                \/ faults' = faults + 1
             /\ DOMAIN rows' = TableSet
             /\ \A u \in TableSet \ {t} : rows'[u] = rows[u]
             /\ \A id \in Ids(t) :
                   \/ id \in came /\ rows'[t][id] = "source"
                   \/ id \in came /\ id \in Present(t) /\ rows'[t][id] = rows[t][id]
                   \/ id \notin came /\ rows'[t][id] = rows[t][id]
             /\ rows'[t] \in [Ids(t) -> {"none", "source", "user", "deleted"}]
             /\ lost' = lost \cup {<<t, id>> : id \in
                     {i \in {j \in came : t = "actions" => j \notin Present(t)} :
                          rows[t][i] \in {"user", "deleted"}}}
             /\ landed' = landed \cup {<<t, id>> : id \in came}
             /\ import' = [import EXCEPT !.todo = Tail(@)]
<1> DEFINE t == Head(import.todo)
<1>1. import.todo \in Seq(TableSet) /\ import.todo # <<>> /\ import.at = "import"
  BY DEF TypeOK, ImportTypeOK, ImportStates, ImportTable
<1>2. t \in TableSet
  BY <1>1
<1>3. PICK came \in SUBSET Source[t] :
        LET written == {id \in came : t = "actions" => id \notin Present(t)}
        IN  /\ IF came = Source[t] THEN Works ELSE Fails
            /\ rows' = [rows EXCEPT ![t] =
                 [id \in Ids(t) |-> IF id \in written THEN "source" ELSE @[id]]]
            /\ lost' = lost \cup {<<t, id>> : id \in
                          {i \in written : rows[t][i] \in {"user", "deleted"}}}
            /\ landed' = landed \cup {<<t, id>> : id \in came}
  BY DEF ImportTable
<1>4. DOMAIN rows = TableSet
      /\ rows[t] \in [Ids(t) -> {"none", "source", "user", "deleted"}]
  BY <1>2 DEF TypeOK, RowTypeOK
<1>5. rows'[t] = [id \in Ids(t) |->
                    IF id \in came /\ (t = "actions" => id \notin Present(t))
                    THEN "source" ELSE rows[t][id]]
  BY <1>2, <1>3, <1>4
<1>6. DOMAIN rows' = TableSet /\ \A u \in TableSet \ {t} : rows'[u] = rows[u]
  BY <1>3, <1>4
<1>7. \A id \in Ids(t) :
         \/ id \in came /\ rows'[t][id] = "source"
         \/ id \in came /\ id \in Present(t) /\ rows'[t][id] = rows[t][id]
         \/ id \notin came /\ rows'[t][id] = rows[t][id]
  BY <1>5
<1>8. rows'[t] \in [Ids(t) -> {"none", "source", "user", "deleted"}]
  BY <1>4, <1>5
<1>9. import' = [import EXCEPT !.todo = Tail(@)]
  BY DEF ImportTable
<1>10. (faults' = faults /\ came = Source[t]) \/ faults' = faults + 1
  BY <1>3 DEF Works, Fails
<1> QED
  BY <1>1, <1>2, <1>3, <1>6, <1>7, <1>8, <1>9, <1>10

(* Every step leaves the rows well-typed.                                  *)
LEMMA RowTypeStep == TypeOK /\ [Next]_vars => RowTypeOK'
<1> SUFFICES ASSUME TypeOK, [Next]_vars PROVE RowTypeOK'
  OBVIOUS
<1> USE DEF TypeOK, RowTypeOK
<1>1. CASE ImportTable
  <2>1. PICK t \in TableSet : \E came \in SUBSET Source[t] :
             /\ DOMAIN rows' = TableSet
             /\ \A u \in TableSet \ {t} : rows'[u] = rows[u]
             /\ rows'[t] \in [Ids(t) -> {"none", "source", "user", "deleted"}]
             /\ landed' = landed \cup {<<t, id>> : id \in came}
    BY <1>1, ImportOneTable, Zenon
  <2>2. landed' \subseteq SourceRows
    BY <2>1 DEF SourceRows
  <2> QED
    BY <2>1, <2>2
<1>2. ASSUME NEW t \in TableSet, NEW id \in Ids(t), Save(t, id) PROVE RowTypeOK'
  BY <1>2 DEF Save, importVars
<1>3. ASSUME NEW t \in TableSet, NEW id \in Ids(t), Delete(t, id) PROVE RowTypeOK'
  BY <1>3 DEF Delete, importVars
<1>4. CASE UNCHANGED <<rows, landed>>
  BY <1>4
<1>5. StartImport \/ BackUp \/ FinishImport \/ Mark \/ Relaunch => UNCHANGED <<rows, landed>>
  BY DEF StartImport, BackUp, FinishImport, Mark, Relaunch, rowVars
<1> QED
  BY <1>1, <1>2, <1>3, <1>4, <1>5, OthersLeaveRows DEF rowVars, importVars

(* The import's record after each kind of step. *)
LEMMA ImportMoves ==
    ASSUME NEW i \in ImportStates
    PROVE  /\ \A at \in {"import", "mark", "over"} : [i EXCEPT !.at = at] \in ImportStates
           /\ i.todo # <<>> => [i EXCEPT !.todo = Tail(@)] \in ImportStates
           /\ \A counts \in [TableSet -> Nat] :
                 [at |-> "backup", todo |-> Tables, counts |-> counts] \in ImportStates
           /\ NotRun \in ImportStates
<1>1. NotRun \in ImportStates
  BY DEF NotRun, ImportStates
<1>2. ASSUME i.todo # <<>> PROVE [i EXCEPT !.todo = Tail(@)] \in ImportStates
  <2>1. i.todo \in Seq(TableSet)
    BY DEF ImportStates
  <2>2. Tail(i.todo) \in Seq(TableSet)
    BY <1>2, <2>1
  <2> QED
    BY <2>2 DEF ImportStates
<1>3. \A at \in {"import", "mark", "over"} : [i EXCEPT !.at = at] \in ImportStates
  BY DEF ImportStates
<1>4. \A counts \in [TableSet -> Nat] :
        [at |-> "backup", todo |-> Tables, counts |-> counts] \in ImportStates
  BY TablesAreTables DEF ImportStates
<1> QED
  BY <1>1, <1>2, <1>3, <1>4

(* The two kinds of counts StartImport may note. *)
LEMMA CountsAreCounts ==
    /\ [t \in TableSet |-> Cardinality(Source[t])] \in [TableSet -> Nat]
    /\ \A t \in TableSet :
          [u \in TableSet |-> IF u = t THEN 0 ELSE Cardinality(Source[u])] \in [TableSet -> Nat]
BY TablesAreTables

(* A step has at most one fault. *)
LEMMA FaultsAdd == TypeOK /\ [Next]_vars => faults' = faults \/ faults' = faults + 1
<1> SUFFICES ASSUME TypeOK, [Next]_vars PROVE faults' = faults \/ faults' = faults + 1
  OBVIOUS
<1>1. StartImport \/ BackUp \/ FinishImport \/ Mark
        => faults' = faults \/ faults' = faults + 1
  BY Zenon DEF StartImport, BackUp, FinishImport, Mark, Works, Fails
<1>2. ImportTable => faults' = faults \/ faults' = faults + 1
  BY ImportOneTable
<1>3. \A t \in TableSet : \A id \in Ids(t) : Save(t, id) \/ Delete(t, id) => faults' = faults
  BY DEF Save, Delete
<1>4. Relaunch => faults' = faults
  BY DEF Relaunch
<1> QED
  BY <1>1, <1>2, <1>3, <1>4, OthersLeaveRows

(* Every step leaves the import's record well-typed.                       *)
LEMMA ImportTypeStep == TypeOK /\ [Next]_vars => ImportTypeOK'
<1> SUFFICES ASSUME TypeOK, [Next]_vars PROVE ImportTypeOK'
  OBVIOUS
<1>1. flag \in BOOLEAN /\ faults \in Nat /\ import \in ImportStates
  BY DEF TypeOK, ImportTypeOK
<1>2. faults' \in Nat
  BY <1>1, FaultsAdd
<1>3. flag' \in BOOLEAN
  <2>1. StartImport \/ BackUp \/ FinishImport \/ Mark \/ ImportTable \/ Relaunch
          => flag' = TRUE \/ flag' = flag
    BY Zenon DEF StartImport, BackUp, FinishImport, Mark, ImportTable, Relaunch
  <2>2. \A t \in TableSet : \A id \in Ids(t) : Save(t, id) \/ Delete(t, id) => flag' = flag
    BY DEF Save, Delete, importVars
  <2>3. UNCHANGED <<rowVars, importVars, excused>> => flag' = flag
    BY DEF importVars
  <2> QED
    BY <1>1, <2>1, <2>2, <2>3, OthersLeaveRows
<1>4. import' \in ImportStates
  <2>1. BackUp \/ FinishImport \/ Mark
          => \E at \in {"import", "mark", "over"} : import' = [import EXCEPT !.at = at]
    BY Zenon DEF BackUp, FinishImport, Mark
  <2>2. StartImport
          => \/ import' = [import EXCEPT !.at = "over"]
             \/ \E counts \in [TableSet -> Nat] :
                   import' = [at |-> "backup", todo |-> Tables, counts |-> counts]
    BY CountsAreCounts, Zenon DEF StartImport
  <2>3. ImportTable => import.todo # <<>> /\ import' = [import EXCEPT !.todo = Tail(@)]
    BY DEF ImportTable
  <2>4. Relaunch => import' = NotRun
    BY DEF Relaunch
  <2>5. \A t \in TableSet : \A id \in Ids(t) : Save(t, id) \/ Delete(t, id) => import' = import
    BY DEF Save, Delete, importVars
  <2>6. UNCHANGED <<rowVars, importVars, excused>> => import' = import
    BY DEF importVars
  <2> QED
    BY <1>1, <2>1, <2>2, <2>3, <2>4, <2>5, <2>6, OthersLeaveRows, ImportMoves
<1> QED
  BY <1>2, <1>3, <1>4, Zenon DEF ImportTypeOK

(* Every reachable state has its types. *)
THEOREM TypeCorrect == Spec => []TypeOK
<1>1. TypeOK /\ [Next]_vars => TypeOK'
  BY OpenTypeStep, RowTypeStep, ImportTypeStep DEF TypeOK
<1> QED
  BY <1>1, TypeInit, PTL DEF Spec

-----------------------------------------------------------------------------
(* While no two calls have found the key store empty: a call that made a   *)
(* key is alone in this and the store is still empty, and every other that *)
(* goes on has the key that is stored, as has the file.                    *)
KeyInv ==
    raced \/
    /\ \A o \in Openers : opens[o].at = "set" => keyStored = 0 /\ opens[o].key # 0
    /\ \A o, p \in Openers : opens[o].at = "set" /\ opens[p].at = "set" => o = p
    /\ \A o \in Openers :
          opens[o].at \in {"schema", "tables"} => opens[o].key = keyStored /\ keyStored # 0
    /\ fileKey # 0 => fileKey = keyStored

(* Every step keeps the key that is in use the one that is stored.         *)
LEMMA KeyStep == OpenTypeOK /\ KeyInv /\ [Next]_vars => KeyInv'
<1> SUFFICES ASSUME OpenTypeOK, KeyInv, [Next]_vars PROVE KeyInv'
  OBVIOUS
<1> USE DEF KeyInv, OpenTypeOK, Idle
<1>1. ASSUME NEW o \in Openers, CallOpen(o) PROVE KeyInv'
  BY <1>1 DEF CallOpen
<1>2. ASSUME NEW o \in Openers, DeriveKey(o) PROVE KeyInv'
  <2>1. CASE /\ keyStored # 0 /\ raced' = raced
             /\ opens' = [opens EXCEPT ![o] = [at |-> "schema", key |-> keyStored]]
    BY <1>2, <2>1 DEF DeriveKey
  <2>2. CASE /\ keyStored = 0 /\ \E p \in Openers : opens[p].at = "set"
             /\ raced'
    BY <2>2
  <2>3. CASE /\ keyStored = 0 /\ ~\E p \in Openers : opens[p].at = "set"
             /\ raced' = raced
             /\ opens' = [opens EXCEPT ![o] = [at |-> "set", key |-> nKeys + 1]]
    BY <1>2, <2>3 DEF DeriveKey
  <2>4. CASE raced' = raced /\ opens' = [opens EXCEPT ![o] = Idle]
    BY <1>2, <2>4 DEF DeriveKey
  <2> QED
    BY <1>2, <2>1, <2>2, <2>3, <2>4, Zenon DEF DeriveKey
<1>3. ASSUME NEW o \in Openers, StoreKey(o) PROVE KeyInv'
  BY <1>3 DEF StoreKey
<1>4. ASSUME NEW o \in Openers, OpenFile(o) PROVE KeyInv'
  BY <1>4 DEF OpenFile
<1>5. ASSUME NEW o \in Openers, ApplySchema(o) PROVE KeyInv'
  BY <1>5 DEF ApplySchema
<1>6. CASE Relaunch
  BY <1>6 DEF Relaunch
<1>7. CASE UNCHANGED openVars
  BY <1>7 DEF openVars
<1> QED
  BY <1>1, <1>2, <1>3, <1>4, <1>5, <1>6, <1>7, OthersLeaveOpen

(* The key store holds the key of the database file, however many callers  *)
(* open it, fail and are killed, unless two found the key store empty.     *)
THEOREM DataStaysReadable == Spec => []DataReadable
<1>1. Init => KeyInv
  BY DEF Init, KeyInv, Idle
<1>2. KeyInv => DataReadable
  BY DEF KeyInv, DataReadable
<1> QED
  BY <1>1, <1>2, KeyStep, TypeCorrect, PTL DEF Spec, TypeOK

-----------------------------------------------------------------------------
(* While nothing fails: the import runs before anything the user wrote, it *)
(* brings every row over, and when it is over it is marked done.           *)
Untouched == \A t \in TableSet : \A id \in Ids(t) : rows[t][id] \in {"none", "source"}

Counted == \A t \in TableSet : import.counts[t] = Cardinality(Source[t])

Brought ==
    \A t \in TableSet : (\A k \in 1 .. Len(import.todo) : import.todo[k] # t) =>
        \A id \in Source[t] : rows[t][id] = "source"

Smooth ==
    /\ lost = {}
    /\ ~flag => Untouched
    /\ import.at \in {"backup", "import", "mark"} => ~flag
    /\ import.at = "over" => flag
    /\ import.at = "backup" => import.todo = Tables
    /\ import.at \in {"backup", "import"} => Counted
    /\ import.at = "import" => Brought

EditInv == faults = 0 => Smooth

(* An import that brought every row over is verified. *)
LEMMA BroughtIsVerified ==
    ASSUME TypeOK, Counted, Brought, import.todo = <<>>
    PROVE  Verified
<1> SUFFICES ASSUME NEW t \in TableSet
             PROVE  Cardinality(Present(t)) >= import.counts[t]
  BY DEF Verified
<1>1. Source[t] \subseteq Present(t)
  BY DEF Brought, Present, Ids
<1>2. IsFiniteSet(Ids(t))
  BY LocalStoreAssumption, FS_Union DEF Ids
<1>3. IsFiniteSet(Present(t))
  BY <1>2, FS_Subset DEF Present
<1>4. Cardinality(Source[t]) <= Cardinality(Present(t))
  BY <1>1, <1>3, FS_Subset
<1>5. Cardinality(Source[t]) \in Nat /\ Cardinality(Present(t)) \in Nat
  BY <1>3, LocalStoreAssumption, FS_CardinalityType
<1> QED
  BY <1>4, <1>5 DEF Counted

(* Without a fault every step keeps what the user did.                     *)
LEMMA EditStep == TypeOK /\ EditInv /\ [Next]_vars => EditInv'
<1> SUFFICES ASSUME TypeOK, EditInv, [Next]_vars, faults' = 0 PROVE Smooth'
  BY DEF EditInv
<1>1. faults = 0 /\ faults' = faults /\ ~Fails
  BY FaultsAdd DEF TypeOK, ImportTypeOK, Fails
<1>2. Smooth
  BY <1>1 DEF EditInv
<1>3. CASE StartImport
  <2>1. /\ UNCHANGED <<rows, lost, flag>>
        /\ \/ flag /\ import' = [import EXCEPT !.at = "over"]
           \/ ~flag /\ import' = [at |-> "backup", todo |-> Tables,
                                  counts |-> [t \in TableSet |-> Cardinality(Source[t])]]
    <3>1. faults' # faults + 1
      BY <1>1
    <3> QED
      BY <1>1, <1>3, <3>1, Zenon DEF StartImport, Fails, rowVars
  <2>2. import \in ImportStates
    BY DEF TypeOK, ImportTypeOK
  <2>3. CASE flag
    BY <1>2, <2>1, <2>2, <2>3 DEF Smooth, Untouched, ImportStates
  <2>4. CASE ~flag
    BY <1>2, <2>1, <2>4 DEF Smooth, Untouched, Counted
  <2> QED
    BY <2>3, <2>4
<1>4. CASE BackUp
  <2>1. /\ UNCHANGED <<rows, lost, flag>> /\ import.at = "backup"
        /\ import' = [import EXCEPT !.at = "import"]
    BY <1>1, <1>4, Zenon DEF BackUp, rowVars
  <2>2. import \in ImportStates
    BY DEF TypeOK, ImportTypeOK
  <2>3. /\ import'.at = "import" /\ import'.todo = Tables
        /\ import'.counts = import.counts
    BY <1>2, <2>1, <2>2 DEF Smooth, ImportStates
  <2>4. Brought'
    BY <2>3, LocalStoreAssumption DEF Brought, TableSet
  <2> QED
    BY <1>2, <2>1, <2>3, <2>4 DEF Smooth, Untouched, Counted
<1>5. CASE ImportTable
  <2>1. PICK t \in TableSet :
          /\ t = Head(import.todo) /\ import.todo # <<>> /\ import.at = "import"
          /\ \A u \in TableSet \ {t} : rows'[u] = rows[u]
          /\ \A id \in Ids(t) :
                \/ rows'[t][id] = "source"
                \/ id \in Present(t) /\ rows'[t][id] = rows[t][id]
                \/ id \notin Source[t] /\ rows'[t][id] = rows[t][id]
          /\ \E lapsed \in SUBSET Source[t] :
                /\ \A id \in lapsed : rows[t][id] \in {"user", "deleted"}
                /\ lost' = lost \cup {<<t, id>> : id \in lapsed}
          /\ import' = [import EXCEPT !.todo = Tail(@)]
    <3>1. PICK t \in TableSet : \E came \in SUBSET Source[t] :
             /\ t = Head(import.todo) /\ import.todo # <<>> /\ import.at = "import"
             /\ \/ faults' = faults /\ came = Source[t]
                \/ faults' = faults + 1
             /\ \A u \in TableSet \ {t} : rows'[u] = rows[u]
             /\ \A id \in Ids(t) :
                   \/ id \in came /\ rows'[t][id] = "source"
                   \/ id \in came /\ id \in Present(t) /\ rows'[t][id] = rows[t][id]
                   \/ id \notin came /\ rows'[t][id] = rows[t][id]
             /\ lost' = lost \cup {<<t, id>> : id \in
                     {i \in {j \in came : t = "actions" => j \notin Present(t)} :
                          rows[t][i] \in {"user", "deleted"}}}
             /\ import' = [import EXCEPT !.todo = Tail(@)]
      BY <1>5, ImportOneTable, Zenon
    <3>2. faults' # faults + 1
      BY <1>1
    <3>3. \A id \in Ids(t) :
             \/ rows'[t][id] = "source"
             \/ id \in Present(t) /\ rows'[t][id] = rows[t][id]
             \/ id \notin Source[t] /\ rows'[t][id] = rows[t][id]
      BY <3>1, <3>2, Zenon
    <3>4. \E lapsed \in SUBSET Source[t] :
             /\ \A id \in lapsed : rows[t][id] \in {"user", "deleted"}
             /\ lost' = lost \cup {<<t, id>> : id \in lapsed}
      <4>1. PICK came \in SUBSET Source[t] :
               lost' = lost \cup {<<t, id>> : id \in
                     {i \in {j \in came : t = "actions" => j \notin Present(t)} :
                          rows[t][i] \in {"user", "deleted"}}}
        BY <3>1, Zenon
      <4> DEFINE lapsed == {i \in {j \in came : t = "actions" => j \notin Present(t)} :
                               rows[t][i] \in {"user", "deleted"}}
      <4>2. /\ lapsed \in SUBSET Source[t]
            /\ \A id \in lapsed : rows[t][id] \in {"user", "deleted"}
        OBVIOUS
      <4> QED
        BY <4>1, <4>2, Zenon
    <3> QED
      BY <3>1, <3>3, <3>4, Zenon
  <2>2. import \in ImportStates /\ flag' = flag
    BY <1>5 DEF TypeOK, ImportTypeOK, ImportTable
  <2>3. ~flag /\ Untouched
    BY <1>2, <2>1 DEF Smooth
  <2>4. lost' = {}
    BY <1>2, <2>1, <2>3 DEF Smooth, Untouched, Ids
  <2>5. \A id \in Ids(t) : rows'[t][id] \in {"none", "source"}
    BY <2>1, <2>3 DEF Untouched
  <2>6. Untouched'
    BY <2>1, <2>3, <2>5 DEF Untouched
  <2>7. \A id \in Source[t] : rows'[t][id] = "source"
    BY <2>1, <2>3 DEF Untouched, Present, Ids
  <2>8. /\ import'.at = "import" /\ import'.counts = import.counts
        /\ import'.todo = Tail(import.todo)
    BY <2>1, <2>2 DEF ImportStates
  <2>9. ASSUME NEW u \in TableSet \ {t},
               \A k \in 1 .. Len(import'.todo) : import'.todo[k] # u
        PROVE  \A id \in Source[u] : rows'[u][id] = "source"
    <3>1. \A k \in 1 .. Len(import.todo) : import.todo[k] # u
      <4>1. import.todo \in Seq(TableSet)
        BY <2>2 DEF ImportStates
      <4>2. ASSUME NEW k \in 1 .. Len(import.todo), k # 1
            PROVE  k - 1 \in 1 .. Len(Tail(import.todo)) /\ Tail(import.todo)[k - 1] = import.todo[k]
        BY <2>1, <4>1, <4>2
      <4>3. import.todo[1] # u
        BY <2>1, <4>1
      <4> QED
        BY <2>8, <2>9, <4>2, <4>3
    <3> QED
      BY <1>2, <2>1, <3>1 DEF Smooth, Brought
  <2>10. Brought'
    BY <2>7, <2>9 DEF Brought
  <2> QED
    BY <1>2, <2>1, <2>2, <2>3, <2>4, <2>6, <2>8, <2>10 DEF Smooth, Counted
<1>6. CASE FinishImport
  <2>1. import.at = "import" /\ import.todo = <<>>
    BY <1>6 DEF FinishImport
  <2>2. Verified
    BY <1>2, <2>1, BroughtIsVerified DEF Smooth
  <2>3. /\ UNCHANGED <<rows, lost, flag>> /\ import' = [import EXCEPT !.at = "mark"]
    BY <1>1, <1>6, <2>2, Zenon DEF FinishImport, rowVars
  <2>4. import'.at = "mark"
    BY <2>3 DEF TypeOK, ImportTypeOK, ImportStates
  <2> QED
    BY <1>2, <2>1, <2>3, <2>4 DEF Smooth, Untouched
<1>7. CASE Mark
  <2>1. /\ UNCHANGED <<rows, lost>> /\ flag' = TRUE /\ import' = [import EXCEPT !.at = "over"]
    BY <1>1, <1>7, Zenon DEF Mark, rowVars
  <2>2. import'.at = "over"
    BY <2>1 DEF TypeOK, ImportTypeOK, ImportStates
  <2> QED
    BY <1>2, <2>1, <2>2 DEF Smooth
<1>8. ASSUME NEW t \in TableSet, NEW id \in Ids(t), Save(t, id) \/ Delete(t, id)
      PROVE  Smooth'
  <2>1. UNCHANGED <<lost, flag, import>> /\ import.at = "over"
    BY <1>8 DEF Save, Delete, importVars
  <2> QED
    BY <1>2, <2>1 DEF Smooth
<1>9. CASE Relaunch
  <2>1. UNCHANGED <<rows, lost, flag>> /\ import'.at = "off"
    BY <1>9 DEF Relaunch, NotRun, rowVars
  <2> QED
    BY <1>2, <2>1 DEF Smooth, Untouched
<1>10. CASE UNCHANGED <<rowVars, importVars, excused>>
  BY <1>2, <1>10 DEF rowVars, importVars, Smooth, Untouched, Counted, Brought
<1> QED
  BY <1>3, <1>4, <1>5, <1>6, <1>7, <1>8, <1>9, <1>10, OthersLeaveRows

(* Unless some call fails, the import never undoes what the user wrote or  *)
(* deleted, for any tables, rows, launches and kills.                      *)
THEOREM EditsAreKept == Spec => []EditsSurvive
<1>1. Init => EditInv
  BY DEF Init, EditInv, Smooth, Untouched, NotRun
<1>2. EditInv => EditsSurvive
  BY DEF EditInv, EditsSurvive, Smooth
<1> QED
  BY <1>1, <1>2, EditStep, TypeCorrect, PTL DEF Spec

-----------------------------------------------------------------------------
(* While there is no excuse: rows on the device came over, counts are true, *)
(* and what was verified or marked is complete.                            *)
Landed == \A t \in TableSet : \A id \in Present(t) : <<t, id>> \in landed

Sound ==
    /\ ~flag => Landed
    /\ import.at \in {"backup", "import"} => Counted
    /\ import.at = "mark" => landed = SourceRows
    /\ flag => landed = SourceRows

CompleteInv == excused = {} => Sound

(* Rows that came over and are as many as there were are all of them.      *)
LEMMA VerifiedIsComplete ==
    ASSUME TypeOK, Landed, Counted, Verified
    PROVE  landed = SourceRows
<1>1. landed \subseteq SourceRows
  BY DEF TypeOK, RowTypeOK
<1>2. ASSUME NEW t \in TableSet PROVE Present(t) = Source[t]
  <2>1. Present(t) \subseteq Source[t]
    <3> SUFFICES ASSUME NEW id \in Present(t) PROVE id \in Source[t]
      OBVIOUS
    <3>1. <<t, id>> \in SourceRows
      BY <1>1 DEF Landed
    <3>2. PICK u \in TableSet : <<t, id>> \in {u} \X Source[u]
      BY <3>1 DEF SourceRows
    <3> QED
      BY <3>2
  <2>2. IsFiniteSet(Source[t]) /\ Cardinality(Source[t]) \in Nat
    BY LocalStoreAssumption, FS_CardinalityType
  <2>3. /\ IsFiniteSet(Present(t)) /\ Cardinality(Present(t)) <= Cardinality(Source[t])
        /\ Cardinality(Source[t]) = Cardinality(Present(t)) => Source[t] = Present(t)
    BY <2>1, <2>2, FS_Subset
  <2>4. Cardinality(Present(t)) \in Nat
    BY <2>3, FS_CardinalityType
  <2>5. Cardinality(Present(t)) >= Cardinality(Source[t])
    BY DEF Verified, Counted
  <2> QED
    BY <2>2, <2>3, <2>4, <2>5
<1>3. SourceRows \subseteq landed
  BY <1>2 DEF SourceRows, Landed
<1> QED
  BY <1>1, <1>3

(* Every step of an import leaves its record of what came over true.       *)
LEMMA CompleteStep == TypeOK /\ CompleteInv /\ [Next]_vars => CompleteInv'
<1> SUFFICES ASSUME TypeOK, CompleteInv, [Next]_vars, excused' = {} PROVE Sound'
  BY DEF CompleteInv
<1> USE DEF Sound
<1>1. import \in ImportStates /\ landed \subseteq SourceRows
  BY DEF TypeOK, ImportTypeOK, RowTypeOK
<1>2. CASE UNCHANGED <<rowVars, importVars, excused>>
  BY <1>2 DEF CompleteInv, rowVars, importVars, Landed, Present, Counted
<1>3. CASE StartImport
  <2>1. /\ excused = {} /\ UNCHANGED <<rows, landed, flag>>
        /\ \/ flag /\ import' = [import EXCEPT !.at = "over"]
           \/ import' = [at |-> "backup", todo |-> Tables,
                         counts |-> [t \in TableSet |-> Cardinality(Source[t])]]
    <3>1. excused' # excused \cup {"gave up"} /\ excused' # excused \cup {"miscounted"}
      OBVIOUS
    <3> QED
      BY <1>3, <3>1, Zenon DEF StartImport, rowVars
  <2>2. Sound
    BY <2>1 DEF CompleteInv
  <2>3. import'.at \in {"over", "backup"} /\ (import'.at = "backup" => Counted')
    BY <1>1, <2>1 DEF ImportStates, Counted
  <2> QED
    BY <2>1, <2>2, <2>3 DEF Landed, Present
<1>4. CASE BackUp
  <2>1. /\ excused = {} /\ UNCHANGED <<rows, landed, flag>> /\ import.at = "backup"
        /\ \/ import' = [import EXCEPT !.at = "import"]
           \/ import' = [import EXCEPT !.at = "over"]
    BY <1>4, Zenon DEF BackUp, rowVars
  <2>2. import'.at \in {"import", "over"} /\ import'.counts = import.counts
    BY <1>1, <2>1 DEF ImportStates
  <2> QED
    BY <2>1, <2>2 DEF CompleteInv, Landed, Present, Counted
<1>5. CASE ImportTable
  <2>1. /\ excused = {} /\ flag' = flag
    BY <1>5 DEF ImportTable
  <2>2. Sound
    BY <2>1 DEF CompleteInv
  <2>3. PICK t \in TableSet : \E came \in SUBSET Source[t] :
             /\ import.at = "import" /\ import' = [import EXCEPT !.todo = Tail(@)]
             /\ \A u \in TableSet \ {t} : rows'[u] = rows[u]
             /\ \A id \in Ids(t) : id \in came \/ rows'[t][id] = rows[t][id]
             /\ landed' = landed \cup {<<t, id>> : id \in came}
    BY <1>5, ImportOneTable, Zenon
  <2>4. PICK came \in SUBSET Source[t] :
             /\ \A id \in Ids(t) : id \in came \/ rows'[t][id] = rows[t][id]
             /\ landed' = landed \cup {<<t, id>> : id \in came}
    BY <2>3, Zenon
  <2>5. import'.at = "import" /\ import'.counts = import.counts
    BY <1>1, <2>3 DEF ImportStates
  <2>6. ASSUME Landed PROVE Landed'
    <3> SUFFICES ASSUME NEW u \in TableSet, NEW id \in Present(u)'
                 PROVE  <<u, id>> \in landed'
      BY DEF Landed
    <3>1. CASE u = t /\ id \in came
      BY <2>4, <3>1
    <3>2. CASE ~(u = t /\ id \in came)
      <4>1. id \in Ids(u) /\ rows'[u][id] = rows[u][id]
        BY <2>3, <2>4, <3>2 DEF Present
      <4>2. id \in Present(u)
        BY <4>1 DEF Present
      <4> QED
        BY <2>4, <2>6, <4>2 DEF Landed
    <3> QED
      BY <3>1, <3>2
  <2>7. landed = SourceRows => landed' = SourceRows
    BY <2>4 DEF SourceRows
  <2> QED
    BY <2>1, <2>2, <2>3, <2>5, <2>6, <2>7 DEF Counted
<1>6. CASE FinishImport
  <2>1. /\ excused = {} /\ UNCHANGED <<rows, landed, flag>> /\ import.at = "import"
        /\ \/ Verified /\ import' = [import EXCEPT !.at = "mark"]
           \/ import' = [import EXCEPT !.at = "over"]
    BY <1>6, Zenon DEF FinishImport, rowVars
  <2>2. Sound
    BY <2>1 DEF CompleteInv
  <2>3. Verified => landed = SourceRows
    BY <2>1, <2>2, VerifiedIsComplete
  <2>4. import'.at = "over" \/ (import'.at = "mark" /\ Verified)
    BY <1>1, <2>1 DEF ImportStates
  <2> QED
    BY <2>1, <2>2, <2>3, <2>4 DEF Landed, Present, SourceRows
<1>7. CASE Mark
  <2>1. /\ excused = {} /\ UNCHANGED <<rows, landed>> /\ import.at = "mark"
        /\ import' = [import EXCEPT !.at = "over"]
        /\ flag' = TRUE \/ flag' = flag
    BY <1>7, Zenon DEF Mark, rowVars
  <2>2. landed' = SourceRows /\ import'.at = "over"
    BY <1>1, <2>1 DEF CompleteInv, ImportStates, SourceRows
  <2> QED
    BY <2>1, <2>2 DEF CompleteInv, Landed, Present, SourceRows
<1>8. ASSUME NEW t \in TableSet, NEW id \in Ids(t), Save(t, id) PROVE Sound'
  <2>1. /\ excused = {} /\ UNCHANGED <<landed, flag, import>> /\ import.at = "over"
        /\ id \in Present(t) \/ flag
        /\ rows' = [rows EXCEPT ![t][id] = "user"]
    BY <1>8 DEF Save, importVars
  <2>2. ASSUME Landed, id \in Present(t) PROVE Landed'
    BY <2>1, <2>2 DEF Landed, Present, TypeOK, RowTypeOK
  <2> QED
    BY <2>1, <2>2 DEF CompleteInv
<1>9. ASSUME NEW t \in TableSet, NEW id \in Ids(t), Delete(t, id) PROVE Sound'
  <2>1. /\ excused = {} /\ UNCHANGED <<landed, flag, import>> /\ import.at = "over"
        /\ rows' = [rows EXCEPT ![t][id] = "deleted"]
    BY <1>9 DEF Delete, importVars
  <2>2. ASSUME Landed PROVE Landed'
    BY <2>1, <2>2 DEF Landed, Present, TypeOK, RowTypeOK
  <2> QED
    BY <2>1, <2>2 DEF CompleteInv
<1>10. CASE Relaunch
  <2>1. excused = {} /\ UNCHANGED <<rows, landed, flag>> /\ import'.at = "off"
    BY <1>10 DEF Relaunch, NotRun, rowVars
  <2> QED
    BY <2>1 DEF CompleteInv, Landed, Present
<1> QED
  BY <1>2, <1>3, <1>4, <1>5, <1>6, <1>7, <1>8, <1>9, <1>10, OthersLeaveRows

(* The import is marked done only when every row came over, whatever fails *)
(* or is killed, save for the excuses MarkedOnlyIfComplete names.          *)
THEOREM MarkedIsComplete == Spec => []MarkedOnlyIfComplete
<1>1. Init => CompleteInv
  BY DEF Init, CompleteInv, Sound, Landed, Present, NotRun
<1>2. CompleteInv => MarkedOnlyIfComplete
  BY DEF CompleteInv, MarkedOnlyIfComplete, Sound
<1> QED
  BY <1>1, <1>2, CompleteStep, TypeCorrect, PTL DEF Spec
=============================================================================
