------------------------------- MODULE Storage -----------------------------
(***************************************************************************)
(* A storage backend behind the traits of bee-storage: opened, written to  *)
(* directly and through batches, closed, and restarted after a crash.  The *)
(* operators of the three backends work on their own representation; this  *)
(* module runs any one of them.                                            *)
(*                                                                         *)
(* What reaches the disk: sled writes its log in the background, RocksDB   *)
(* its write-ahead log without a sync, so a crash keeps the writes up to   *)
(* some moment and loses the later ones.                                   *)
(***************************************************************************)
EXTENDS MemoryStorage, SledStorage, RocksdbStorage

CONSTANTS
    TableSets,       \* the sets of tables that behaviours use
    MaxWrites,       \* bound: insertions and deletions, direct or in a batch
    StoredVersions,  \* versions found in the storage folder
    STORAGE_VERSION, \* version of this program's storage
    NoVersion

ASSUME StorageAssumption ==
    /\ TableSets \subseteq SUBSET AllTables
    /\ MaxWrites \in Nat
    /\ << "gone" >> \notin Values \* the mark of a deletion is no value

VARIABLES
    backend,    \* "memory", "sled" or "rocksdb"
    inner,      \* the rows, as the running backend represents them
    stored_health, \* System::Health of the running storage, "None" when absent
    version,    \* System::Version of the running storage
    batch,      \* the open batch, as the backend represents it
    disk,       \* rows, health and version as they are on disk
    running,    \* between StorageBackend::start and shutdown
    writes,     \* number of writes so far
    saved       \* history: the rows when the storage was last shut down

storageVars == << Tables, backend, inner, stored_health, version, batch, disk, running, writes, saved >>

Backends == {"memory", "sled", "rocksdb"}

NoBatch ==
    CASE backend = "memory" -> MemoryBatchBegin
      [] OTHER -> << >>

NoInner ==
    CASE backend = "memory" -> InnerStorage
      [] backend = "sled" -> EmptyTrees
      [] backend = "rocksdb" -> EmptyFamilies
-----------------------------------------------------------------------------
(* The rows of a representation, as a map per table. *)
AsMap(pairs) ==
    [k \in {p[1] : p \in pairs} |-> (CHOOSE p \in pairs : p[1] = k)[2]]

IterRows(content, t) ==
    CASE backend = "memory" -> MemoryIter(content, t)
      [] backend = "sled" -> ToSet(SledIter(content, t, IdLength))
      [] backend = "rocksdb" -> ToSet(RocksdbIter(content, t, IdLength))

RowsOf(content) == [t \in Tables |-> AsMap(IterRows(content, t))]

Rows == IF running THEN RowsOf(inner) ELSE saved

(* The changes of the open batch, the last one of every key. *)
ChangesOf(t, k) ==
    CASE backend = "memory" -> {i \in DOMAIN batch[t] : batch[t][i].key = k}
      [] backend = "sled" -> IF t \in DOMAIN batch THEN DOMAIN batch[t] \cap {KeyBytes(t, k)} ELSE {}
      [] backend = "rocksdb" -> {i \in DOMAIN batch : batch[i].table = t /\ batch[i].bytes = KeyBytes(t, k)}

LastChange(t, k) ==
    CASE backend = "memory" ->
            LET change == batch[t][Max(ChangesOf(t, k))]
            IN  IF change.op = "insert" THEN change.value ELSE << "gone" >>
      [] backend = "sled" ->
            LET change == batch[t][KeyBytes(t, k)]
            IN  IF change = Removed THEN << "gone" >> ELSE UnpackValue(change)
      [] backend = "rocksdb" ->
            LET change == batch[Max(ChangesOf(t, k))]
            IN  IF change.op = "put" THEN change.value ELSE << "gone" >>

Pending ==
    LET changed == UNION {{<< t, k >> : k \in {x \in Keys[t] : ChangesOf(t, x) # {}}} : t \in Tables}
    IN  [c \in changed |-> LastChange(c[1], c[2])]
-----------------------------------------------------------------------------
StorageInit ==
    /\ Tables \in TableSets
    /\ backend \in Backends
    /\ inner = NoInner
    /\ stored_health = "None"
    /\ version = NoVersion
    /\ batch = NoBatch
    /\ \E v \in {NoVersion} \cup StoredVersions :
        disk = [rows |-> NoInner, health |-> "None", version |-> v]
    /\ running = FALSE
    /\ writes = 0
    /\ saved = [t \in Tables |-> << >>]

(* start: the version must be the one of this program, the health must be  *)
(* absent or Healthy; the storage is then marked Idle.  The in-memory      *)
(* backend always starts from nothing.                                     *)
StartStorage ==
    LET found == IF backend = "memory" THEN [rows |-> NoInner, health |-> "None", version |-> NoVersion]
                 ELSE disk
    IN  /\ ~ running
        /\ found.version \in {NoVersion, STORAGE_VERSION}
        /\ found.health \in {"None", "Healthy"}
        /\ inner' = found.rows
        /\ version' = STORAGE_VERSION
        /\ stored_health' = "Idle"
        /\ running' = TRUE
        /\ batch' = NoBatch
        /\ UNCHANGED << Tables, backend, disk, writes, saved >>

(* shutdown: the storage is marked Healthy and flushed. *)
ShutdownStorage ==
    /\ running
    /\ running' = FALSE
    /\ stored_health' = "Healthy"
    /\ disk' = [rows |-> inner, health |-> "Healthy", version |-> version]
    /\ saved' = IF backend = "memory" THEN [t \in Tables |-> << >>] ELSE RowsOf(inner)
    /\ batch' = NoBatch
    /\ UNCHANGED << Tables, backend, inner, version, writes >>

(* The writes so far reach the disk, in their order. *)
Flush ==
    /\ running
    /\ disk' = [rows |-> inner, health |-> stored_health, version |-> version]
    /\ UNCHANGED << Tables, backend, inner, stored_health, version, batch, running, writes, saved >>

(* The process ends without a shutdown. *)
CrashStorage ==
    /\ running
    /\ running' = FALSE
    /\ batch' = NoBatch
    /\ UNCHANGED << Tables, backend, inner, stored_health, version, disk, writes, saved >>

(* A failed snapshot import marks the storage Corrupted and ends the node. *)
SetCorrupted ==
    /\ running
    /\ running' = FALSE
    /\ stored_health' = "Corrupted"
    /\ disk' = [rows |-> inner, health |-> "Corrupted", version |-> version]
    /\ batch' = NoBatch
    /\ UNCHANGED << Tables, backend, inner, version, writes, saved >>
-----------------------------------------------------------------------------
WriteRows(content) ==
    /\ running
    /\ inner' = content
    /\ UNCHANGED << Tables, backend, stored_health, version, batch, disk, running, saved >>

Counted == writes < MaxWrites /\ writes' = writes + 1

Insert(t, k, v) ==
    /\ Counted
    /\ WriteRows(CASE backend = "memory" -> MemoryInsert(inner, t, k, v)
                   [] backend = "sled" -> SledInsert(inner, t, k, v)
                   [] backend = "rocksdb" -> RocksdbInsert(inner, t, k, v))

Delete(t, k) ==
    /\ Counted
    /\ WriteRows(CASE backend = "memory" -> MemoryDelete(inner, t, k)
                   [] backend = "sled" -> SledDelete(inner, t, k)
                   [] backend = "rocksdb" -> RocksdbDelete(inner, t, k))

Truncate(t) ==
    /\ UNCHANGED writes
    /\ WriteRows(CASE backend = "memory" -> MemoryTruncate(inner, t)
                   [] backend = "sled" -> SledTruncate(inner, t)
                   [] backend = "rocksdb" -> RocksdbTruncate(inner, t))

Collect(collected) ==
    /\ running
    /\ Counted
    /\ batch' = collected
    /\ UNCHANGED << Tables, backend, inner, stored_health, version, disk, running, saved >>

BatchInsert(t, k, v) ==
    Collect(CASE backend = "memory" -> MemoryBatchInsert(batch, t, k, v)
              [] backend = "sled" -> SledBatchInsert(batch, t, k, v)
              [] backend = "rocksdb" -> RocksdbBatchInsert(batch, t, k, v))

BatchDelete(t, k) ==
    Collect(CASE backend = "memory" -> MemoryBatchDelete(batch, t, k)
              [] backend = "sled" -> SledBatchDelete(batch, t, k)
              [] backend = "rocksdb" -> RocksdbBatchDelete(batch, t, k))

BatchCommit ==
    /\ running
    /\ batch # NoBatch
    /\ inner' = CASE backend = "memory" -> MemoryBatchCommit(inner, batch)
                  [] backend = "sled" -> SledBatchCommit(inner, batch)
                  [] backend = "rocksdb" -> RocksdbBatchCommit(inner, batch)
    /\ batch' = NoBatch
    /\ UNCHANGED << Tables, backend, stored_health, version, disk, running, writes, saved >>

StorageNext ==
    \/ StartStorage
    \/ ShutdownStorage
    \/ Flush
    \/ CrashStorage
    \/ SetCorrupted
    \/ \E t \in Tables : \E k \in Keys[t] :
        \/ \E v \in StoredValues(t) : Insert(t, k, v) \/ BatchInsert(t, k, v)
        \/ Delete(t, k)
        \/ BatchDelete(t, k)
    \/ \E t \in Tables : Truncate(t)
    \/ BatchCommit

StorageBehaviour == StorageInit /\ [][StorageNext]_storageVars
-----------------------------------------------------------------------------
Fetch(t, k) ==
    CASE backend = "memory" -> MemoryFetch(inner, t, k)
      [] backend = "sled" -> SledFetch(inner, t, k)
      [] backend = "rocksdb" -> RocksdbFetch(inner, t, k)

FetchRelated(t, left) ==
    CASE backend = "memory" -> MemoryFetchRelated(inner, t, left)
      [] backend = "sled" -> SledFetchRelated(inner, t, left)
      [] backend = "rocksdb" -> RocksdbFetchRelated(inner, t, left)

Exist(t, k) ==
    CASE backend = "memory" -> MemoryExist(inner, t, k)
      [] backend = "sled" -> SledExist(inner, t, k)
      [] backend = "rocksdb" -> RocksdbExist(inner, t, k)

MultiFetch(t, ks) ==
    CASE backend = "memory" -> MemoryMultiFetch(inner, t, ks)
      [] backend = "sled" -> SledMultiFetch(inner, t, ks)
      [] backend = "rocksdb" -> RocksdbMultiFetch(inner, t, ks)
-----------------------------------------------------------------------------
(* Every row that the backend holds has a key and a value of its table and *)
(* the disk holds a health that start knows.                               *)
StorageTypeOK ==
    /\ backend \in Backends
    /\ stored_health \in {"None", "Idle", "Healthy", "Corrupted"}
    /\ disk.health \in {"None", "Idle", "Healthy", "Corrupted"}
    /\ running \in BOOLEAN
    /\ writes \in 0 .. MaxWrites
    /\ \A t \in Tables :
        /\ DOMAIN Rows[t] \subseteq Keys[t]
        /\ \A k \in DOMAIN Rows[t] : Rows[t][k] \in StoredValues(t)

(* The point reads of a backend (fetch, exist, multi_fetch) and its prefix *)
(* reads agree with what its iterators list: a fetch of the relations of a *)
(* key answers relations of that key only, each once, and all of them up   *)
(* to the limit of the table.                                              *)
ReadsFollowRows ==
    LET rows == Rows
        Row(t, k) == IF k \in DOMAIN rows[t] THEN {rows[t][k]} ELSE {}
        Related(t, left) == {k[2] : k \in {x \in DOMAIN rows[t] : x[1] = left}}
        Limited(t) == t \in LimitedRelations /\ backend # "memory"
    IN  running => \A t \in Tables :
        /\ \A k \in Keys[t] : Exist(t, k) <=> k \in DOMAIN rows[t]
        /\ t \notin Relations => \A k, l \in Keys[t] :
                Fetch(t, k) = Row(t, k) /\ MultiFetch(t, << k, l >>) = << Row(t, k), Row(t, l) >>
        /\ t \in Relations => \A left \in {k[1] : k \in Keys[t]} :
            LET found == FetchRelated(t, left)
            IN  /\ ToSet(found) \subseteq Related(t, left)
                /\ Cardinality(ToSet(found)) = Len(found)
                /\ \/ ToSet(found) = Related(t, left)
                   \/ Limited(t) /\ Len(found) = FetchLimit

(* Every backend implements the storage that its users count on: see       *)
(* StorageSpec.  A batch is applied at once and its last operation on a    *)
(* key decides, a truncation leaves nothing behind, and what starts after  *)
(* a crash is exactly what was last shut down.                             *)
Promised == INSTANCE StorageSpec WITH
    rows <- Rows, pending <- Pending, open <- running, persistent <- backend # "memory"

ImplementsStorageSpec == Promised!Spec

(* What the backend holds is of the types of its tables, and every read     *)
(* finds what the iterators list.                                           *)
ReadsSound ==
    /\ StorageTypeOK
    /\ ReadsFollowRows
=============================================================================
