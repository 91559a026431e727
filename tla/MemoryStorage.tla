---------------------------- MODULE MemoryStorage --------------------------
(***************************************************************************)
(* The in-memory backend.  A table maps keys to values; a relation maps a  *)
(* left component to the list of the right ones: in the order of insertion *)
(* (VecTable) or sorted, and searched by bisection (VecBinTable).          *)
(***************************************************************************)
EXTENDS StorageTables

VecBinTables ==
    { "message_id_to_message_id", "index_to_message_id", "ed25519_address_to_output_id" }
VecTables ==
    { "milestone_index_to_unreferenced_message", "milestone_index_to_receipt",
      "spent_to_treasury_output" }

InnerStorage == [t \in Tables |-> << >>]
Listed(table, left) == IF left \in DOMAIN table THEN table[left] ELSE << >>
-----------------------------------------------------------------------------
(* Table and SingletonTable *)
TableInsert(table, k, v) == Stored(table, k, v)
TableDelete(table, k) == Dropped(table, {k})
TableFetch(table, k) == IF k \in DOMAIN table THEN {table[k]} ELSE {}
TableIter(table) == {<< k, table[k] >> : k \in DOMAIN table}

SingletonInsert(table, v) == [unit \in {Unit} |-> v]
SingletonDelete(table) == << >>
-----------------------------------------------------------------------------
(* VecTable: a list without duplicates. *)
VecInsert(table, k) ==
    LET vs == Listed(table, k[1])
    IN  Stored(table, k[1], IF Contains(vs, k[2]) THEN vs ELSE Append(vs, k[2]))

(* Deletion removes the first match and keeps the list, even if empty. *)
VecDelete(table, k) ==
    IF k[1] \notin DOMAIN table \/ ~ Contains(table[k[1]], k[2]) THEN table
    ELSE [table EXCEPT ![k[1]] = RemoveFirst(@, k[2])]

VecExist(table, k) == Contains(Listed(table, k[1]), k[2])

(* fetch answers the whole list, an empty one for an unknown key. *)
VecFetch(table, left) == Listed(table, left)

(* The iterator empties the lists one after another from their ends. *)
VecTableIter(table) ==
    UNION {{<< << left, table[left][i] >>, Unit >> : i \in DOMAIN table[left]} : left \in DOMAIN table}
-----------------------------------------------------------------------------
(* VecBinTable: binary_search answers the index of a match or the index at *)
(* which an insertion keeps the order.  Before is the order of the values. *)
BinarySearch(vs, v, Before(_, _)) ==
    IF Contains(vs, v)
    THEN [ok |-> TRUE, at |-> CHOOSE i \in DOMAIN vs : vs[i] = v]
    ELSE [ok |-> FALSE, at |-> Cardinality({i \in DOMAIN vs : Before(vs[i], v)}) + 1]

RightBytes(t, v) == IF t = "ed25519_address_to_output_id" THEN PackOutputId(v) ELSE v

BinInsert(table, t, k) ==
    LET vs == Listed(table, k[1])
        Before(x, y) == BytesLess(RightBytes(t, x), RightBytes(t, y))
        found == BinarySearch(vs, k[2], Before)
    IN  Stored(table, k[1], IF found.ok THEN vs ELSE InsertAt(vs, found.at, k[2]))

BinDelete(table, t, k) ==
    LET Before(x, y) == BytesLess(RightBytes(t, x), RightBytes(t, y))
        found == BinarySearch(Listed(table, k[1]), k[2], Before)
    IN  IF k[1] \notin DOMAIN table \/ ~ found.ok THEN table
        ELSE [table EXCEPT ![k[1]] = RemoveAt(@, found.at)]

BinExist(table, t, k) ==
    LET Before(x, y) == BytesLess(RightBytes(t, x), RightBytes(t, y))
    IN  BinarySearch(Listed(table, k[1]), k[2], Before).ok
-----------------------------------------------------------------------------
MemoryInsert(inner, t, k, v) ==
    [inner EXCEPT ![t] =
        CASE t \in VecBinTables -> BinInsert(@, t, k)
          [] t \in VecTables -> VecInsert(@, k)
          [] t \in Singletons -> SingletonInsert(@, v)
          [] OTHER -> TableInsert(@, k, v)]

MemoryDelete(inner, t, k) ==
    [inner EXCEPT ![t] =
        CASE t \in VecBinTables -> BinDelete(@, t, k)
          [] t \in VecTables -> VecDelete(@, k)
          [] t \in Singletons -> SingletonDelete(@)
          [] OTHER -> TableDelete(@, k)]

MemoryExist(inner, t, k) ==
    CASE t \in VecBinTables -> BinExist(inner[t], t, k)
      [] t \in VecTables -> VecExist(inner[t], k)
      [] OTHER -> k \in DOMAIN inner[t]

MemoryFetch(inner, t, k) == TableFetch(inner[t], k)
MemoryFetchRelated(inner, t, left) == VecFetch(inner[t], left)
MemoryMultiFetch(inner, t, ks) == [i \in DOMAIN ks |-> TableFetch(inner[t], ks[i])]
MemoryTruncate(inner, t) == [inner EXCEPT ![t] = << >>]
MemoryIter(inner, t) == IF t \in Relations THEN VecTableIter(inner[t]) ELSE TableIter(inner[t])
-----------------------------------------------------------------------------
(* A batch holds the list of the operations of every table. *)
MemoryBatchBegin == [t \in Tables |-> << >>]
MemoryBatchInsert(batch, t, k, v) ==
    [batch EXCEPT ![t] = Append(@, [op |-> "insert", key |-> k, value |-> v])]
MemoryBatchDelete(batch, t, k) ==
    [batch EXCEPT ![t] = Append(@, [op |-> "delete", key |-> k, value |-> Unit])]

(* One operation on its table. *)
MemoryApply(t, table, change) ==
    LET one == [x \in {t} |-> table]
    IN  IF change.op = "insert" THEN MemoryInsert(one, t, change.key, change.value)[t]
        ELSE MemoryDelete(one, t, change.key)[t]

(* Under the write lock, table after table, each list in its order. *)
MemoryBatchCommit(inner, batch) ==
    LET Apply(t) ==
            LET Step(table, change) == MemoryApply(t, table, change)
            IN  FoldLeft(Step, inner[t], batch[t])
    IN  [t \in Tables |-> Apply(t)]
=============================================================================
