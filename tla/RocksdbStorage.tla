--------------------------- MODULE RocksdbStorage --------------------------
(***************************************************************************)
(* The RocksDB backend.  A column family maps bytes to bytes in order of   *)
(* the keys; a write batch is the list of its operations.                  *)
(***************************************************************************)
EXTENDS StorageTables

EmptyFamilies == [t \in Tables |-> << >>]
Put(families, t, bytes, v) == [families EXCEPT ![t] = Stored(@, bytes, PackValue(v))]
Erase(families, t, gone) == [families EXCEPT ![t] = Dropped(@, gone)]
RocksdbGet(family, bytes) == IF bytes \in DOMAIN family THEN {UnpackValue(family[bytes])} ELSE {}
-----------------------------------------------------------------------------
RocksdbInsertMessages(families, t, k, v) == Put(families, t, MessageKey(t, k), v)
RocksdbInsertOutputs(families, t, k, v) == Put(families, t, OutputKey(t, k), v)
RocksdbInsertMilestones(families, t, k, v) == Put(families, t, MilestoneKey(t, k), v)
RocksdbInsertTreasury(families, t, k, v) == Put(families, t, TreasuryKey(t, k), v)

RocksdbInsert(families, t, k, v) ==
    CASE t \in MessageTables -> RocksdbInsertMessages(families, t, k, v)
      [] t \in OutputTables -> RocksdbInsertOutputs(families, t, k, v)
      [] t \in MilestoneTables -> RocksdbInsertMilestones(families, t, k, v)
      [] t \in TreasuryTables -> RocksdbInsertTreasury(families, t, k, v)

RocksdbDeleteMessages(families, t, k) == Erase(families, t, {MessageKey(t, k)})
RocksdbDeleteOutputs(families, t, k) == Erase(families, t, {OutputKey(t, k)})
RocksdbDeleteMilestones(families, t, k) == Erase(families, t, {MilestoneKey(t, k)})
RocksdbDeleteTreasury(families, t, k) == Erase(families, t, {TreasuryKey(t, k)})

RocksdbDelete(families, t, k) ==
    CASE t \in MessageTables -> RocksdbDeleteMessages(families, t, k)
      [] t \in OutputTables -> RocksdbDeleteOutputs(families, t, k)
      [] t \in MilestoneTables -> RocksdbDeleteMilestones(families, t, k)
      [] t \in TreasuryTables -> RocksdbDeleteTreasury(families, t, k)

RocksdbExistMessages(families, t, k) == RocksdbGet(families[t], MessageKey(t, k)) # {}
RocksdbExistOutputs(families, t, k) == RocksdbGet(families[t], OutputKey(t, k)) # {}
RocksdbExistMilestones(families, t, k) == RocksdbGet(families[t], MilestoneKey(t, k)) # {}
RocksdbExistTreasury(families, t, k) == RocksdbGet(families[t], TreasuryKey(t, k)) # {}

RocksdbExist(families, t, k) ==
    CASE t \in MessageTables -> RocksdbExistMessages(families, t, k)
      [] t \in OutputTables -> RocksdbExistOutputs(families, t, k)
      [] t \in MilestoneTables -> RocksdbExistMilestones(families, t, k)
      [] t \in TreasuryTables -> RocksdbExistTreasury(families, t, k)

(* delete_range_cf removes the keys from the first one up to a bound it    *)
(* excludes: the last key with one more byte, u8::MAX.                     *)
DeleteRange(families, t, from, to) ==
    Erase(families, t, {bytes \in DOMAIN families[t] :
                            ~ BytesLess(bytes, from) /\ BytesLess(bytes, to)})

TruncateUpToLast(families, t) ==
    LET ks == Sorted(DOMAIN families[t])
    IN  IF ks = << >> THEN families ELSE DeleteRange(families, t, Head(ks), Last(ks))

RocksdbTruncate(families, t) ==
    LET ks == Sorted(DOMAIN families[t])
    IN  IF ks = << >> THEN families
        ELSE DeleteRange(families, t, Head(ks), Append(Last(ks), MaxByte))
-----------------------------------------------------------------------------
(* The keys whose prefix, of the fixed length that the column family       *)
(* extracts, is the one of the given key; without their prefix.            *)
PrefixIterator(family, prefix, length) ==
    LET found == Sorted({bytes \in DOMAIN family : SubSeq(bytes, 1, length) = prefix})
    IN  [i \in DOMAIN found |-> SubSeq(found[i], length + 1, Len(found[i]))]

RocksdbFetchMessages(families, t, k) == RocksdbGet(families[t], MessageKey(t, k))
RocksdbFetchOutputs(families, t, k) == RocksdbGet(families[t], OutputKey(t, k))
RocksdbFetchMilestones(families, t, k) == RocksdbGet(families[t], MilestoneKey(t, k))
RocksdbFetchTreasuryValues(families, t, k) == RocksdbGet(families[t], TreasuryKey(t, k))

RocksdbFetch(families, t, k) ==
    CASE t \in MessageTables -> RocksdbFetchMessages(families, t, k)
      [] t \in OutputTables -> RocksdbFetchOutputs(families, t, k)
      [] t \in MilestoneTables -> RocksdbFetchMilestones(families, t, k)
      [] t \in TreasuryTables -> RocksdbFetchTreasuryValues(families, t, k)

RocksdbFetchEdges(families, t, left) ==
    Take(PrefixIterator(families[t], left, PrefixLength(t, Len(left))), FetchLimit)

RocksdbFetchOutputIds(families, t, left) ==
    LET ids == PrefixIterator(families[t], left, PrefixLength(t, Len(left)))
    IN  Take([i \in DOMAIN ids |-> UnpackOutputId(ids[i])], FetchLimit)

RocksdbFetchUnreferenced(families, t, left) ==
    PrefixIterator(families[t], PackIndex(left), PrefixLength(t, 0))

RocksdbFetchReceipts(families, t, left) ==
    LET receipts == PrefixIterator(families[t], PackIndex(left), PrefixLength(t, 0))
    IN  [i \in DOMAIN receipts |-> UnpackReceipt(receipts[i])]

RocksdbFetchTreasury(families, t, left) ==
    PrefixIterator(families[t], PackBool(left), PrefixLength(t, 0))

RocksdbFetchRelated(families, t, left) ==
    CASE t \in MessageTables -> RocksdbFetchEdges(families, t, left)
      [] t = "ed25519_address_to_output_id" -> RocksdbFetchOutputIds(families, t, left)
      [] t = "milestone_index_to_unreferenced_message" -> RocksdbFetchUnreferenced(families, t, left)
      [] t = "milestone_index_to_receipt" -> RocksdbFetchReceipts(families, t, left)
      [] t = "spent_to_treasury_output" -> RocksdbFetchTreasury(families, t, left)

(* multi_get_cf: one answer per requested key, in the order of the keys. *)
RocksdbMultiFetch(families, t, ks) == [i \in DOMAIN ks |-> RocksdbFetch(families, t, ks[i])]
-----------------------------------------------------------------------------
RocksdbUnpackMessages(t, bytes, idLength) ==
    IF t \in Relations
    THEN << SubSeq(bytes, 1, idLength), SubSeq(bytes, idLength + 1, Len(bytes)) >>
    ELSE bytes

RocksdbUnpackOutputs(t, bytes, idLength) ==
    IF t \in Relations
    THEN << SubSeq(bytes, 1, idLength), UnpackOutputId(SubSeq(bytes, idLength + 1, Len(bytes))) >>
    ELSE UnpackOutputId(bytes)

RocksdbUnpackMilestones(t, bytes) ==
    CASE t \in Singletons -> Unit
      [] t = "solid_entry_point_to_milestone_index" -> bytes
      [] OTHER -> UnpackIndex(bytes)

RocksdbUnpackTreasury(t, bytes) ==
    LET left == SubSeq(bytes, 1, PrefixLength(t, 0))
        right == SubSeq(bytes, PrefixLength(t, 0) + 1, Len(bytes))
    IN  CASE t = "address_to_balance" -> UnpackAddress(bytes)
          [] t = "milestone_index_to_unreferenced_message" -> << UnpackIndex(left), right >>
          [] t = "milestone_index_to_receipt" -> << UnpackIndex(left), UnpackReceipt(right) >>
          [] t = "spent_to_treasury_output" -> << UnpackBool(left), right >>

RocksdbIter(families, t, idLength) ==
    LET ks == Sorted(DOMAIN families[t])
        Unpack(bytes) ==
            CASE t \in MessageTables -> RocksdbUnpackMessages(t, bytes, idLength)
              [] t \in OutputTables -> RocksdbUnpackOutputs(t, bytes, idLength)
              [] t \in MilestoneTables -> RocksdbUnpackMilestones(t, bytes)
              [] t \in TreasuryTables -> RocksdbUnpackTreasury(t, bytes)
    IN  [i \in DOMAIN ks |-> << Unpack(ks[i]), UnpackValue(families[t][ks[i]]) >>]
-----------------------------------------------------------------------------
RocksdbOp(op, t, bytes, v) == [op |-> op, table |-> t, bytes |-> bytes, value |-> v]

RocksdbBatchMessages(batch, t, k, op, v) == Append(batch, RocksdbOp(op, t, MessageKey(t, k), v))
RocksdbBatchOutputs(batch, t, k, op, v) == Append(batch, RocksdbOp(op, t, OutputKey(t, k), v))
RocksdbBatchMilestones(batch, t, k, op, v) == Append(batch, RocksdbOp(op, t, MilestoneKey(t, k), v))
RocksdbBatchTreasury(batch, t, k, op, v) == Append(batch, RocksdbOp(op, t, TreasuryKey(t, k), v))

RocksdbBatchAppend(batch, t, k, op, v) ==
    CASE t \in MessageTables -> RocksdbBatchMessages(batch, t, k, op, v)
      [] t \in OutputTables -> RocksdbBatchOutputs(batch, t, k, op, v)
      [] t \in MilestoneTables -> RocksdbBatchMilestones(batch, t, k, op, v)
      [] t \in TreasuryTables -> RocksdbBatchTreasury(batch, t, k, op, v)

RocksdbBatchInsert(batch, t, k, v) == RocksdbBatchAppend(batch, t, k, "put", v)
RocksdbBatchDelete(batch, t, k) == RocksdbBatchAppend(batch, t, k, "delete", Unit)

(* write_opt applies the operations in their order, all or none. *)
RocksdbApply(families, change) ==
    IF change.op = "put" THEN Put(families, change.table, change.bytes, change.value)
    ELSE Erase(families, change.table, {change.bytes})

RocksdbBatchCommit(families, batch) == FoldLeft(RocksdbApply, families, batch)
=============================================================================
