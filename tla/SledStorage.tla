---------------------------- MODULE SledStorage ----------------------------
(***************************************************************************)
(* The sled backend.  A tree maps the bytes of a key to the bytes of a     *)
(* value; a batch maps, for every tree it touches, the bytes of a key to   *)
(* the value to insert or to Removed, so a later operation on a key        *)
(* replaces an earlier one.                                                *)
(***************************************************************************)
EXTENDS StorageTables

Removed == << "removed" >>

EmptyTrees == [t \in Tables |-> << >>]
-----------------------------------------------------------------------------
(* Insert: the packed value under the bytes of the key. *)
SledInsertMessages(trees, t, k, v) ==
    [trees EXCEPT ![t] = Stored(@, MessageKey(t, k), PackValue(v))]
SledInsertOutputs(trees, t, k, v) ==
    [trees EXCEPT ![t] = Stored(@, OutputKey(t, k), PackValue(v))]
SledInsertMilestones(trees, t, k, v) ==
    [trees EXCEPT ![t] = Stored(@, MilestoneKey(t, k), PackValue(v))]
SledInsertTreasury(trees, t, k, v) ==
    [trees EXCEPT ![t] = Stored(@, TreasuryKey(t, k), PackValue(v))]

SledInsert(trees, t, k, v) ==
    CASE t \in MessageTables -> SledInsertMessages(trees, t, k, v)
      [] t \in OutputTables -> SledInsertOutputs(trees, t, k, v)
      [] t \in MilestoneTables -> SledInsertMilestones(trees, t, k, v)
      [] t \in TreasuryTables -> SledInsertTreasury(trees, t, k, v)

SledDeleteMessages(trees, t, k) == [trees EXCEPT ![t] = Dropped(@, {MessageKey(t, k)})]
SledDeleteOutputs(trees, t, k) == [trees EXCEPT ![t] = Dropped(@, {OutputKey(t, k)})]
SledDeleteMilestones(trees, t, k) == [trees EXCEPT ![t] = Dropped(@, {MilestoneKey(t, k)})]
SledDeleteTreasury(trees, t, k) == [trees EXCEPT ![t] = Dropped(@, {TreasuryKey(t, k)})]

SledDelete(trees, t, k) ==
    CASE t \in MessageTables -> SledDeleteMessages(trees, t, k)
      [] t \in OutputTables -> SledDeleteOutputs(trees, t, k)
      [] t \in MilestoneTables -> SledDeleteMilestones(trees, t, k)
      [] t \in TreasuryTables -> SledDeleteTreasury(trees, t, k)

SledExistMessages(trees, t, k) == MessageKey(t, k) \in DOMAIN trees[t]
SledExistOutputs(trees, t, k) == OutputKey(t, k) \in DOMAIN trees[t]
SledExistMilestones(trees, t, k) == MilestoneKey(t, k) \in DOMAIN trees[t]
SledExistTreasury(trees, t, k) == TreasuryKey(t, k) \in DOMAIN trees[t]

SledExist(trees, t, k) ==
    CASE t \in MessageTables -> SledExistMessages(trees, t, k)
      [] t \in OutputTables -> SledExistOutputs(trees, t, k)
      [] t \in MilestoneTables -> SledExistMilestones(trees, t, k)
      [] t \in TreasuryTables -> SledExistTreasury(trees, t, k)

(* drop_tree *)
SledTruncate(trees, t) == [trees EXCEPT ![t] = << >>]
-----------------------------------------------------------------------------
(* Fetch of a value: a set with the value, empty when there is none. *)
SledGet(tree, bytes) == IF bytes \in DOMAIN tree THEN {UnpackValue(tree[bytes])} ELSE {}

(* The suffixes of the keys with a prefix, in the order of the keys. *)
ScanPrefix(tree, prefix) ==
    LET found == Sorted({bytes \in DOMAIN tree : IsPrefix(prefix, bytes)})
    IN  [i \in DOMAIN found |-> SubSeq(found[i], Len(prefix) + 1, Len(found[i]))]

SledFetchMessages(trees, t, k) == SledGet(trees[t], MessageKey(t, k))
SledFetchOutputs(trees, t, k) == SledGet(trees[t], OutputKey(t, k))
SledFetchMilestones(trees, t, k) == SledGet(trees[t], MilestoneKey(t, k))
SledFetchTreasuryValues(trees, t, k) == SledGet(trees[t], TreasuryKey(t, k))

SledFetch(trees, t, k) ==
    CASE t \in MessageTables -> SledFetchMessages(trees, t, k)
      [] t \in OutputTables -> SledFetchOutputs(trees, t, k)
      [] t \in MilestoneTables -> SledFetchMilestones(trees, t, k)
      [] t \in TreasuryTables -> SledFetchTreasuryValues(trees, t, k)

(* Fetch of the right components related to a left one. *)
SledFetchEdges(trees, t, left) == Take(ScanPrefix(trees[t], left), FetchLimit)

SledFetchOutputIds(trees, t, left) ==
    LET ids == ScanPrefix(trees[t], left)
    IN  Take([i \in DOMAIN ids |-> UnpackOutputId(ids[i])], FetchLimit)

SledFetchUnreferencedByByte(trees, t, left) ==
    LET found == ScanPrefix(trees[t], SubSeq(PackIndex(left), 2, 2))
    IN  [i \in DOMAIN found |-> Tail(found[i])]

SledFetchUnreferenced(trees, t, left) == ScanPrefix(trees[t], PackIndex(left))

SledFetchReceipts(trees, t, left) ==
    LET receipts == ScanPrefix(trees[t], PackIndex(left))
    IN  [i \in DOMAIN receipts |-> UnpackReceipt(receipts[i])]

SledFetchTreasury(trees, t, left) == ScanPrefix(trees[t], PackBool(left))

SledFetchRelated(trees, t, left) ==
    CASE t \in MessageTables -> SledFetchEdges(trees, t, left)
      [] t = "ed25519_address_to_output_id" -> SledFetchOutputIds(trees, t, left)
      [] t = "milestone_index_to_unreferenced_message" -> SledFetchUnreferenced(trees, t, left)
      [] t = "milestone_index_to_receipt" -> SledFetchReceipts(trees, t, left)
      [] t = "spent_to_treasury_output" -> SledFetchTreasury(trees, t, left)

(* One answer per requested key, in the order of the keys. *)
SledMultiFetch(trees, t, ks) == [i \in DOMAIN ks |-> SledFetch(trees, t, ks[i])]
-----------------------------------------------------------------------------
(* Iteration: the keys unpacked again, in the order of the trees. *)
SledUnpackMessages(t, bytes, idLength) ==
    IF t \in Relations
    THEN << SubSeq(bytes, 1, idLength), SubSeq(bytes, idLength + 1, Len(bytes)) >>
    ELSE bytes

SledUnpackOutputs(t, bytes, idLength) ==
    IF t \in Relations
    THEN << SubSeq(bytes, 1, idLength), UnpackOutputId(SubSeq(bytes, idLength + 1, Len(bytes))) >>
    ELSE UnpackOutputId(bytes)

SledUnpackMilestones(t, bytes) ==
    CASE t \in Singletons -> Unit
      [] t = "solid_entry_point_to_milestone_index" -> bytes
      [] OTHER -> UnpackIndex(bytes)

SledUnpackTreasury(t, bytes) ==
    LET left == SubSeq(bytes, 1, PrefixLength(t, 0))
        right == SubSeq(bytes, PrefixLength(t, 0) + 1, Len(bytes))
    IN  CASE t = "address_to_balance" -> UnpackAddress(bytes)
          [] t = "milestone_index_to_unreferenced_message" -> << UnpackIndex(left), right >>
          [] t = "milestone_index_to_receipt" -> << UnpackIndex(left), UnpackReceipt(right) >>
          [] t = "spent_to_treasury_output" -> << UnpackBool(left), right >>

SledIter(trees, t, idLength) ==
    LET ks == Sorted(DOMAIN trees[t])
        Unpack(bytes) ==
            CASE t \in MessageTables -> SledUnpackMessages(t, bytes, idLength)
              [] t \in OutputTables -> SledUnpackOutputs(t, bytes, idLength)
              [] t \in MilestoneTables -> SledUnpackMilestones(t, bytes)
              [] t \in TreasuryTables -> SledUnpackTreasury(t, bytes)
    IN  [i \in DOMAIN ks |-> << Unpack(ks[i]), UnpackValue(trees[t][ks[i]]) >>]
-----------------------------------------------------------------------------
(* Batches.  The entry of a tree is created on first use. *)
SledRecord(batch, t, bytes, change) ==
    Stored(batch, t, Stored(IF t \in DOMAIN batch THEN batch[t] ELSE << >>, bytes, change))

SledBatchMessages(batch, t, k, change) == SledRecord(batch, t, MessageKey(t, k), change)
SledBatchOutputs(batch, t, k, change) == SledRecord(batch, t, OutputKey(t, k), change)
SledBatchMilestones(batch, t, k, change) == SledRecord(batch, t, MilestoneKey(t, k), change)
SledBatchTreasury(batch, t, k, change) == SledRecord(batch, t, TreasuryKey(t, k), change)

SledBatchRecord(batch, t, k, change) ==
    CASE t \in MessageTables -> SledBatchMessages(batch, t, k, change)
      [] t \in OutputTables -> SledBatchOutputs(batch, t, k, change)
      [] t \in MilestoneTables -> SledBatchMilestones(batch, t, k, change)
      [] t \in TreasuryTables -> SledBatchTreasury(batch, t, k, change)

SledBatchInsert(batch, t, k, v) == SledBatchRecord(batch, t, k, PackValue(v))
SledBatchDelete(batch, t, k) == SledBatchRecord(batch, t, k, Removed)

(* One transaction over all the trees of the batch. *)
SledBatchCommit(trees, batch) ==
    [t \in Tables |->
        IF t \notin DOMAIN batch THEN trees[t]
        ELSE LET removed == {x \in DOMAIN batch[t] : batch[t][x] = Removed}
             IN  [bytes \in (DOMAIN trees[t] \cup DOMAIN batch[t]) \ removed |->
                    IF bytes \in DOMAIN batch[t] THEN batch[t][bytes] ELSE trees[t][bytes]]]
=============================================================================
