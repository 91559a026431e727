--------------------------- MODULE StorageTables ---------------------------
(***************************************************************************)
(* The tables of the storage and the byte strings that the backends key    *)
(* them by.  A byte is a number in 0 .. MaxByte, an identifier a sequence  *)
(* of bytes, a stored value is opaque.  The key of a relation is a pair;   *)
(* the backends that order their keys store it as the concatenation of the *)
(* packed components, and find the relations of a left component by its    *)
(* prefix.                                                                 *)
(***************************************************************************)
EXTENDS Integers, Sequences, SequencesExt, FiniteSets

CONSTANTS
    MaxByte,        \* u8::MAX
    Keys,           \* [AllTables -> sets of keys]
    Values,         \* values of the tables that are not relations
    IdLength,       \* length of an identifier (32 bytes)
    FetchLimit      \* fetch_edge_limit, fetch_index_limit, fetch_output_id_limit

VARIABLE Tables     \* the tables that a behaviour uses; it never changes

(* The tables, in the order in which every access file lists them. *)
MessageTables ==
    { "message_id_to_message", "message_id_to_metadata",
      "message_id_to_message_id", "index_to_message_id" }

OutputTables ==
    { "output_id_to_created_output", "output_id_to_consumed_output",
      "output_id_unspent", "ed25519_address_to_output_id" }

MilestoneTables ==
    { "ledger_index", "milestone_index_to_milestone", "snapshot_info",
      "solid_entry_point_to_milestone_index", "milestone_index_to_output_diff" }

TreasuryTables ==
    { "address_to_balance", "milestone_index_to_unreferenced_message",
      "milestone_index_to_receipt", "spent_to_treasury_output" }

AllTables == MessageTables \cup OutputTables \cup MilestoneTables \cup TreasuryTables

(* Relations: the key is a pair and the value is the unit. *)
Relations ==
    { "message_id_to_message_id", "index_to_message_id",
      "ed25519_address_to_output_id", "milestone_index_to_unreferenced_message",
      "milestone_index_to_receipt", "spent_to_treasury_output" }

(* Relations whose fetch stops at a configured limit. *)
LimitedRelations ==
    { "message_id_to_message_id", "index_to_message_id", "ed25519_address_to_output_id" }

Singletons == { "ledger_index", "snapshot_info" }

Unit == <<>>

StoredValues(t) ==
    IF t \in Relations \cup {"output_id_unspent"} THEN {Unit} ELSE Values

(* What the types of the keys allow. *)
Bytes == 0 .. MaxByte
Id == [1 .. IdLength -> Bytes]
Index == 0 .. (MaxByte + 1) * (MaxByte + 1) - 1
OutputId == [transaction_id : Seq(Bytes), index : Index]
Receipts == {r \in [last : Bytes, funds : Seq(Bytes), included_in : Index] : Len(r.funds) <= MaxByte}

KeySpace(t) ==
    CASE t \in Singletons -> {Unit}
      [] t \in {"message_id_to_message_id", "index_to_message_id"} -> Id \X Seq(Bytes)
      [] t \in {"output_id_to_created_output", "output_id_to_consumed_output", "output_id_unspent"} -> OutputId
      [] t = "ed25519_address_to_output_id" -> Id \X OutputId
      [] t \in {"milestone_index_to_milestone", "milestone_index_to_output_diff"} -> Index
      [] t = "milestone_index_to_unreferenced_message" -> Index \X Seq(Bytes)
      [] t = "milestone_index_to_receipt" -> Index \X Receipts
      [] t = "spent_to_treasury_output" -> BOOLEAN \X Seq(Bytes)
      [] OTHER -> Seq(Bytes)

ASSUME StorageTablesAssumption ==
    /\ MaxByte \in Nat \ {0} /\ IdLength \in Nat
    /\ DOMAIN Keys = AllTables
    /\ \A t \in AllTables : \A k \in Keys[t] : k \in KeySpace(t)
    /\ FetchLimit \in Nat \ {0}
-----------------------------------------------------------------------------
(* A map with an entry more, and without some. *)
Stored(map, x, y) == [z \in DOMAIN map \cup {x} |-> IF z = x THEN y ELSE map[z]]
Dropped(map, xs) == [z \in DOMAIN map \ xs |-> map[z]]
-----------------------------------------------------------------------------
(* Packing.  A u32 is packed in little-endian order, here as two bytes.    *)
PackIndex(index) == << index % (MaxByte + 1), index \div (MaxByte + 1) >>
UnpackIndex(bytes) == bytes[1] + (MaxByte + 1) * bytes[2]

(* An output id is the id of its transaction and the index of the output. *)
PackOutputId(id) == id.transaction_id \o PackIndex(id.index)
UnpackOutputId(bytes) ==
    [ transaction_id |-> SubSeq(bytes, 1, Len(bytes) - 2),
      index |-> UnpackIndex(SubSeq(bytes, Len(bytes) - 1, Len(bytes))) ]

(* An address is packed after a byte for its kind. *)
PackAddress(address) == << 0 >> \o address
UnpackAddress(bytes) == Tail(bytes)

(* A receipt has a variable length: its payload carries the migrated      *)
(* funds, and the index of the milestone that includes it follows them.    *)
PackReceipt(receipt) ==
    << receipt.last, Len(receipt.funds) >> \o receipt.funds \o PackIndex(receipt.included_in)

ReceiptEndingAt(bytes, end) ==
    [ last |-> bytes[1], funds |-> SubSeq(bytes, 3, end),
      included_in |-> UnpackIndex(SubSeq(bytes, end + 1, end + 2)) ]

UnpackReceipt(bytes) == ReceiptEndingAt(bytes, 2 + bytes[2])

PackBool(spent) == IF spent THEN << 1 >> ELSE << 0 >>
UnpackBool(bytes) == bytes = << 1 >>

PackValue(v) == << "packed", v >>
UnpackValue(bytes) == bytes[2]
-----------------------------------------------------------------------------
(* The bytes of a key of each group of tables. *)
MessageKey(t, k) == IF t \in Relations THEN k[1] \o k[2] ELSE k

OutputKey(t, k) == IF t \in Relations THEN k[1] \o PackOutputId(k[2]) ELSE PackOutputId(k)

MilestoneKey(t, k) ==
    CASE t \in Singletons -> << 0 >>
      [] t = "solid_entry_point_to_milestone_index" -> k
      [] OTHER -> PackIndex(k)

TreasuryKey(t, k) ==
    CASE t = "address_to_balance" -> PackAddress(k)
      [] t = "milestone_index_to_unreferenced_message" -> PackIndex(k[1]) \o k[2]
      [] t = "milestone_index_to_receipt" -> PackIndex(k[1]) \o PackReceipt(k[2])
      [] t = "spent_to_treasury_output" -> PackBool(k[1]) \o k[2]

KeyBytes(t, k) ==
    CASE t \in MessageTables -> MessageKey(t, k)
      [] t \in OutputTables -> OutputKey(t, k)
      [] t \in MilestoneTables -> MilestoneKey(t, k)
      [] t \in TreasuryTables -> TreasuryKey(t, k)

(* Length of the left component of the relations of a table, given the     *)
(* length of the identifiers (they are 32 bytes, 64 for a padded index).   *)
PrefixLength(t, idLength) ==
    CASE t \in { "milestone_index_to_unreferenced_message", "milestone_index_to_receipt" } -> 2
      [] t = "spent_to_treasury_output" -> 1
      [] OTHER -> idLength

(* Order of the keys in the trees and column families: bytewise. *)
BytesLess(left, right) ==
    \E n \in 0 .. Len(left) :
        /\ n <= Len(right)
        /\ SubSeq(left, 1, n) = SubSeq(right, 1, n)
        /\ n < Len(right)
        /\ n < Len(left) => left[n + 1] < right[n + 1]

Sorted(keys) ==
    CHOOSE s \in [1 .. Cardinality(keys) -> keys] :
        \A i, j \in DOMAIN s : i < j => BytesLess(s[i], s[j])

Take(seq, limit) == SubSeq(seq, 1, IF Len(seq) < limit THEN Len(seq) ELSE limit)
=============================================================================
