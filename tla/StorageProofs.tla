---------------------------- MODULE StorageProofs ---------------------------
(***************************************************************************)
(* Proofs about the storage: for all tables, keys and values the backends  *)
(* implement one map per table, and their reads answer what it holds.      *)
(***************************************************************************)
EXTENDS Storage, FoldProofs, SequenceTheorems

-----------------------------------------------------------------------------
(***************************************************************************)
(* Bytes.                                                                  *)
(***************************************************************************)
(* The parts of a concatenation.                                           *)
LEMMA ConcatParts ==
  ASSUME NEW S, NEW l \in Seq(S), NEW r \in Seq(S)
  PROVE  /\ l \o r \in Seq(S) /\ Len(l \o r) = Len(l) + Len(r)
         /\ SubSeq(l \o r, 1, Len(l)) = l
         /\ SubSeq(l \o r, Len(l) + 1, Len(l \o r)) = r
<1>1. l \o r \in Seq(S) /\ Len(l \o r) = Len(l) + Len(r)  BY ConcatProperties
<1>2. SubSeq(l \o r, 1, Len(l)) = l
  <2>1. SubSeq(l \o r, 1, Len(l)) \in Seq(S) /\ Len(SubSeq(l \o r, 1, Len(l))) = Len(l)  BY <1>1
  <2>2. \A i \in 1 .. Len(l) : SubSeq(l \o r, 1, Len(l))[i] = l[i]  BY <1>1
  <2> QED  BY <2>1, <2>2, SeqEqual
<1>3. SubSeq(l \o r, Len(l) + 1, Len(l \o r)) = r
  <2> DEFINE u == SubSeq(l \o r, Len(l) + 1, Len(l \o r))
  <2>1. u \in Seq(S) /\ Len(u) = Len(r)  BY <1>1
  <2>2. \A i \in 1 .. Len(r) : u[i] = r[i]  BY <1>1
  <2> QED  BY <2>1, <2>2, SeqEqual
<1> QED  BY <1>1, <1>2, <1>3

\* What the keys and the bytes are.
LEMMA BytesAssumption ==
  /\ MaxByte \in Nat \ {0} /\ IdLength \in Nat /\ FetchLimit \in Nat \ {0}
  /\ DOMAIN Keys = AllTables
  /\ \A t \in AllTables : \A k \in Keys[t] : k \in KeySpace(t)
BY StorageTablesAssumption

(* An identifier is a sequence of its length.                              *)
LEMMA IdIsSeq == ASSUME NEW x \in Id  PROVE x \in Seq(Bytes) /\ Len(x) = IdLength
BY BytesAssumption DEF Id

(* An index is the same after packing and unpacking.                       *)
LEMMA IndexPacked ==
  ASSUME NEW i \in Index
  PROVE  /\ PackIndex(i) \in Seq(Bytes) /\ Len(PackIndex(i)) = 2
         /\ UnpackIndex(PackIndex(i)) = i
<1> DEFINE b == MaxByte + 1
<1>1. b \in Nat \ {0} /\ i \in 0 .. b * b - 1 /\ Bytes = 0 .. b - 1  BY BytesAssumption DEF Index, Bytes
<1>2. PackIndex(i) = <<i % b, i \div b>>  BY DEF PackIndex
<1>3. UnpackIndex(PackIndex(i)) = (i % b) + b * (i \div b)  BY <1>2 DEF UnpackIndex
<1> HIDE DEF b
<1>4. i % b \in 0 .. b - 1 /\ i = b * (i \div b) + (i % b) /\ i \div b \in Nat  BY <1>1
<1>5. i \div b <= b - 1
  <2> DEFINE q == i \div b
             r == i % b
  <2>1. q \in Nat /\ r \in Nat /\ b \in Nat /\ b * q + r < b * b  BY <1>1, <1>4
  <2> HIDE DEF q, r
  <2>2. ASSUME q >= b  PROVE FALSE
    <3>1. b * q >= b * b  BY <2>1, <2>2
    <3>2. b * q \in Nat /\ b * b \in Nat  BY <2>1
    <3> QED  BY <3>1, <3>2, <2>1
  <2>3. q < b  BY <2>1, <2>2
  <2> QED  BY <2>1, <2>3 DEF q
<1> QED  BY <1>1, <1>2, <1>3, <1>4, <1>5

(* The parts of two byte strings that are put together.                    *)
Joins(w, l, r) ==
  /\ w \in Seq(Bytes) /\ Len(w) = Len(l) + Len(r)
  /\ Len(l) \in Nat /\ Len(r) \in Nat
  /\ SubSeq(w, 1, Len(l)) = l
  /\ SubSeq(w, Len(l) + 1, Len(w)) = r
  /\ \A i \in 1 .. Len(l) : w[i] = l[i]
  /\ \A i \in 1 .. Len(r) : w[Len(l) + i] = r[i]

(* A concatenation of byte strings consists of them.                       *)
LEMMA Joined == \A l, r \in Seq(Bytes) : Joins(l \o r, l, r)
<1> SUFFICES ASSUME NEW l \in Seq(Bytes), NEW r \in Seq(Bytes)  PROVE Joins(l \o r, l, r)  OBVIOUS
<1>1. /\ l \o r \in Seq(Bytes) /\ Len(l \o r) = Len(l) + Len(r)
      /\ SubSeq(l \o r, 1, Len(l)) = l
      /\ SubSeq(l \o r, Len(l) + 1, Len(l \o r)) = r
  BY ConcatParts
<1>2. /\ \A i \in 1 .. Len(l) : (l \o r)[i] = l[i]
      /\ \A i \in 1 .. Len(r) : (l \o r)[Len(l) + i] = r[i]
  OBVIOUS
<1>3. Len(l) \in Nat /\ Len(r) \in Nat  OBVIOUS
<1> QED  BY <1>1, <1>2, <1>3 DEF Joins

(* An output identifier is the same after packing and unpacking.           *)
LEMMA OutputIdPacked ==
  ASSUME NEW x \in OutputId
  PROVE  PackOutputId(x) \in Seq(Bytes) /\ UnpackOutputId(PackOutputId(x)) = x
<1> DEFINE l == x.transaction_id
           r == PackIndex(x.index)
           w == l \o r
<1>1. l \in Seq(Bytes) /\ x.index \in Index /\ x = [transaction_id |-> l, index |-> x.index]  BY DEF OutputId
<1>2. r \in Seq(Bytes) /\ Len(r) = 2 /\ UnpackIndex(r) = x.index  BY <1>1, IndexPacked
<1>3. PackOutputId(x) = w  BY DEF PackOutputId
<1>4. Joins(w, l, r)  BY <1>1, <1>2, Joined
<1> HIDE DEF l, r, w
<1>5. Len(w) - 2 = Len(l) /\ Len(w) - 1 = Len(l) + 1  BY <1>2, <1>4 DEF Joins
<1>6. UnpackOutputId(w) = [transaction_id |-> l, index |-> UnpackIndex(r)]  BY <1>4, <1>5 DEF UnpackOutputId, Joins
<1> QED  BY <1>1, <1>2, <1>3, <1>4, <1>6 DEF Joins

(* A receipt is the same after packing and unpacking.                      *)
LEMMA ReceiptPacked ==
  ASSUME NEW x \in Receipts
  PROVE  PackReceipt(x) \in Seq(Bytes) /\ UnpackReceipt(PackReceipt(x)) = x
<1> DEFINE h == <<x.last, Len(x.funds)>>
           f == x.funds
           r == PackIndex(x.included_in)
           p == h \o f
           w == p \o r
<1>1. /\ x.last \in Bytes /\ f \in Seq(Bytes) /\ Len(f) <= MaxByte /\ x.included_in \in Index
      /\ x = [last |-> x.last, funds |-> f, included_in |-> x.included_in]
  BY DEF Receipts
<1>2. r \in Seq(Bytes) /\ Len(r) = 2 /\ UnpackIndex(r) = x.included_in  BY <1>1, IndexPacked
<1>3. h \in Seq(Bytes) /\ Len(h) = 2 /\ h[1] = x.last /\ h[2] = Len(f)  BY <1>1, BytesAssumption DEF Bytes
<1>4. PackReceipt(x) = w  BY DEF PackReceipt
<1> HIDE DEF h, f, r
<1>5. Joins(p, h, f)  BY <1>1, <1>3, Joined
<1>6. Joins(w, p, r)
  <2>1. p \in Seq(Bytes)  BY <1>5 DEF Joins
  <2> HIDE DEF p
  <2> QED  BY <1>2, <2>1, Joined
<1> HIDE DEF p, w
<1>7. Len(p) = 2 + Len(f) /\ Len(f) \in Nat /\ p \in Seq(Bytes) /\ w \in Seq(Bytes) /\ Len(w) = Len(p) + 2
  BY <1>2, <1>3, <1>5, <1>6 DEF Joins
<1>8. w[1] = x.last /\ w[2] = Len(f)
  <2>1. p[1] = h[1] /\ p[2] = h[2]  BY <1>3, <1>5 DEF Joins
  <2>2. w[1] = p[1] /\ w[2] = p[2]  BY <1>6, <1>7 DEF Joins
  <2> QED  BY <2>1, <2>2, <1>3
<1>9. SubSeq(w, 3, 2 + Len(f)) = f
  <2> DEFINE u == SubSeq(w, 3, 2 + Len(f))
  <2>1. u \in Seq(Bytes) /\ Len(u) = Len(f)  BY <1>7
  <2>2. ASSUME NEW i \in 1 .. Len(f)  PROVE u[i] = f[i]
    <3>1. u[i] = w[i + 2]  BY <1>7
    <3>2. w[i + 2] = p[i + 2]  BY <1>6, <1>7 DEF Joins
    <3>3. p[2 + i] = f[i]  BY <1>3, <1>5 DEF Joins
    <3> QED  BY <3>1, <3>2, <3>3
  <2> HIDE DEF u
  <2>3. u = f  BY <1>1, <2>1, <2>2, SeqEqual
  <2> QED  BY <2>3 DEF u
<1>10. SubSeq(w, 2 + Len(f) + 1, 2 + Len(f) + 2) = r  BY <1>2, <1>6, <1>7 DEF Joins
<1>11. UnpackReceipt(w) = ReceiptEndingAt(w, 2 + Len(f))  BY <1>8 DEF UnpackReceipt
<1>12. UnpackReceipt(w) = [last |-> x.last, funds |-> f, included_in |-> x.included_in]
  BY <1>2, <1>8, <1>9, <1>10, <1>11 DEF ReceiptEndingAt
<1> QED  BY <1>1, <1>4, <1>7, <1>12

-----------------------------------------------------------------------------
(***************************************************************************)
(* The bytes of the keys.                                                  *)
(***************************************************************************)
(* The components of a relation, their bytes, and the bytes unpacked again. *)
LeftSpace(t) ==
  CASE t \in {"message_id_to_message_id", "index_to_message_id", "ed25519_address_to_output_id"} -> Id
    [] t \in {"milestone_index_to_unreferenced_message", "milestone_index_to_receipt"} -> Index
    [] OTHER -> BOOLEAN
RightSpace(t) ==
  CASE t = "ed25519_address_to_output_id" -> OutputId
    [] t = "milestone_index_to_receipt" -> Receipts
    [] OTHER -> Seq(Bytes)
PackLeft(t, x) ==
  CASE t \in {"message_id_to_message_id", "index_to_message_id", "ed25519_address_to_output_id"} -> x
    [] t \in {"milestone_index_to_unreferenced_message", "milestone_index_to_receipt"} -> PackIndex(x)
    [] OTHER -> PackBool(x)
PackRight(t, x) ==
  CASE t = "ed25519_address_to_output_id" -> PackOutputId(x)
    [] t = "milestone_index_to_receipt" -> PackReceipt(x)
    [] OTHER -> x
UnpackLeft(t, bytes) ==
  CASE t \in {"message_id_to_message_id", "index_to_message_id", "ed25519_address_to_output_id"} -> bytes
    [] t \in {"milestone_index_to_unreferenced_message", "milestone_index_to_receipt"} -> UnpackIndex(bytes)
    [] OTHER -> UnpackBool(bytes)
UnpackRight(t, bytes) ==
  CASE t = "ed25519_address_to_output_id" -> UnpackOutputId(bytes)
    [] t = "milestone_index_to_receipt" -> UnpackReceipt(bytes)
    [] OTHER -> bytes
LeftLength(t) == PrefixLength(t, IdLength)

(* The key of a byte string, as the iterators of sled and RocksDB unpack it. *)
Unpacked(t, bytes) ==
  CASE t \in MessageTables -> SledUnpackMessages(t, bytes, IdLength)
    [] t \in OutputTables -> SledUnpackOutputs(t, bytes, IdLength)
    [] t \in MilestoneTables -> SledUnpackMilestones(t, bytes)
    [] t \in TreasuryTables -> SledUnpackTreasury(t, bytes)

(* A boolean is the same after packing and unpacking.                      *)
LEMMA BoolPacked ==
  ASSUME NEW x \in BOOLEAN
  PROVE  PackBool(x) \in Seq(Bytes) /\ Len(PackBool(x)) = 1 /\ UnpackBool(PackBool(x)) = x
<1>1. <<0>> \in Seq(Bytes) /\ Len(<<0>>) = 1 /\ <<1>> \in Seq(Bytes) /\ Len(<<1>>) = 1
  BY BytesAssumption DEF Bytes
<1>2. <<0>> # <<1>>  OBVIOUS
<1>3. PackBool(TRUE) = <<1>> /\ PackBool(FALSE) = <<0>>  BY DEF PackBool
<1>4. UnpackBool(<<1>>) = TRUE /\ UnpackBool(<<0>>) = FALSE  BY <1>2, Zenon DEF UnpackBool
<1>5. CASE x = TRUE  BY <1>1, <1>3, <1>4, <1>5
<1>6. CASE x = FALSE  BY <1>1, <1>3, <1>4, <1>6
<1> QED  BY <1>5, <1>6

(* The left component of a relation has the length of the table's prefix.  *)
LEMMA LeftPacked ==
  ASSUME NEW t \in Relations, NEW x \in LeftSpace(t)
  PROVE  /\ PackLeft(t, x) \in Seq(Bytes) /\ Len(PackLeft(t, x)) = LeftLength(t)
         /\ UnpackLeft(t, PackLeft(t, x)) = x /\ LeftLength(t) \in Nat
<1>1. CASE t \in {"message_id_to_message_id", "index_to_message_id", "ed25519_address_to_output_id"}
  BY <1>1, IdIsSeq, BytesAssumption DEF LeftSpace, PackLeft, UnpackLeft, LeftLength, PrefixLength
<1>2. CASE t \in {"milestone_index_to_unreferenced_message", "milestone_index_to_receipt"}
  BY <1>2, IndexPacked DEF LeftSpace, PackLeft, UnpackLeft, LeftLength, PrefixLength
<1>3. CASE t = "spent_to_treasury_output"
  BY <1>3, BoolPacked DEF LeftSpace, PackLeft, UnpackLeft, LeftLength, PrefixLength
<1> QED  BY <1>1, <1>2, <1>3 DEF Relations

(* The right component is the same after packing and unpacking.            *)
LEMMA RightPacked ==
  ASSUME NEW t \in Relations, NEW x \in RightSpace(t)
  PROVE  PackRight(t, x) \in Seq(Bytes) /\ UnpackRight(t, PackRight(t, x)) = x
BY OutputIdPacked, ReceiptPacked DEF RightSpace, PackRight, UnpackRight, Relations

(* The key of a relation is the concatenation of its packed components.    *)
LEMMA RelationKey ==
  ASSUME NEW t \in Relations
  PROVE  /\ KeySpace(t) = LeftSpace(t) \X RightSpace(t)
         /\ \A k : KeyBytes(t, k) = PackLeft(t, k[1]) \o PackRight(t, k[2])
         /\ \A b : Unpacked(t, b) = <<UnpackLeft(t, SubSeq(b, 1, LeftLength(t))),
                                      UnpackRight(t, SubSeq(b, LeftLength(t) + 1, Len(b)))>>
<1>1. KeySpace(t) = LeftSpace(t) \X RightSpace(t)
  BY DEF KeySpace, LeftSpace, RightSpace, Relations, Singletons
<1>2. ASSUME NEW k  PROVE KeyBytes(t, k) = PackLeft(t, k[1]) \o PackRight(t, k[2])
  BY DEF KeyBytes, MessageKey, OutputKey, TreasuryKey, PackLeft, PackRight, Relations,
         MessageTables, OutputTables, MilestoneTables, TreasuryTables
<1>3. ASSUME NEW b
      PROVE  Unpacked(t, b) = <<UnpackLeft(t, SubSeq(b, 1, LeftLength(t))),
                                UnpackRight(t, SubSeq(b, LeftLength(t) + 1, Len(b)))>>
  BY DEF Unpacked, SledUnpackMessages, SledUnpackOutputs, SledUnpackTreasury, UnpackLeft, UnpackRight,
         LeftLength, PrefixLength, Relations, MessageTables, OutputTables, MilestoneTables, TreasuryTables
<1> QED  BY <1>1, <1>2, <1>3

(* The bytes of a relation's key are its components one after the other.   *)
LEMMA RelationBytes ==
  ASSUME NEW t \in Relations, NEW k \in KeySpace(t)
  PROVE  /\ k[1] \in LeftSpace(t) /\ k[2] \in RightSpace(t) /\ k = <<k[1], k[2]>>
         /\ Joins(KeyBytes(t, k), PackLeft(t, k[1]), PackRight(t, k[2]))
<1>1. k[1] \in LeftSpace(t) /\ k[2] \in RightSpace(t) /\ k = <<k[1], k[2]>>  BY RelationKey
<1> DEFINE l == PackLeft(t, k[1])
           r == PackRight(t, k[2])
<1>2. l \in Seq(Bytes) /\ r \in Seq(Bytes)  BY <1>1, LeftPacked, RightPacked
<1>3. KeyBytes(t, k) = l \o r  BY RelationKey
<1> HIDE DEF l, r
<1>4. Joins(l \o r, l, r)  BY <1>2, Joined
<1> QED  BY <1>1, <1>3, <1>4 DEF l, r

(* Unpacking the bytes of a key gives the key.                             *)
LEMMA KeyPacked ==
  ASSUME NEW t \in AllTables, NEW k \in KeySpace(t)
  PROVE  KeyBytes(t, k) \in Seq(Bytes) /\ Unpacked(t, KeyBytes(t, k)) = k
<1>1. CASE t \in Relations
  <2> DEFINE l == PackLeft(t, k[1])
             r == PackRight(t, k[2])
             w == KeyBytes(t, k)
  <2>1. k[1] \in LeftSpace(t) /\ k[2] \in RightSpace(t) /\ k = <<k[1], k[2]>> /\ Joins(w, l, r)
    BY <1>1, RelationBytes
  <2>2. Len(l) = LeftLength(t) /\ UnpackLeft(t, l) = k[1] /\ UnpackRight(t, r) = k[2]
    BY <1>1, <2>1, LeftPacked, RightPacked
  <2>3. Unpacked(t, w) = <<UnpackLeft(t, SubSeq(w, 1, LeftLength(t))),
                           UnpackRight(t, SubSeq(w, LeftLength(t) + 1, Len(w)))>>
    BY <1>1, RelationKey
  <2> HIDE DEF l, r, w
  <2>4. Unpacked(t, w) = <<UnpackLeft(t, l), UnpackRight(t, r)>>  BY <2>1, <2>2, <2>3 DEF Joins
  <2>5. w \in Seq(Bytes)  BY <2>1 DEF Joins
  <2> QED  BY <2>1, <2>2, <2>4, <2>5 DEF w
<1>2. CASE t \in Singletons
  <2>1. k = Unit /\ KeyBytes(t, k) = <<0>>
    BY <1>2 DEF Singletons, KeySpace, KeyBytes, MilestoneKey,
         MessageTables, OutputTables, MilestoneTables, TreasuryTables
  <2>2. \A b : Unpacked(t, b) = Unit
    BY <1>2 DEF Singletons, Unpacked, SledUnpackMilestones,
         MessageTables, OutputTables, MilestoneTables, TreasuryTables
  <2>3. <<0>> \in Seq(Bytes)  BY BytesAssumption DEF Bytes
  <2> QED  BY <2>1, <2>2, <2>3
<1>3. CASE t \in {"output_id_to_created_output", "output_id_to_consumed_output", "output_id_unspent"}
  <2>1. k \in OutputId /\ KeyBytes(t, k) = PackOutputId(k)
    BY <1>3 DEF Singletons, Relations, KeySpace, KeyBytes, OutputKey,
         MessageTables, OutputTables, MilestoneTables, TreasuryTables
  <2>2. \A b : Unpacked(t, b) = UnpackOutputId(b)
    BY <1>3 DEF Relations, Unpacked, SledUnpackOutputs,
         MessageTables, OutputTables, MilestoneTables, TreasuryTables
  <2> QED  BY <2>1, <2>2, OutputIdPacked
<1>4. CASE t \in {"milestone_index_to_milestone", "milestone_index_to_output_diff"}
  <2>1. k \in Index /\ KeyBytes(t, k) = PackIndex(k)
    BY <1>4 DEF Singletons, Relations, KeySpace, KeyBytes, MilestoneKey,
         MessageTables, OutputTables, MilestoneTables, TreasuryTables
  <2>2. \A b : Unpacked(t, b) = UnpackIndex(b)
    BY <1>4 DEF Singletons, Unpacked, SledUnpackMilestones,
         MessageTables, OutputTables, MilestoneTables, TreasuryTables
  <2> QED  BY <2>1, <2>2, IndexPacked
<1>5. CASE t \in {"message_id_to_message", "message_id_to_metadata", "solid_entry_point_to_milestone_index"}
  BY <1>5 DEF Singletons, Relations, KeySpace, KeyBytes, MessageKey, MilestoneKey, Unpacked,
         SledUnpackMessages, SledUnpackMilestones,
         MessageTables, OutputTables, MilestoneTables, TreasuryTables
<1>6. CASE t = "address_to_balance"
  <2>1. k \in Seq(Bytes) /\ KeyBytes(t, k) = <<0>> \o k
    BY <1>6 DEF Singletons, Relations, KeySpace, KeyBytes, TreasuryKey, PackAddress,
         MessageTables, OutputTables, MilestoneTables, TreasuryTables
  <2>2. \A b : Unpacked(t, b) = Tail(b)
    BY <1>6 DEF Relations, Unpacked, SledUnpackTreasury, UnpackAddress,
         MessageTables, OutputTables, MilestoneTables, TreasuryTables
  <2>3. <<0>> \in Seq(Bytes) /\ Len(<<0>>) = 1  BY BytesAssumption DEF Bytes
  <2> DEFINE w == <<0>> \o k
  <2>4. Joins(w, <<0>>, k)  BY <2>1, <2>3, Joined
  <2>5. w \in Seq(Bytes) /\ Len(w) = 1 + Len(k) /\ SubSeq(w, 2, Len(w)) = k /\ Len(k) \in Nat
    BY <2>3, <2>4 DEF Joins
  <2> HIDE DEF w
  <2>6. Tail(w) = k
    <3>1. w # << >>  BY <2>5
    <3>2. Tail(w) \in Seq(Bytes) /\ Len(Tail(w)) = Len(k)  BY <2>5, <3>1
    <3>3. \A i \in 1 .. Len(k) : Tail(w)[i] = w[1 + i]  BY <2>5, <3>1
    <3>4. \A i \in 1 .. Len(k) : w[1 + i] = k[i]  BY <2>3, <2>4 DEF Joins
    <3> QED  BY <2>1, <3>2, <3>3, <3>4, SeqEqual
  <2> QED  BY <2>1, <2>2, <2>5, <2>6 DEF w
<1> QED  BY <1>1, <1>2, <1>3, <1>4, <1>5, <1>6 DEF AllTables, MessageTables, OutputTables, MilestoneTables,
         TreasuryTables, Relations, Singletons

(* Different keys have different bytes.                                    *)
LEMMA KeysApart ==
  ASSUME NEW t \in AllTables, NEW k \in KeySpace(t), NEW l \in KeySpace(t), KeyBytes(t, k) = KeyBytes(t, l)
  PROVE  k = l
BY KeyPacked

-----------------------------------------------------------------------------
(***************************************************************************)
(* The order of the keys.                                                  *)
(***************************************************************************)
(* Two byte strings start with the same n bytes.                           *)
Agree(x, y, n) == n <= Len(x) /\ n <= Len(y) /\ \A i \in 1 .. n : x[i] = y[i]

(* Equal prefixes are equal bytes.                                         *)
LEMMA AgreePrefix ==
  ASSUME NEW x \in Seq(Bytes), NEW y \in Seq(Bytes), NEW n \in Nat, n <= Len(x), n <= Len(y)
  PROVE  SubSeq(x, 1, n) = SubSeq(y, 1, n) <=> Agree(x, y, n)
<1> DEFINE u == SubSeq(x, 1, n)
           v == SubSeq(y, 1, n)
<1>1. u \in Seq(Bytes) /\ v \in Seq(Bytes) /\ Len(u) = n /\ Len(v) = n  OBVIOUS
<1>2. \A i \in 1 .. n : u[i] = x[i] /\ v[i] = y[i]  OBVIOUS
<1> HIDE DEF u, v
<1>3. ASSUME Agree(x, y, n)  PROVE u = v
  <2>1. \A i \in 1 .. Len(u) : u[i] = v[i]  BY <1>1, <1>2, <1>3 DEF Agree
  <2> QED  BY <1>1, <2>1, SeqEqual
<1>4. ASSUME u = v  PROVE Agree(x, y, n)  BY <1>2, <1>4 DEF Agree
<1>5. u = v <=> Agree(x, y, n)  BY <1>3, <1>4
<1> QED  BY <1>5 DEF u, v

(* x comes before y from their byte n + 1 on.                              *)
LessAt(x, y, n) ==
  n \in Nat /\ Agree(x, y, n) /\ n < Len(y) /\ (n < Len(x) => x[n + 1] < y[n + 1])

\* The order of two keys is that of the first bytes in which they differ.
LEMMA LessIs ==
  ASSUME NEW x \in Seq(Bytes), NEW y \in Seq(Bytes)
  PROVE  BytesLess(x, y) <=> \E n : LessAt(x, y, n)
<1>1. ASSUME BytesLess(x, y)  PROVE \E n : LessAt(x, y, n)
  <2>1. PICK n \in 0 .. Len(x) : /\ n <= Len(y) /\ SubSeq(x, 1, n) = SubSeq(y, 1, n)
                                 /\ n < Len(y) /\ (n < Len(x) => x[n + 1] < y[n + 1])
    BY <1>1 DEF BytesLess
  <2>2. n \in Nat /\ n <= Len(x)  OBVIOUS
  <2>3. Agree(x, y, n)  BY <2>1, <2>2, AgreePrefix
  <2>4. LessAt(x, y, n)  BY <2>1, <2>2, <2>3 DEF LessAt
  <2> QED  BY <2>4
<1>2. ASSUME NEW n, LessAt(x, y, n)  PROVE BytesLess(x, y)
  <2>1. n \in Nat /\ n <= Len(x) /\ n <= Len(y) /\ n < Len(y) /\ Agree(x, y, n)
        /\ (n < Len(x) => x[n + 1] < y[n + 1])
    BY <1>2 DEF LessAt, Agree
  <2>2. SubSeq(x, 1, n) = SubSeq(y, 1, n)  BY <2>1, AgreePrefix
  <2>3. n \in 0 .. Len(x)  BY <2>1
  <2> QED  BY <2>1, <2>2, <2>3 DEF BytesLess
<1> QED  BY <1>1, <1>2

(* Bytes are compared as numbers.                                          *)
LEMMA ByteIsInt == ASSUME NEW x \in Seq(Bytes), NEW i \in 1 .. Len(x)  PROVE x[i] \in Int
BY BytesAssumption DEF Bytes

(* Nothing comes before itself.                                            *)
LEMMA LessIrreflexive == ASSUME NEW x \in Seq(Bytes)  PROVE ~BytesLess(x, x)
<1>1. ASSUME NEW n, LessAt(x, x, n)  PROVE FALSE
  <2>1. n \in Nat /\ n < Len(x) /\ x[n + 1] < x[n + 1] /\ n + 1 \in 1 .. Len(x)  BY <1>1 DEF LessAt
  <2>2. x[n + 1] \in Int  BY <2>1, ByteIsInt
  <2> QED  BY <2>1, <2>2
<1> QED  BY <1>1, LessIs

(* The order is transitive.                                                *)
LEMMA LessTransitive ==
  ASSUME NEW x \in Seq(Bytes), NEW y \in Seq(Bytes), NEW z \in Seq(Bytes), BytesLess(x, y), BytesLess(y, z)
  PROVE  BytesLess(x, z)
<1>1. PICK n : LessAt(x, y, n)  BY LessIs
<1>2. PICK m : LessAt(y, z, m)  BY LessIs
<1>3. n \in Nat /\ m \in Nat /\ n < Len(y) /\ m < Len(z) /\ n <= Len(x) /\ m <= Len(y)
  BY <1>1, <1>2 DEF LessAt, Agree
<1>4. \A i \in 1 .. n : x[i] = y[i]  BY <1>1 DEF LessAt, Agree
<1>5. \A i \in 1 .. m : y[i] = z[i]  BY <1>2 DEF LessAt, Agree
<1>6. n < Len(x) => x[n + 1] < y[n + 1]  BY <1>1 DEF LessAt
<1>7. m < Len(y) => y[m + 1] < z[m + 1]  BY <1>2 DEF LessAt
<1>8. CASE n < m
  <2>1. y[n + 1] = z[n + 1]  BY <1>3, <1>5, <1>8
  <2>2. Agree(x, z, n)  BY <1>3, <1>4, <1>5, <1>8 DEF Agree
  <2>3. LessAt(x, z, n)  BY <1>3, <1>6, <1>8, <2>1, <2>2 DEF LessAt
  <2> QED  BY <2>3, LessIs
<1>9. CASE m < n
  <2>1. x[m + 1] = y[m + 1] /\ m < Len(y)  BY <1>3, <1>4, <1>9
  <2>2. Agree(x, z, m)  BY <1>3, <1>4, <1>5, <1>9 DEF Agree
  <2>3. LessAt(x, z, m)  BY <1>3, <1>7, <1>9, <2>1, <2>2 DEF LessAt
  <2> QED  BY <2>3, LessIs
<1>10. CASE n = m
  <2>1. Agree(x, z, n)  BY <1>3, <1>4, <1>5, <1>10 DEF Agree
  <2>2. y[n + 1] < z[n + 1]  BY <1>3, <1>7, <1>10
  <2>3. n < Len(x) => x[n + 1] < z[n + 1]
    <3>1. ASSUME n < Len(x)  PROVE x[n + 1] < z[n + 1]
      <4>1. n + 1 \in 1 .. Len(x) /\ n + 1 \in 1 .. Len(y) /\ n + 1 \in 1 .. Len(z)  BY <1>3, <1>10, <3>1
      <4>2. x[n + 1] \in Int /\ y[n + 1] \in Int /\ z[n + 1] \in Int  BY <4>1, ByteIsInt
      <4> QED  BY <1>6, <2>2, <3>1, <4>2
    <3> QED  BY <3>1
  <2>4. LessAt(x, z, n)  BY <1>3, <1>10, <2>1, <2>3 DEF LessAt
  <2> QED  BY <2>4, LessIs
<1> QED  BY <1>3, <1>8, <1>9, <1>10

(* Of two byte strings one comes before the other.                         *)
LEMMA LessTotal ==
  ASSUME NEW x \in Seq(Bytes), NEW y \in Seq(Bytes), x # y
  PROVE  BytesLess(x, y) \/ BytesLess(y, x)
<1> DEFINE D == {n \in Nat : ~Agree(x, y, n + 1)}
<1>1. Len(x) \in D  BY DEF Agree
<1>2. PICK n \in D : \A m \in D : n <= m
  <2>1. D \subseteq Nat /\ D # {}  BY <1>1
  <2> HIDE DEF D
  <2> QED  BY <2>1, NatLeast
<1>3. n \in Nat /\ ~Agree(x, y, n + 1)  BY <1>2
<1>4. Agree(x, y, n)
  <2>1. CASE n = 0  BY <2>1 DEF Agree
  <2>2. CASE n # 0
    <3>1. n - 1 \in Nat /\ (n - 1) + 1 = n /\ ~(n <= n - 1)  BY <1>3, <2>2
    <3>2. n - 1 \notin D  BY <1>2, <3>1
    <3> QED  BY <3>1, <3>2
  <2> QED  BY <2>1, <2>2
<1> HIDE DEF D
<1>5. n <= Len(x) /\ n <= Len(y) /\ \A i \in 1 .. n : x[i] = y[i]  BY <1>4 DEF Agree
<1>6. CASE n < Len(x) /\ n < Len(y)
  <2>1. n + 1 \in 1 .. Len(x) /\ n + 1 \in 1 .. Len(y)  BY <1>3, <1>6
  <2>2. x[n + 1] \in Int /\ y[n + 1] \in Int  BY <2>1, ByteIsInt
  <2>3. x[n + 1] # y[n + 1]
    <3>1. ASSUME x[n + 1] = y[n + 1]  PROVE Agree(x, y, n + 1)
      <4>1. \A i \in 1 .. n + 1 : i = n + 1 \/ i \in 1 .. n  BY <1>3
      <4> QED  BY <1>3, <1>5, <2>1, <3>1, <4>1 DEF Agree
    <3> QED  BY <1>3, <3>1
  <2>4. Agree(y, x, n)  BY <1>5 DEF Agree
  <2>5. CASE x[n + 1] < y[n + 1]
    <3>1. LessAt(x, y, n)  BY <1>3, <1>4, <1>6, <2>5 DEF LessAt
    <3> QED  BY <3>1, LessIs
  <2>6. CASE y[n + 1] < x[n + 1]
    <3>1. LessAt(y, x, n)  BY <1>3, <1>6, <2>4, <2>6 DEF LessAt
    <3> QED  BY <3>1, LessIs
  <2> QED  BY <2>2, <2>3, <2>5, <2>6
<1>7. CASE n = Len(x) /\ n < Len(y)
  <2>1. LessAt(x, y, n)  BY <1>3, <1>4, <1>7 DEF LessAt
  <2> QED  BY <2>1, LessIs
<1>8. CASE n = Len(y) /\ n < Len(x)
  <2>1. Agree(y, x, n)  BY <1>5 DEF Agree
  <2>2. LessAt(y, x, n)  BY <1>3, <1>8, <2>1 DEF LessAt
  <2> QED  BY <2>2, LessIs
<1>9. CASE n = Len(x) /\ n = Len(y)
  <2>1. x = y  BY <1>5, <1>9, SeqEqual
  <2> QED  BY <2>1
<1> QED  BY <1>3, <1>5, <1>6, <1>7, <1>8, <1>9

-----------------------------------------------------------------------------
(***************************************************************************)
(* Sorted byte strings.                                                    *)
(***************************************************************************)
(* s lists the elements of a set in their order.                           *)
Increasing(s, keys) ==
  /\ s \in [1 .. Cardinality(keys) -> keys]
  /\ \A i, j \in DOMAIN s : i < j => BytesLess(s[i], s[j])

(* A finite set of byte strings has a last one.                            *)
LEMMA LastExists ==
  ASSUME NEW S, IsFiniteSet(S), S \subseteq Seq(Bytes), S # {}
  PROVE  \E x \in S : \A y \in S \ {x} : BytesLess(y, x)
<1>0. IsFiniteSet(S)  OBVIOUS
<1> DEFINE G == {T \in SUBSET S : T # {} => \E x \in T : \A y \in T \ {x} : BytesLess(y, x)}
<1>1. {} \in G  OBVIOUS
<1>2. ASSUME NEW T \in SUBSET S, NEW x \in S, T \in G, x \notin T  PROVE T \cup {x} \in G
  <2>1. CASE T = {}  BY <2>1
  <2>2. CASE T # {}
    <3>1. PICK u \in T : \A y \in T \ {u} : BytesLess(y, u)  BY <1>2, <2>2
    <3>2. x \in Seq(Bytes) /\ u \in Seq(Bytes) /\ x # u /\ T \subseteq Seq(Bytes)  BY <1>2
    <3>3. CASE BytesLess(x, u)
      <4>1. \A y \in (T \cup {x}) \ {u} : BytesLess(y, u)  BY <3>1, <3>3
      <4> QED  BY <4>1
    <3>4. CASE BytesLess(u, x)
      <4>1. ASSUME NEW y \in T  PROVE BytesLess(y, x)
        <5>1. CASE y = u  BY <3>4, <5>1
        <5>2. CASE y # u
          <6>1. BytesLess(y, u) /\ y \in Seq(Bytes)  BY <3>1, <3>2, <5>2
          <6> QED  BY <3>2, <3>4, <6>1, LessTransitive
        <5> QED  BY <5>1, <5>2
      <4>2. \A y \in (T \cup {x}) \ {x} : BytesLess(y, x)  BY <4>1
      <4> QED  BY <4>2
    <3> QED  BY <3>2, <3>3, <3>4, LessTotal
  <2> QED  BY <2>1, <2>2
<1>3. S \in G
  <2> HIDE DEF G
  <2> QED  BY ONLY <1>0, <1>1, <1>2, SubsetInduction
<1> QED  BY <1>3

(* A finite set of byte strings can be listed in order.                    *)
LEMMA IncreasingExists ==
  ASSUME NEW S, IsFiniteSet(S), S \subseteq Seq(Bytes)
  PROVE  \E s : Increasing(s, S)
<1> DEFINE B == {T \in SUBSET S : ~\E s : Increasing(s, T)}
<1>0. IsFiniteSet(S)  OBVIOUS
<1>1. ASSUME B # {}  PROVE FALSE
  <2>1. B \in SUBSET (SUBSET S)  OBVIOUS
  <2>2. PICK T \in B : \A U \in B : U \subseteq T => U = T
    <3> HIDE DEF B
    <3> QED  BY ONLY <1>0, <1>1, <2>1, MinimalSubset
  <2>3. T \subseteq Seq(Bytes) /\ IsFiniteSet(T) /\ ~\E s : Increasing(s, T)  BY <2>2, FS_Subset
  <2>4. CASE T = {}
    <3>1. Cardinality(T) = 0  BY <2>4, FS_EmptySet
    <3>2. Increasing([i \in 1 .. Cardinality(T) |-> i], T)  BY <3>1 DEF Increasing
    <3> QED  BY <2>3, <3>2
  <2>5. CASE T # {}
    <3>1. PICK x \in T : \A y \in T \ {x} : BytesLess(y, x)  BY <2>3, <2>5, LastExists
    <3> DEFINE U == T \ {x}
               n == Cardinality(U)
    <3>2. U \notin B /\ U \subseteq S  BY <2>2, <3>1
    <3>3. PICK s : Increasing(s, U)  BY <3>2
    <3>4. n \in Nat /\ Cardinality(T) = n + 1
      <4>1. IsFiniteSet(U) /\ Cardinality(U) = Cardinality(T) - 1 /\ Cardinality(T) \in Nat
        BY <2>3, <3>1, FS_RemoveElement, FS_CardinalityType
      <4>2. Cardinality(U) \in Nat  BY <4>1, FS_CardinalityType
      <4> QED  BY <4>1, <4>2
    <3> HIDE DEF n
    <3>5. s \in [1 .. n -> U] /\ \A i, j \in 1 .. n : i < j => BytesLess(s[i], s[j])
      BY <3>3 DEF Increasing, n
    <3> DEFINE r == [i \in 1 .. n + 1 |-> IF i = n + 1 THEN x ELSE s[i]]
    <3>6. ASSUME NEW i \in 1 .. n + 1  PROVE i = n + 1 \/ i \in 1 .. n  BY <3>4
    <3>7. r \in [1 .. n + 1 -> T]
      <4>1. ASSUME NEW i \in 1 .. n + 1  PROVE r[i] \in T  BY <3>1, <3>5, <3>6
      <4> QED  BY <4>1
    <3>8. ASSUME NEW i \in 1 .. n + 1, NEW j \in 1 .. n + 1, i < j  PROVE BytesLess(r[i], r[j])
      <4>1. i \in 1 .. n /\ r[i] = s[i] /\ s[i] \in U  BY <3>4, <3>5, <3>8
      <4>2. CASE j = n + 1  BY <3>1, <4>1, <4>2
      <4>3. CASE j \in 1 .. n
        <5>1. r[j] = s[j]  BY <3>4, <4>3
        <5> QED  BY <3>5, <3>8, <4>1, <4>3, <5>1
      <4> QED  BY <3>6, <4>2, <4>3
    <3>9. Increasing(r, T)
      <4> HIDE DEF r
      <4> QED  BY <3>4, <3>7, <3>8 DEF Increasing
    <3> QED  BY <2>3, <3>9
  <2> QED  BY <2>4, <2>5
<1>2. S \notin B  BY <1>1
<1> QED  BY <1>2

(* Sorted lists a finite set of byte strings: each once, and in order.     *)
LEMMA SortedLists ==
  ASSUME NEW S, IsFiniteSet(S), S \subseteq Seq(Bytes)
  PROVE  /\ Sorted(S) \in Seq(S) /\ Len(Sorted(S)) = Cardinality(S)
         /\ Cardinality(S) \in Nat
         /\ \A x \in S : \E i \in 1 .. Cardinality(S) : Sorted(S)[i] = x
         /\ \A i, j \in 1 .. Cardinality(S) : i < j => BytesLess(Sorted(S)[i], Sorted(S)[j])
         /\ \A i, j \in 1 .. Cardinality(S) : Sorted(S)[i] = Sorted(S)[j] => i = j
<1> DEFINE q == Sorted(S)
           n == Cardinality(S)
<1>0. n \in Nat  BY FS_CardinalityType
<1>1. \E s \in [1 .. n -> S] : \A i, j \in DOMAIN s : i < j => BytesLess(s[i], s[j])
  BY IncreasingExists DEF Increasing
<1>2. q \in [1 .. n -> S] /\ \A i, j \in DOMAIN q : i < j => BytesLess(q[i], q[j])
  BY <1>1 DEF Sorted
<1> HIDE DEF q
<1>3. ASSUME NEW i \in 1 .. n, NEW j \in 1 .. n, q[i] = q[j]  PROVE i = j
  <2>1. q[i] \in Seq(Bytes) /\ q[j] \in Seq(Bytes)  BY <1>2
  <2>2. ~BytesLess(q[i], q[j]) /\ ~BytesLess(q[j], q[i])  BY <1>3, <2>1, LessIrreflexive
  <2>3. ~(i < j) /\ ~(j < i)  BY <1>2, <2>2
  <2> QED  BY <2>3, <1>0
<1>4. q \in Injection(1 .. n, S)  BY <1>2, <1>3 DEF Injection, IsInjective
<1>5. Cardinality(1 .. n) = n  BY <1>0, FS_Interval
<1>6. q \in Surjection(1 .. n, S)
  <2> HIDE DEF n
  <2>1. Cardinality(1 .. n) = Cardinality(S)  BY <1>5 DEF n
  <2> QED  BY <1>4, <2>1, FS_Injection
<1>7. \A x \in S : \E i \in 1 .. n : q[i] = x  BY <1>6 DEF Surjection
<1>8. q \in Seq(S) /\ Len(q) = n  BY <1>0, <1>2
<1> QED  BY <1>0, <1>2, <1>3, <1>7, <1>8 DEF q

-----------------------------------------------------------------------------
(***************************************************************************)
(* The cells of a table: for every key no value or one.                    *)
(***************************************************************************)
CellMaps(t) == [Keys[t] -> {{}} \cup {{v} : v \in StoredValues(t)}]
ViewOf(c) == [k \in {x \in DOMAIN c : c[x] # {}} |-> CHOOSE v : v \in c[k]]
Updated(f, x, y) == [f EXCEPT ![x] = y]
PairsOf(c) == UNION {{<<k, v>> : v \in c[k]} : k \in DOMAIN c}

(* A cell has no value or one.                                             *)
LEMMA CellCases ==
  ASSUME NEW t, NEW c \in CellMaps(t), NEW k \in Keys[t]
  PROVE  \/ c[k] = {} /\ k \notin DOMAIN ViewOf(c)
         \/ \E v \in StoredValues(t) : c[k] = {v} /\ k \in DOMAIN ViewOf(c) /\ ViewOf(c)[k] = v
<1>1. DOMAIN c = Keys[t] /\ c[k] \in {{}} \cup {{v} : v \in StoredValues(t)}  BY DEF CellMaps
<1>2. CASE c[k] = {}  BY <1>1, <1>2 DEF ViewOf
<1>3. ASSUME NEW v \in StoredValues(t), c[k] = {v}
      PROVE  k \in DOMAIN ViewOf(c) /\ ViewOf(c)[k] = v
  <2>1. c[k] # {} /\ (CHOOSE w : w \in c[k]) = v  BY <1>3
  <2> QED  BY <1>1, <2>1 DEF ViewOf
<1> QED  BY <1>1, <1>2, <1>3

(* The rows of the cells are a map of keys to values.                      *)
LEMMA ViewType ==
  ASSUME NEW t, NEW c \in CellMaps(t)
  PROVE  /\ DOMAIN ViewOf(c) \subseteq Keys[t]
         /\ \A k \in DOMAIN ViewOf(c) : ViewOf(c)[k] \in StoredValues(t)
         /\ ViewOf(c) = [k \in DOMAIN ViewOf(c) |-> ViewOf(c)[k]]
<1>1. DOMAIN ViewOf(c) \subseteq Keys[t]  BY DEF ViewOf, CellMaps
<1>2. ASSUME NEW k \in DOMAIN ViewOf(c)  PROVE ViewOf(c)[k] \in StoredValues(t)
  BY <1>1, CellCases
<1>3. ViewOf(c) = [k \in DOMAIN ViewOf(c) |-> ViewOf(c)[k]]  BY DEF ViewOf
<1> QED  BY <1>1, <1>2, <1>3

(* The pairs of the cells are those of the map.                            *)
LEMMA PairsAreView ==
  ASSUME NEW t, NEW c \in CellMaps(t)
  PROVE  AsMap(PairsOf(c)) = ViewOf(c)
<1> DEFINE w == ViewOf(c)
           P == PairsOf(c)
<1>1. w = [k \in DOMAIN w |-> w[k]] /\ DOMAIN w \subseteq Keys[t] /\ DOMAIN c = Keys[t]
  BY ViewType DEF CellMaps
<1>2. \A p \in P : p = <<p[1], p[2]>> /\ p[1] \in DOMAIN w /\ p[2] = w[p[1]]
  <2> SUFFICES ASSUME NEW k \in Keys[t], NEW v \in c[k]
               PROVE  <<k, v>> = <<<<k, v>>[1], <<k, v>>[2]>> /\ k \in DOMAIN w /\ v = w[k]
    BY <1>1 DEF PairsOf
  <2> QED  BY CellCases
<1>3. \A k \in DOMAIN w : <<k, w[k]>> \in P
  <2> SUFFICES ASSUME NEW k \in DOMAIN w  PROVE <<k, w[k]>> \in P  OBVIOUS
  <2>1. k \in Keys[t] /\ k \in DOMAIN c /\ w[k] \in c[k]  BY <1>1, CellCases
  <2> QED  BY <2>1 DEF PairsOf
<1> HIDE DEF w, P
<1>4. {p[1] : p \in P} = DOMAIN w  BY <1>2, <1>3
<1>5. ASSUME NEW k \in DOMAIN w  PROVE (CHOOSE p \in P : p[1] = k)[2] = w[k]
  <2>1. \E p \in P : p[1] = k  BY <1>3
  <2>2. (CHOOSE p \in P : p[1] = k) \in P /\ (CHOOSE p \in P : p[1] = k)[1] = k  BY <2>1
  <2> QED  BY <1>2, <2>2
<1>6. AsMap(P) = [k \in DOMAIN w |-> w[k]]  BY <1>4, <1>5 DEF AsMap
<1> QED  BY <1>1, <1>6 DEF w, P

(* One more value.                                                         *)
LEMMA ViewStored ==
  ASSUME NEW t, NEW c \in CellMaps(t), NEW k \in Keys[t], NEW v \in StoredValues(t)
  PROVE  /\ Updated(c, k, {v}) \in CellMaps(t)
         /\ ViewOf(Updated(c, k, {v})) = Stored(ViewOf(c), k, v)
<1> DEFINE d == Updated(c, k, {v})
<1>1. d \in CellMaps(t) /\ DOMAIN c = Keys[t] /\ DOMAIN d = Keys[t]  BY DEF CellMaps, Updated
<1>2. d[k] = {v} /\ \A x \in Keys[t] \ {k} : d[x] = c[x]  BY <1>1 DEF Updated
<1> HIDE DEF d
<1>3. {x \in Keys[t] : d[x] # {}} = {x \in Keys[t] : c[x] # {}} \cup {k}  BY <1>2
<1>4. ASSUME NEW x \in {y \in Keys[t] : d[y] # {}}
      PROVE  (CHOOSE w : w \in d[x]) = IF x = k THEN v ELSE ViewOf(c)[x]
  <2>1. CASE x = k  BY <1>2, <2>1
  <2>2. CASE x # k  BY <1>1, <1>2, <2>2 DEF ViewOf
  <2> QED  BY <2>1, <2>2
<1>5. DOMAIN ViewOf(c) = {x \in Keys[t] : c[x] # {}}  BY <1>1 DEF ViewOf
<1>6. ViewOf(d) = [x \in {y \in Keys[t] : d[y] # {}} |-> CHOOSE w : w \in d[x]]  BY <1>1 DEF ViewOf
<1>7. ViewOf(d) = Stored(ViewOf(c), k, v)  BY <1>3, <1>4, <1>5, <1>6 DEF Stored
<1> QED  BY <1>1, <1>7 DEF d

(* One value less.                                                         *)
LEMMA ViewDropped ==
  ASSUME NEW t, NEW c \in CellMaps(t), NEW k \in Keys[t]
  PROVE  /\ Updated(c, k, {}) \in CellMaps(t)
         /\ ViewOf(Updated(c, k, {})) = Dropped(ViewOf(c), {k})
<1> DEFINE d == Updated(c, k, {})
<1>1. d \in CellMaps(t) /\ DOMAIN c = Keys[t] /\ DOMAIN d = Keys[t]  BY DEF CellMaps, Updated
<1>2. d[k] = {} /\ \A x \in Keys[t] \ {k} : d[x] = c[x]  BY <1>1 DEF Updated
<1> HIDE DEF d
<1>3. {x \in Keys[t] : d[x] # {}} = {x \in Keys[t] : c[x] # {}} \ {k}  BY <1>2
<1>4. ASSUME NEW x \in {y \in Keys[t] : d[y] # {}}
      PROVE  (CHOOSE w : w \in d[x]) = ViewOf(c)[x]
  BY <1>1, <1>2 DEF ViewOf
<1>5. DOMAIN ViewOf(c) = {x \in Keys[t] : c[x] # {}}  BY <1>1 DEF ViewOf
<1>6. ViewOf(d) = [x \in {y \in Keys[t] : d[y] # {}} |-> CHOOSE w : w \in d[x]]  BY <1>1 DEF ViewOf
<1>7. ViewOf(d) = Dropped(ViewOf(c), {k})  BY <1>3, <1>4, <1>5, <1>6 DEF Dropped
<1> QED  BY <1>1, <1>7 DEF d

(* No value at all.                                                        *)
NoCells(t) == [k \in Keys[t] |-> {}]
\* A table without cells has no rows.
LEMMA ViewEmpty ==
  ASSUME NEW t
  PROVE  NoCells(t) \in CellMaps(t) /\ ViewOf(NoCells(t)) = << >>
<1>1. NoCells(t) \in CellMaps(t)  BY DEF NoCells, CellMaps
<1>2. {x \in DOMAIN NoCells(t) : NoCells(t)[x] # {}} = {}  BY DEF NoCells
<1>3. ViewOf(NoCells(t)) = [k \in {} |-> CHOOSE v : v \in NoCells(t)[k]]  BY <1>2 DEF ViewOf
<1>4. << >> = [k \in {} |-> CHOOSE v : v \in NoCells(t)[k]]  OBVIOUS
<1> QED  BY <1>1, <1>3, <1>4

-----------------------------------------------------------------------------
(***************************************************************************)
(* Trees and column families.                                              *)
(***************************************************************************)
GoodTree(t, tree) ==
  /\ IsFiniteSet(DOMAIN tree)
  /\ tree = [b \in DOMAIN tree |-> tree[b]]
  /\ \A b \in DOMAIN tree : \E k \in Keys[t] : b = KeyBytes(t, k)
  /\ \A b \in DOMAIN tree : \E v \in StoredValues(t) : tree[b] = PackValue(v)

TreeCells(t, tree) == [k \in Keys[t] |-> SledGet(tree, KeyBytes(t, k))]

(* A value is the same after packing and unpacking.                        *)
LEMMA ValuePacked == \A v : UnpackValue(PackValue(v)) = v
BY DEF PackValue, UnpackValue

(* The keys of a table have bytes of their own.                            *)
LEMMA TableKeys ==
  ASSUME NEW t \in AllTables
  PROVE  /\ \A k \in Keys[t] : k \in KeySpace(t) /\ KeyBytes(t, k) \in Seq(Bytes) /\ Unpacked(t, KeyBytes(t, k)) = k
         /\ \A k, l \in Keys[t] : KeyBytes(t, k) = KeyBytes(t, l) => k = l
<1>1. \A k \in Keys[t] : k \in KeySpace(t)  BY BytesAssumption
<1> QED  BY <1>1, KeyPacked

(* A good tree has good cells.                                             *)
LEMMA TreeCellsGood ==
  ASSUME NEW t \in AllTables, NEW tree, GoodTree(t, tree)
  PROVE  TreeCells(t, tree) \in CellMaps(t)
<1>1. ASSUME NEW k \in Keys[t]
      PROVE  SledGet(tree, KeyBytes(t, k)) \in {{}} \cup {{v} : v \in StoredValues(t)}
  <2>1. CASE KeyBytes(t, k) \in DOMAIN tree
    <3>1. PICK v \in StoredValues(t) : tree[KeyBytes(t, k)] = PackValue(v)  BY <2>1 DEF GoodTree
    <3>2. SledGet(tree, KeyBytes(t, k)) = {v}  BY <2>1, <3>1, ValuePacked DEF SledGet
    <3> QED  BY <3>2
  <2>2. CASE KeyBytes(t, k) \notin DOMAIN tree  BY <2>2 DEF SledGet
  <2> QED  BY <2>1, <2>2
<1> QED  BY <1>1 DEF TreeCells, CellMaps

(* An insertion into a tree changes one cell.                              *)
LEMMA TreeStored ==
  ASSUME NEW t \in AllTables, NEW tree, GoodTree(t, tree), NEW k \in Keys[t], NEW v \in StoredValues(t)
  PROVE  /\ GoodTree(t, Stored(tree, KeyBytes(t, k), PackValue(v)))
         /\ TreeCells(t, Stored(tree, KeyBytes(t, k), PackValue(v))) = Updated(TreeCells(t, tree), k, {v})
<1> DEFINE b == KeyBytes(t, k)
           new == Stored(tree, b, PackValue(v))
<1>1. DOMAIN new = DOMAIN tree \cup {b} /\ new[b] = PackValue(v) /\ new = [x \in DOMAIN new |-> new[x]]
      /\ \A x \in DOMAIN tree \ {b} : new[x] = tree[x]
  BY DEF Stored
<1> HIDE DEF new
<1>2. GoodTree(t, new)
  <2>1. IsFiniteSet(DOMAIN new)  BY <1>1, FS_AddElement DEF GoodTree
  <2>2. \A x \in DOMAIN new : \E l \in Keys[t] : x = KeyBytes(t, l)  BY <1>1 DEF GoodTree
  <2>3. \A x \in DOMAIN new : \E w \in StoredValues(t) : new[x] = PackValue(w)  BY <1>1 DEF GoodTree
  <2> QED  BY <1>1, <2>1, <2>2, <2>3 DEF GoodTree
<1>3. ASSUME NEW l \in Keys[t]
      PROVE  SledGet(new, KeyBytes(t, l)) = IF l = k THEN {v} ELSE SledGet(tree, KeyBytes(t, l))
  <2>1. CASE l = k  BY <1>1, <2>1, ValuePacked DEF SledGet
  <2>2. CASE l # k
    <3>1. KeyBytes(t, l) # b  BY <2>2, TableKeys
    <3> QED  BY <1>1, <2>2, <3>1 DEF SledGet
  <2> QED  BY <2>1, <2>2
<1>4. TreeCells(t, new) = Updated(TreeCells(t, tree), k, {v})  BY <1>3 DEF TreeCells, Updated
<1> QED  BY <1>2, <1>4 DEF new

(* A deletion from a tree empties one cell.                                *)
LEMMA TreeDropped ==
  ASSUME NEW t \in AllTables, NEW tree, GoodTree(t, tree), NEW k \in Keys[t]
  PROVE  /\ GoodTree(t, Dropped(tree, {KeyBytes(t, k)}))
         /\ TreeCells(t, Dropped(tree, {KeyBytes(t, k)})) = Updated(TreeCells(t, tree), k, {})
<1> DEFINE b == KeyBytes(t, k)
           new == Dropped(tree, {b})
<1>1. DOMAIN new = DOMAIN tree \ {b} /\ new = [x \in DOMAIN new |-> new[x]]
      /\ \A x \in DOMAIN tree \ {b} : new[x] = tree[x]
  BY DEF Dropped
<1> HIDE DEF new
<1>2. GoodTree(t, new)
  <2>1. IsFiniteSet(DOMAIN new)  BY <1>1, FS_RemoveElement DEF GoodTree
  <2>2. \A x \in DOMAIN new : \E l \in Keys[t] : x = KeyBytes(t, l)  BY <1>1 DEF GoodTree
  <2>3. \A x \in DOMAIN new : \E w \in StoredValues(t) : new[x] = PackValue(w)  BY <1>1 DEF GoodTree
  <2> QED  BY <1>1, <2>1, <2>2, <2>3 DEF GoodTree
<1>3. ASSUME NEW l \in Keys[t]
      PROVE  SledGet(new, KeyBytes(t, l)) = IF l = k THEN {} ELSE SledGet(tree, KeyBytes(t, l))
  <2>1. CASE l = k  BY <1>1, <2>1 DEF SledGet
  <2>2. CASE l # k
    <3>1. KeyBytes(t, l) # b  BY <2>2, TableKeys
    <3> QED  BY <1>1, <2>2, <3>1 DEF SledGet
  <2> QED  BY <2>1, <2>2
<1>4. TreeCells(t, new) = Updated(TreeCells(t, tree), k, {})  BY <1>3 DEF TreeCells, Updated
<1> QED  BY <1>2, <1>4 DEF new

(* A tree without keys is good and has no value.                           *)
LEMMA TreeEmpty ==
  ASSUME NEW t \in AllTables, NEW tree, tree = [b \in DOMAIN tree |-> tree[b]], DOMAIN tree = {}
  PROVE  GoodTree(t, tree) /\ TreeCells(t, tree) = NoCells(t)
<1>1. GoodTree(t, tree)  BY FS_EmptySet DEF GoodTree
<1>2. TreeCells(t, tree) = NoCells(t)  BY DEF TreeCells, NoCells, SledGet
<1> QED  BY <1>1, <1>2

(* The empty sequence is the function without arguments.                   *)
LEMMA NoKeys == << >> = [b \in DOMAIN << >> |-> << >>[b]] /\ DOMAIN << >> = {}
OBVIOUS

(* A good tree has finitely many keys, all of them byte strings.           *)
LEMMA TreeSorted ==
  ASSUME NEW t \in AllTables, NEW tree, GoodTree(t, tree), NEW S \in SUBSET DOMAIN tree
  PROVE  /\ IsFiniteSet(S) /\ S \subseteq Seq(Bytes) /\ Sorted(S) \in Seq(S)
         /\ DOMAIN Sorted(S) = 1 .. Cardinality(S) /\ ToSet(Sorted(S)) = S
<1>1. IsFiniteSet(S)  BY FS_Subset DEF GoodTree
<1>2. S \subseteq Seq(Bytes)  BY TableKeys DEF GoodTree
<1> DEFINE q == Sorted(S)
           n == Cardinality(S)
<1>3. q \in Seq(S) /\ Len(q) = n /\ n \in Nat /\ \A x \in S : \E i \in 1 .. n : q[i] = x
  BY <1>1, <1>2, SortedLists
<1> HIDE DEF q, n
<1>4. DOMAIN q = 1 .. n  BY <1>3
<1>5. ToSet(q) = S  BY <1>3, <1>4 DEF ToSet
<1> QED  BY <1>1, <1>2, <1>3, <1>4, <1>5 DEF q, n

(* What the iterator of a tree lists are the values of its cells.          *)
LEMMA TreeListed ==
  ASSUME NEW t \in AllTables, NEW tree, GoodTree(t, tree)
  PROVE  ToSet([i \in DOMAIN Sorted(DOMAIN tree) |->
                  <<Unpacked(t, Sorted(DOMAIN tree)[i]), UnpackValue(tree[Sorted(DOMAIN tree)[i]])>>])
           = PairsOf(TreeCells(t, tree))
<1> DEFINE q == Sorted(DOMAIN tree)
           R == ToSet([i \in DOMAIN q |-> <<Unpacked(t, q[i]), UnpackValue(tree[q[i]])>>])
<1>1. ToSet(q) = DOMAIN tree  BY TreeSorted
<1>2. R = {<<Unpacked(t, b), UnpackValue(tree[b])>> : b \in ToSet(q)}
  <2> HIDE DEF q
  <2> QED  BY DEF ToSet
<1> HIDE DEF q, R
<1>3. ASSUME NEW b \in DOMAIN tree  PROVE <<Unpacked(t, b), UnpackValue(tree[b])>> \in PairsOf(TreeCells(t, tree))
  <2>1. PICK k \in Keys[t] : b = KeyBytes(t, k)  BY DEF GoodTree
  <2>2. Unpacked(t, b) = k  BY <2>1, TableKeys
  <2>3. TreeCells(t, tree)[k] = {UnpackValue(tree[b])} /\ k \in DOMAIN TreeCells(t, tree)
    BY <2>1 DEF TreeCells, SledGet
  <2> QED  BY <2>2, <2>3 DEF PairsOf
<1>4. ASSUME NEW k \in Keys[t], NEW v \in TreeCells(t, tree)[k]
      PROVE  \E b \in DOMAIN tree : <<k, v>> = <<Unpacked(t, b), UnpackValue(tree[b])>>
  <2>1. KeyBytes(t, k) \in DOMAIN tree /\ v = UnpackValue(tree[KeyBytes(t, k)])
    BY <1>4 DEF TreeCells, SledGet
  <2>2. Unpacked(t, KeyBytes(t, k)) = k  BY TableKeys
  <2> QED  BY <2>1, <2>2
<1>5. PairsOf(TreeCells(t, tree)) = UNION {{<<k, v>> : v \in TreeCells(t, tree)[k]} : k \in Keys[t]}
  BY DEF PairsOf, TreeCells
<1>6. R = PairsOf(TreeCells(t, tree))
  <2>1. R \subseteq PairsOf(TreeCells(t, tree))  BY <1>1, <1>2, <1>3
  <2>2. PairsOf(TreeCells(t, tree)) \subseteq R
    <3> HIDE DEF PairsOf
    <3>1. \A p \in PairsOf(TreeCells(t, tree)) : \E k \in Keys[t] : \E v \in TreeCells(t, tree)[k] : p = <<k, v>>
      BY <1>5
    <3> QED  BY <1>1, <1>2, <1>4, <3>1
  <2> QED  BY <2>1, <2>2
<1> QED  BY <1>6 DEF R, q

(* The same of the iterators of sled and of RocksDB.                       *)
LEMMA SledListed ==
  ASSUME NEW t \in AllTables, NEW trees, GoodTree(t, trees[t])
  PROVE  ToSet(SledIter(trees, t, IdLength)) = PairsOf(TreeCells(t, trees[t]))
<1>1. SledIter(trees, t, IdLength) =
        [i \in DOMAIN Sorted(DOMAIN trees[t]) |->
           <<Unpacked(t, Sorted(DOMAIN trees[t])[i]), UnpackValue(trees[t][Sorted(DOMAIN trees[t])[i]])>>]
  BY DEF SledIter, Unpacked
<1> QED  BY <1>1, TreeListed

\* The iterator of RocksDB lists the pairs of a tree.
LEMMA RocksdbListed ==
  ASSUME NEW t \in AllTables, NEW trees, GoodTree(t, trees[t])
  PROVE  ToSet(RocksdbIter(trees, t, IdLength)) = PairsOf(TreeCells(t, trees[t]))
<1>0. ASSUME NEW b  PROVE
        /\ RocksdbUnpackMessages(t, b, IdLength) = SledUnpackMessages(t, b, IdLength)
        /\ RocksdbUnpackOutputs(t, b, IdLength) = SledUnpackOutputs(t, b, IdLength)
        /\ RocksdbUnpackMilestones(t, b) = SledUnpackMilestones(t, b)
        /\ RocksdbUnpackTreasury(t, b) = SledUnpackTreasury(t, b)
  BY DEF RocksdbUnpackMessages, SledUnpackMessages, RocksdbUnpackOutputs, SledUnpackOutputs,
         RocksdbUnpackMilestones, SledUnpackMilestones, RocksdbUnpackTreasury, SledUnpackTreasury
<1>1. RocksdbIter(trees, t, IdLength) =
        [i \in DOMAIN Sorted(DOMAIN trees[t]) |->
           <<Unpacked(t, Sorted(DOMAIN trees[t])[i]), UnpackValue(trees[t][Sorted(DOMAIN trees[t])[i]])>>]
  <2>1. \A b : Unpacked(t, b) = CASE t \in MessageTables -> RocksdbUnpackMessages(t, b, IdLength)
                                 [] t \in OutputTables -> RocksdbUnpackOutputs(t, b, IdLength)
                                 [] t \in MilestoneTables -> RocksdbUnpackMilestones(t, b)
                                 [] t \in TreasuryTables -> RocksdbUnpackTreasury(t, b)
    BY <1>0, Zenon DEF Unpacked
  <2> DEFINE q == Sorted(DOMAIN trees[t])
             C(b) == CASE t \in MessageTables -> RocksdbUnpackMessages(t, b, IdLength)
                       [] t \in OutputTables -> RocksdbUnpackOutputs(t, b, IdLength)
                       [] t \in MilestoneTables -> RocksdbUnpackMilestones(t, b)
                       [] t \in TreasuryTables -> RocksdbUnpackTreasury(t, b)
  <2>2. RocksdbIter(trees, t, IdLength) = [i \in DOMAIN q |-> <<C(q[i]), UnpackValue(trees[t][q[i]])>>]
    BY DEF RocksdbIter
  <2>3. \A b : Unpacked(t, b) = C(b)  BY <2>1
  <2> HIDE DEF C, q
  <2>4. RocksdbIter(trees, t, IdLength) = [i \in DOMAIN q |-> <<Unpacked(t, q[i]), UnpackValue(trees[t][q[i]])>>]
    BY <2>2, <2>3
  <2> QED  BY <2>4 DEF q
<1> QED  BY <1>1, TreeListed

(* A truncated column family is empty: every key lies between the first    *)
(* one and the bound behind the last one.                                  *)
LEMMA FamilyTruncated ==
  ASSUME NEW t \in AllTables, NEW families, families = [x \in DOMAIN families |-> families[x]],
         t \in DOMAIN families, GoodTree(t, families[t])
  PROVE  \E tree : /\ RocksdbTruncate(families, t) = Updated(families, t, tree)
                   /\ GoodTree(t, tree) /\ TreeCells(t, tree) = NoCells(t)
<1> DEFINE tree == families[t]
           S == DOMAIN tree
           q == Sorted(S)
           n == Cardinality(S)
           bound == Append(Last(q), MaxByte)
<1>1. IsFiniteSet(S) /\ S \subseteq Seq(Bytes)  BY TreeSorted
<1>2. /\ q \in Seq(S) /\ Len(q) = n /\ n \in Nat
      /\ \A x \in S : \E i \in 1 .. n : q[i] = x
      /\ \A i, j \in 1 .. n : i < j => BytesLess(q[i], q[j])
  BY <1>1, SortedLists
<1> HIDE DEF q, n, S
<1>3. CASE q = << >>
  <2>1. n = 0  BY <1>2, <1>3
  <2>2. S = {}  BY <1>2, <2>1
  <2>3. RocksdbTruncate(families, t) = families  BY <1>3 DEF RocksdbTruncate, q, S
  <2>4. families = Updated(families, t, tree)  BY DEF Updated
  <2>5. GoodTree(t, tree) /\ TreeCells(t, tree) = NoCells(t)  BY <2>2, TreeEmpty DEF S, GoodTree
  <2> QED  BY <2>3, <2>4, <2>5
<1>4. CASE q # << >>
  <2>1. n > 0 /\ 1 \in 1 .. n /\ n \in 1 .. n  BY <1>2, <1>4
  <2>2. Head(q) = q[1] /\ Last(q) = q[n]  BY <1>2, <1>4 DEF Last
  <2>3. q[1] \in Seq(Bytes) /\ q[n] \in Seq(Bytes)  BY <1>1, <1>2, <2>1
  <2>4. MaxByte \in Bytes  BY BytesAssumption DEF Bytes
  <2>5. bound \in Seq(Bytes)  BY <2>2, <2>3, <2>4
  <2>6. BytesLess(q[n], bound)
    <3> DEFINE x == q[n]
               y == Append(x, MaxByte)
    <3>1. Len(y) = Len(x) + 1 /\ \A i \in 1 .. Len(x) : y[i] = x[i]  BY <2>3
    <3>2. Agree(x, y, Len(x)) /\ Len(x) \in Nat /\ Len(x) < Len(y)  BY <2>3, <3>1 DEF Agree
    <3>3. LessAt(x, y, Len(x))  BY <3>2 DEF LessAt
    <3>4. y \in Seq(Bytes)  BY <2>3, <2>4
    <3>5. BytesLess(x, y)  BY <2>3, <3>3, <3>4, LessIs
    <3> QED  BY <2>2, <3>5
  <2> HIDE DEF bound
  <2>7. ASSUME NEW b \in S  PROVE ~BytesLess(b, Head(q)) /\ BytesLess(b, bound)
    <3>1. PICK i \in 1 .. n : q[i] = b  BY <1>2
    <3>2. b \in Seq(Bytes)  BY <1>1
    <3>3. ~BytesLess(b, q[1])
      <4>1. CASE i = 1  BY <2>3, <3>1, <4>1, LessIrreflexive
      <4>2. CASE i # 1
        <5>1. BytesLess(q[1], b)  BY <1>2, <2>1, <3>1, <4>2
        <5>2. ASSUME BytesLess(b, q[1])  PROVE FALSE
          <6>1. BytesLess(b, b)  BY <2>3, <3>2, <5>1, <5>2, LessTransitive
          <6> QED  BY <3>2, <6>1, LessIrreflexive
        <5> QED  BY <5>2
      <4> QED  BY <4>1, <4>2
    <3>4. BytesLess(b, bound)
      <4>1. CASE i = n  BY <2>6, <3>1, <4>1
      <4>2. CASE i # n
        <5>1. BytesLess(b, q[n])  BY <1>2, <2>1, <3>1, <4>2
        <5> QED  BY <2>3, <2>5, <2>6, <3>2, <5>1, LessTransitive
      <4> QED  BY <4>1, <4>2
    <3> QED  BY <2>2, <3>3, <3>4
  <2> DEFINE gone == {b \in S : ~BytesLess(b, Head(q)) /\ BytesLess(b, bound)}
             new == Dropped(tree, gone)
  <2>8. gone = S  BY <2>7
  <2>9. RocksdbTruncate(families, t) = Updated(families, t, new)
    BY <1>4 DEF Updated, RocksdbTruncate, DeleteRange, Erase, q, S, bound
  <2> HIDE DEF gone
  <2>10. DOMAIN new = {} /\ new = [b \in DOMAIN new |-> new[b]]  BY <2>8 DEF Dropped, S
  <2> HIDE DEF new
  <2>11. GoodTree(t, new) /\ TreeCells(t, new) = NoCells(t)  BY <2>10, TreeEmpty
  <2> QED  BY <2>9, <2>11
<1> QED  BY <1>3, <1>4

-----------------------------------------------------------------------------
(***************************************************************************)
(* Lists without duplicates.                                               *)
(***************************************************************************)
GoodList(s, R) == s \in Seq(R) /\ \A i, j \in 1 .. Len(s) : s[i] = s[j] => i = j

(* An element at the end.                                                  *)
LEMMA ListAppended ==
  ASSUME NEW R, NEW s, GoodList(s, R), NEW x \in R, ~Contains(s, x)
  PROVE  GoodList(Append(s, x), R) /\ \A y : Contains(Append(s, x), y) <=> y = x \/ Contains(s, y)
<1> DEFINE r == Append(s, x)
<1>0. s \in Seq(R) /\ \A i, j \in 1 .. Len(s) : s[i] = s[j] => i = j  BY DEF GoodList
<1>1. r \in Seq(R) /\ Len(r) = Len(s) + 1 /\ r[Len(s) + 1] = x /\ \A i \in 1 .. Len(s) : r[i] = s[i]
      /\ Len(s) \in Nat
  BY <1>0
<1> HIDE DEF r
<1>2. \A i \in 1 .. Len(r) : i = Len(s) + 1 \/ i \in 1 .. Len(s)  BY <1>1
<1>3. \A i \in 1 .. Len(s) : s[i] # x  BY DEF Contains
<1>4. ASSUME NEW i \in 1 .. Len(r), NEW j \in 1 .. Len(r), r[i] = r[j]  PROVE i = j
  BY <1>0, <1>1, <1>2, <1>3, <1>4
<1>5. ASSUME NEW y  PROVE Contains(r, y) <=> y = x \/ Contains(s, y)
  <2>1. ASSUME Contains(r, y)  PROVE y = x \/ Contains(s, y)  BY <1>1, <1>2, <2>1 DEF Contains
  <2>2. ASSUME Contains(s, y)  PROVE Contains(r, y)  BY <1>1, <2>2 DEF Contains
  <2>3. Contains(r, x)  BY <1>1 DEF Contains
  <2> QED  BY <2>1, <2>2, <2>3
<1> QED  BY <1>1, <1>4, <1>5 DEF GoodList, r

(* An element at a place in the list.                                      *)
LEMMA ListInserted ==
  ASSUME NEW R, NEW s, GoodList(s, R), NEW x \in R, ~Contains(s, x), NEW n \in 1 .. Len(s) + 1
  PROVE  GoodList(InsertAt(s, n, x), R) /\ \A y : Contains(InsertAt(s, n, x), y) <=> y = x \/ Contains(s, y)
<1> DEFINE l == SubSeq(s, 1, n - 1)
           m == <<x>>
           u == SubSeq(s, n, Len(s))
           r == InsertAt(s, n, x)
<1>0. s \in Seq(R) /\ Len(s) \in Nat /\ \A i, j \in 1 .. Len(s) : s[i] = s[j] => i = j  BY DEF GoodList
<1>1. l \in Seq(R) /\ Len(l) = n - 1 /\ \A i \in 1 .. n - 1 : l[i] = s[i]  BY <1>0
<1>2. u \in Seq(R) /\ Len(u) = Len(s) - n + 1 /\ \A i \in 1 .. Len(s) - n + 1 : u[i] = s[n + i - 1]  BY <1>0
<1>3. m \in Seq(R) /\ Len(m) = 1 /\ m[1] = x  OBVIOUS
<1>4. r = (l \o m) \o u  BY DEF InsertAt
<1> HIDE DEF l, m, u, r
<1>5. /\ l \o m \in Seq(R) /\ Len(l \o m) = n /\ (l \o m)[n] = x
      /\ \A i \in 1 .. n - 1 : (l \o m)[i] = s[i]
  <2>1. /\ l \o m \in Seq(R) /\ Len(l \o m) = Len(l) + Len(m)
        /\ \A i \in 1 .. Len(l) + Len(m) : (l \o m)[i] = IF i <= Len(l) THEN l[i] ELSE m[i - Len(l)]
    BY <1>1, <1>3, ConcatProperties
  <2>2. Len(l) + Len(m) = n /\ n - Len(l) = 1 /\ ~(n <= Len(l)) /\ n \in 1 .. n  BY <1>1, <1>3
  <2>3. (l \o m)[n] = x  BY <1>3, <2>1, <2>2
  <2>4. \A i \in 1 .. n - 1 : (l \o m)[i] = s[i]  BY <1>1, <2>1, <2>2
  <2> QED  BY <2>1, <2>2, <2>3, <2>4
<1> DEFINE p == l \o m
<1> HIDE DEF p
<1>6. /\ r \in Seq(R) /\ Len(r) = Len(s) + 1
      /\ \A i \in 1 .. Len(s) + 1 : r[i] = IF i <= n THEN p[i] ELSE u[i - n]
  <2>1. r = p \o u /\ p \in Seq(R) /\ Len(p) = n  BY <1>4, <1>5 DEF p
  <2> QED  BY <1>0, <1>2, <2>1
<1>7. r[n] = x /\ \A i \in 1 .. n - 1 : r[i] = s[i]
  <2>1. p[n] = x /\ \A i \in 1 .. n - 1 : p[i] = s[i]  BY <1>5 DEF p
  <2>2. r[n] = p[n]  BY <1>0, <1>6
  <2>3. \A i \in 1 .. n - 1 : r[i] = p[i]  BY <1>0, <1>6
  <2> QED  BY <2>1, <2>2, <2>3
<1>8. \A i \in n + 1 .. Len(s) + 1 : r[i] = s[i - 1]
  <2> TAKE i \in n + 1 .. Len(s) + 1
  <2>1. r[i] = u[i - n]  BY <1>0, <1>6
  <2>2. i - n \in 1 .. Len(s) - n + 1 /\ n + (i - n) - 1 = i - 1  BY <1>0
  <2> QED  BY <1>2, <2>1, <2>2
<1>9. \A i \in 1 .. Len(s) : s[i] # x  BY DEF Contains
<1>10. ASSUME NEW i \in 1 .. Len(r), NEW j \in 1 .. Len(r), r[i] = r[j]  PROVE i = j
  <2>1. \A h \in 1 .. Len(r) : \/ h = n /\ r[h] = x
                               \/ h < n /\ h \in 1 .. Len(s) /\ r[h] = s[h]
                               \/ h > n /\ h - 1 \in 1 .. Len(s) /\ r[h] = s[h - 1]
    <3> TAKE h \in 1 .. Len(r)
    <3>1. Len(r) = Len(s) + 1 /\ Len(s) \in Nat  BY <1>0, <1>6
    <3>2. CASE h = n  BY <1>7, <3>2
    <3>3. CASE h < n
      <4>1. h \in 1 .. n - 1 /\ h \in 1 .. Len(s)  BY <1>0, <3>1, <3>3
      <4> QED  BY <1>7, <3>3, <4>1
    <3>4. CASE h > n
      <4>1. h \in n + 1 .. Len(s) + 1 /\ h - 1 \in 1 .. Len(s)  BY <1>0, <3>1, <3>4
      <4> QED  BY <1>8, <3>4, <4>1
    <3> QED  BY <1>0, <3>2, <3>3, <3>4
  <2>2. i \in Int /\ j \in Int  BY <1>6
  <2>3. CASE i = n \/ j = n  BY <1>7, <1>9, <1>10, <2>1, <2>3
  <2>4. CASE i # n /\ j # n
    <3> DEFINE g(h) == IF h < n THEN h ELSE h - 1
    <3>1. g(i) \in 1 .. Len(s) /\ g(j) \in 1 .. Len(s) /\ r[i] = s[g(i)] /\ r[j] = s[g(j)]
      BY <2>1, <2>2, <2>4
    <3>2. g(i) = g(j)
      <4> HIDE DEF g
      <4> QED  BY <1>0, <1>10, <3>1
    <3> QED  BY <2>2, <2>4, <3>2
  <2> QED  BY <2>3, <2>4
<1>11. ASSUME NEW y  PROVE Contains(r, y) <=> y = x \/ Contains(s, y)
  <2>1. ASSUME Contains(r, y)  PROVE y = x \/ Contains(s, y)
    <3>1. PICK h \in 1 .. Len(r) : r[h] = y  BY <2>1 DEF Contains
    <3>2. CASE h = n  BY <1>7, <3>1, <3>2
    <3>3. CASE h < n  BY <1>0, <1>6, <1>7, <3>1, <3>3 DEF Contains
    <3>4. CASE h > n
      <4>1. h \in n + 1 .. Len(s) + 1 /\ h - 1 \in 1 .. Len(s)  BY <1>0, <1>6, <3>4
      <4> QED  BY <1>8, <3>1, <4>1 DEF Contains
    <3> QED  BY <1>0, <1>6, <3>2, <3>3, <3>4
  <2>2. ASSUME Contains(s, y)  PROVE Contains(r, y)
    <3>1. PICK h \in 1 .. Len(s) : s[h] = y  BY <2>2 DEF Contains
    <3>2. CASE h < n  BY <1>0, <1>6, <1>7, <3>1, <3>2 DEF Contains
    <3>3. CASE h >= n
      <4>1. h + 1 \in n + 1 .. Len(s) + 1 /\ h + 1 \in 1 .. Len(r) /\ (h + 1) - 1 = h  BY <1>0, <1>6, <3>3
      <4>2. r[h + 1] = y  BY <1>8, <3>1, <4>1
      <4> QED  BY <4>1, <4>2 DEF Contains
    <3> QED  BY <1>0, <3>2, <3>3
  <2>3. Contains(r, x)  BY <1>0, <1>6, <1>7 DEF Contains
  <2> QED  BY <2>1, <2>2, <2>3
<1> QED  BY <1>6, <1>10, <1>11 DEF GoodList, r

(* An element less.                                                        *)
LEMMA ListRemoved ==
  ASSUME NEW R, NEW s, GoodList(s, R), NEW n \in 1 .. Len(s)
  PROVE  GoodList(RemoveAt(s, n), R) /\ \A y : Contains(RemoveAt(s, n), y) <=> y # s[n] /\ Contains(s, y)
<1> DEFINE l == SubSeq(s, 1, n - 1)
           u == SubSeq(s, n + 1, Len(s))
           r == RemoveAt(s, n)
<1>0. s \in Seq(R) /\ Len(s) \in Nat /\ \A i, j \in 1 .. Len(s) : s[i] = s[j] => i = j  BY DEF GoodList
<1>1. l \in Seq(R) /\ Len(l) = n - 1 /\ \A i \in 1 .. n - 1 : l[i] = s[i]  BY <1>0
<1>2. u \in Seq(R) /\ Len(u) = Len(s) - n /\ \A i \in 1 .. Len(s) - n : u[i] = s[n + i]  BY <1>0
<1>3. r = l \o u  BY DEF RemoveAt
<1> HIDE DEF l, u, r
<1>4. /\ r \in Seq(R) /\ Len(r) = Len(s) - 1
      /\ \A i \in 1 .. Len(s) - 1 : r[i] = IF i <= n - 1 THEN l[i] ELSE u[i - (n - 1)]
  <2>1. /\ l \o u \in Seq(R) /\ Len(l \o u) = Len(l) + Len(u)
        /\ \A i \in 1 .. Len(l) + Len(u) : (l \o u)[i] = IF i <= Len(l) THEN l[i] ELSE u[i - Len(l)]
    BY <1>1, <1>2, ConcatProperties
  <2>2. Len(l) + Len(u) = Len(s) - 1  BY <1>0, <1>1, <1>2
  <2> QED  BY <1>1, <1>3, <2>1, <2>2
<1>5. \A i \in 1 .. Len(s) - 1 : r[i] = IF i < n THEN s[i] ELSE s[i + 1]
  <2> TAKE i \in 1 .. Len(s) - 1
  <2>1. CASE i < n  BY <1>0, <1>1, <1>4, <2>1
  <2>2. CASE i >= n
    <3>1. i - (n - 1) \in 1 .. Len(s) - n /\ n + (i - (n - 1)) = i + 1  BY <1>0, <2>2
    <3> QED  BY <1>0, <1>2, <1>4, <2>2, <3>1
  <2> QED  BY <1>0, <2>1, <2>2
<1>6. ASSUME NEW i \in 1 .. Len(r), NEW j \in 1 .. Len(r), r[i] = r[j]  PROVE i = j
  <2>1. \A h \in 1 .. Len(r) : \/ h < n /\ h \in 1 .. Len(s) /\ r[h] = s[h]
                               \/ h >= n /\ h + 1 \in 1 .. Len(s) /\ r[h] = s[h + 1]
    BY <1>0, <1>4, <1>5
  <2>2. PICK p \in 1 .. Len(s) : r[i] = s[p] /\ ((i < n /\ p = i) \/ (i >= n /\ p = i + 1))  BY <2>1
  <2>3. PICK q \in 1 .. Len(s) : r[j] = s[q] /\ ((j < n /\ q = j) \/ (j >= n /\ q = j + 1))  BY <2>1
  <2>4. p = q  BY <1>0, <1>6, <2>2, <2>3
  <2> QED  BY <1>0, <1>4, <2>2, <2>3, <2>4
<1>7. ASSUME NEW y  PROVE Contains(r, y) <=> y # s[n] /\ Contains(s, y)
  <2>1. ASSUME Contains(r, y)  PROVE y # s[n] /\ Contains(s, y)
    <3>1. PICK h \in 1 .. Len(r) : r[h] = y  BY <2>1 DEF Contains
    <3>2. \E g \in 1 .. Len(s) : g # n /\ s[g] = y
      <4>1. CASE h < n
        <5>1. h \in 1 .. Len(s) /\ h # n /\ s[h] = y  BY <1>0, <1>4, <1>5, <3>1, <4>1
        <5> QED  BY <5>1
      <4>2. CASE h >= n
        <5>1. h + 1 \in 1 .. Len(s) /\ h + 1 # n /\ s[h + 1] = y  BY <1>0, <1>4, <1>5, <3>1, <4>2
        <5> QED  BY <5>1
      <4>3. h < n \/ h >= n  BY <1>0, <1>4
      <4> QED  BY <4>1, <4>2, <4>3
    <3> QED  BY <1>0, <3>2 DEF Contains
  <2>2. ASSUME y # s[n], Contains(s, y)  PROVE Contains(r, y)
    <3>1. PICK h \in 1 .. Len(s) : s[h] = y  BY <2>2 DEF Contains
    <3>2. h # n  BY <2>2, <3>1
    <3>3. CASE h < n  BY <1>0, <1>4, <1>5, <3>1, <3>3 DEF Contains
    <3>4. CASE h > n
      <4>1. h - 1 \in 1 .. Len(r) /\ r[h - 1] = y  BY <1>0, <1>4, <1>5, <3>1, <3>4
      <4> QED  BY <4>1 DEF Contains
    <3> QED  BY <1>0, <3>2, <3>3, <3>4
  <2> QED  BY <2>1, <2>2
<1> QED  BY <1>4, <1>6, <1>7 DEF GoodList, r

(* RemoveFirst removes an element.                                         *)
LEMMA FirstRemoved ==
  ASSUME NEW R, NEW s \in Seq(R), NEW x, Contains(s, x)
  PROVE  \E n \in 1 .. Len(s) : s[n] = x /\ RemoveFirst(s, x) = RemoveAt(s, n)
<1> DEFINE I == {i \in 1 .. Len(s) : s[i] = x}
<1>1. \E i \in 1 .. Len(s) : s[i] = x  BY DEF Contains
<1>2. RemoveFirst(s, x) = RemoveAt(s, Min(I))  BY <1>1 DEF RemoveFirst, SelectInSeq
<1>3. IsFiniteSet(1 .. Len(s))  BY FS_Interval
<1>4. I \subseteq 1 .. Len(s) /\ I # {} /\ I \subseteq Int  BY <1>1
<1>5. IsFiniteSet(I)  BY <1>3, <1>4, FS_Subset
<1> HIDE DEF I
<1>6. Min(I) \in I  BY <1>4, <1>5, MinIsElement
<1> QED  BY <1>2, <1>6 DEF I

-----------------------------------------------------------------------------
(***************************************************************************)
(* The tables in memory.                                                   *)
(***************************************************************************)
RightsOf(t, l) == {k[2] : k \in {x \in Keys[t] : x[1] = l}}

GoodTable(t, table) ==
  /\ table = [x \in DOMAIN table |-> table[x]]
  /\ t \in Relations => /\ DOMAIN table \subseteq {k[1] : k \in Keys[t]}
                        /\ \A l \in DOMAIN table : GoodList(table[l], RightsOf(t, l))
  /\ t \notin Relations => /\ DOMAIN table \subseteq Keys[t]
                           /\ \A k \in DOMAIN table : table[k] \in StoredValues(t)

RelationCell(table, k) == IF Contains(Listed(table, k[1]), k[2]) THEN {Unit} ELSE {}

TableCells(t, table) ==
  [k \in Keys[t] |-> IF t \in Relations THEN RelationCell(table, k) ELSE TableFetch(table, k)]

(* The keys of a relation are pairs.                                       *)
LEMMA PairKeys ==
  ASSUME NEW t \in Relations
  PROVE  t \in AllTables /\ StoredValues(t) = {Unit} /\ \A k \in Keys[t] : k = <<k[1], k[2]>>
<1>1. t \in AllTables
  BY DEF Relations, AllTables, MessageTables, OutputTables, MilestoneTables, TreasuryTables
<1>2. \A k \in Keys[t] : k = <<k[1], k[2]>>  BY <1>1, TableKeys, RelationBytes
<1> QED  BY <1>1, <1>2 DEF StoredValues

(* The list of a left component has no duplicates.                         *)
LEMMA ListedGood ==
  ASSUME NEW t \in Relations, NEW table, GoodTable(t, table), NEW l
  PROVE  GoodList(Listed(table, l), RightsOf(t, l))
<1>1. CASE l \in DOMAIN table  BY <1>1 DEF GoodTable, Listed
<1>2. CASE l \notin DOMAIN table
  <2>1. Listed(table, l) = << >>  BY <1>2 DEF Listed
  <2>2. << >> \in Seq(RightsOf(t, l)) /\ Len(<< >>) = 0  OBVIOUS
  <2> QED  BY <2>1, <2>2 DEF GoodList
<1> QED  BY <1>1, <1>2

(* A good table has good cells.                                            *)
LEMMA TableCellsGood ==
  ASSUME NEW t \in AllTables, NEW table, GoodTable(t, table)
  PROVE  TableCells(t, table) \in CellMaps(t)
<1>1. CASE t \in Relations
  BY <1>1, PairKeys DEF TableCells, CellMaps, RelationCell
<1>2. CASE t \notin Relations
  <2>1. ASSUME NEW k \in Keys[t]  PROVE TableFetch(table, k) \in {{}} \cup {{v} : v \in StoredValues(t)}
    BY <1>2 DEF TableFetch, GoodTable
  <2> QED  BY <1>2, <2>1 DEF TableCells, CellMaps
<1> QED  BY <1>1, <1>2

(* The empty table.                                                        *)
LEMMA TableEmpty ==
  ASSUME NEW t \in AllTables
  PROVE  GoodTable(t, << >>) /\ TableCells(t, << >>) = NoCells(t)
<1>1. GoodTable(t, << >>)  BY NoKeys DEF GoodTable
<1>2. \A k : ~Contains(Listed(<< >>, k[1]), k[2])
  <2>1. \A k : Listed(<< >>, k[1]) = << >>  BY NoKeys DEF Listed
  <2>2. \A x : ~Contains(<< >>, x)  BY DEF Contains
  <2> QED  BY <2>1, <2>2
<1>3. TableCells(t, << >>) = NoCells(t)  BY <1>2, NoKeys DEF TableCells, NoCells, RelationCell, TableFetch
<1> QED  BY <1>1, <1>3

(* A list with one element more.                                           *)
LEMMA RelationAdded ==
  ASSUME NEW t \in Relations, NEW table, GoodTable(t, table), NEW k \in Keys[t], NEW list,
         GoodList(list, RightsOf(t, k[1])),
         \A y : Contains(list, y) <=> y = k[2] \/ Contains(Listed(table, k[1]), y)
  PROVE  /\ GoodTable(t, Stored(table, k[1], list))
         /\ TableCells(t, Stored(table, k[1], list)) = Updated(TableCells(t, table), k, {Unit})
<1> DEFINE new == Stored(table, k[1], list)
<1>1. /\ DOMAIN new = DOMAIN table \cup {k[1]} /\ new[k[1]] = list /\ new = [x \in DOMAIN new |-> new[x]]
      /\ \A x \in DOMAIN table \ {k[1]} : new[x] = table[x]
  BY DEF Stored
<1> HIDE DEF new
<1>2. GoodTable(t, new)  BY <1>1 DEF GoodTable
<1>3. ASSUME NEW x \in Keys[t]
      PROVE  RelationCell(new, x) = IF x = k THEN {Unit} ELSE RelationCell(table, x)
  <2>1. x = <<x[1], x[2]>> /\ k = <<k[1], k[2]>>  BY PairKeys
  <2>2. CASE x[1] = k[1]
    <3>1. Listed(new, x[1]) = list  BY <1>1, <2>2 DEF Listed
    <3>2. x = k <=> x[2] = k[2]  BY <2>1, <2>2
    <3> QED  BY <2>2, <3>1, <3>2 DEF RelationCell
  <2>3. CASE x[1] # k[1]
    <3>1. Listed(new, x[1]) = Listed(table, x[1])  BY <1>1, <2>3 DEF Listed
    <3> QED  BY <2>3, <3>1 DEF RelationCell
  <2> QED  BY <2>2, <2>3
<1>4. TableCells(t, new) = Updated(TableCells(t, table), k, {Unit})  BY <1>3 DEF TableCells, Updated
<1> QED  BY <1>2, <1>4 DEF new

(* list has the elements of vs, without x.                                 *)
Without(list, vs, x) == \A y : Contains(list, y) <=> y # x /\ Contains(vs, y)

(* new is the table with another list.                                     *)
Relisted(new, table, l, list) == new = [table EXCEPT ![l] = list]

(* A list with one element less.                                           *)
LEMMA RelationRemoved ==
  ASSUME NEW t \in Relations, NEW table, GoodTable(t, table), NEW k \in Keys[t], NEW list,
         k[1] \in DOMAIN table, GoodList(list, RightsOf(t, k[1])),
         Without(list, table[k[1]], k[2]),
         NEW new, Relisted(new, table, k[1], list)
  PROVE  GoodTable(t, new) /\ TableCells(t, new) = Updated(TableCells(t, table), k, {})
<1>1. /\ DOMAIN new = DOMAIN table /\ new[k[1]] = list /\ new = [x \in DOMAIN new |-> new[x]]
      /\ \A x \in DOMAIN table \ {k[1]} : new[x] = table[x]
  BY DEF GoodTable, Relisted
<1>2. GoodTable(t, new)  BY <1>1 DEF GoodTable
<1>3. ASSUME NEW x \in Keys[t]
      PROVE  RelationCell(new, x) = IF x = k THEN {} ELSE RelationCell(table, x)
  <2>1. x = <<x[1], x[2]>> /\ k = <<k[1], k[2]>>  BY PairKeys
  <2>2. CASE x[1] = k[1]
    <3>1. Listed(new, x[1]) = list /\ Listed(table, x[1]) = table[k[1]]  BY <1>1, <2>2 DEF Listed
    <3>2. x = k <=> x[2] = k[2]  BY <2>1, <2>2
    <3> QED  BY <2>2, <3>1, <3>2 DEF RelationCell, Without
  <2>3. CASE x[1] # k[1]
    <3>1. Listed(new, x[1]) = Listed(table, x[1])  BY <1>1, <2>3 DEF Listed
    <3> QED  BY <2>3, <3>1 DEF RelationCell
  <2> QED  BY <2>2, <2>3
<1>4. TableCells(t, new) = Updated(TableCells(t, table), k, {})  BY <1>3 DEF TableCells, Updated
<1> QED  BY <1>2, <1>4

(* A relation that is not listed has an empty cell.                        *)
LEMMA RelationAbsent ==
  ASSUME NEW t \in Relations, NEW table, NEW k \in Keys[t], ~Contains(Listed(table, k[1]), k[2])
  PROVE  TableCells(t, table) = Updated(TableCells(t, table), k, {})
BY DEF TableCells, RelationCell, Updated

(* VecTable.                                                               *)
LEMMA VecInserted ==
  ASSUME NEW t \in Relations, NEW table, GoodTable(t, table), NEW k \in Keys[t]
  PROVE  /\ GoodTable(t, VecInsert(table, k))
         /\ TableCells(t, VecInsert(table, k)) = Updated(TableCells(t, table), k, {Unit})
<1> DEFINE vs == Listed(table, k[1])
           R == RightsOf(t, k[1])
           list == IF Contains(vs, k[2]) THEN vs ELSE Append(vs, k[2])
<1>1. GoodList(vs, R) /\ k[2] \in R  BY ListedGood DEF RightsOf
<1>2. VecInsert(table, k) = Stored(table, k[1], list)  BY DEF VecInsert
<1> HIDE DEF vs, R
<1>3. GoodList(list, R) /\ \A y : Contains(list, y) <=> y = k[2] \/ Contains(vs, y)
  <2>1. CASE Contains(vs, k[2])  BY <1>1, <2>1
  <2>2. CASE ~Contains(vs, k[2])  BY <1>1, <2>2, ListAppended
  <2> QED  BY <2>1, <2>2
<1> HIDE DEF list
<1>4. GoodList(list, RightsOf(t, k[1])) /\ \A y : Contains(list, y) <=> y = k[2] \/ Contains(Listed(table, k[1]), y)
  BY <1>3 DEF vs, R
<1> QED  BY <1>2, <1>4, RelationAdded

\* A value is removed from an unsorted list of related ones.
LEMMA VecDeleted ==
  ASSUME NEW t \in Relations, NEW table, GoodTable(t, table), NEW k \in Keys[t]
  PROVE  /\ GoodTable(t, VecDelete(table, k))
         /\ TableCells(t, VecDelete(table, k)) = Updated(TableCells(t, table), k, {})
<1>1. CASE k[1] \notin DOMAIN table \/ ~Contains(table[k[1]], k[2])
  <2>1. VecDelete(table, k) = table  BY <1>1 DEF VecDelete
  <2>2. ~Contains(Listed(table, k[1]), k[2])
    <3>1. \A x : ~Contains(<< >>, x)  BY DEF Contains
    <3> QED  BY <1>1, <3>1 DEF Listed
  <2> QED  BY <2>1, <2>2, RelationAbsent
<1>2. CASE k[1] \in DOMAIN table /\ Contains(table[k[1]], k[2])
  <2> DEFINE vs == table[k[1]]
             list == RemoveFirst(vs, k[2])
  <2>1. GoodList(vs, RightsOf(t, k[1])) /\ vs \in Seq(RightsOf(t, k[1]))  BY <1>2 DEF GoodTable, GoodList
  <2>2. Relisted(VecDelete(table, k), table, k[1], list)  BY <1>2 DEF VecDelete, Relisted
  <2>3. PICK n \in 1 .. Len(vs) : vs[n] = k[2] /\ list = RemoveAt(vs, n)
    <3> HIDE DEF vs
    <3>1. Contains(vs, k[2])  BY <1>2 DEF vs
    <3> QED  BY <2>1, <3>1, FirstRemoved
  <2>4. GoodList(list, RightsOf(t, k[1])) /\ Without(list, table[k[1]], k[2])
    BY <2>1, <2>3, ListRemoved DEF Without
  <2> HIDE DEF list
  <2> QED  BY <1>2, <2>2, <2>4, RelationRemoved
<1> QED  BY <1>1, <1>2

(* VecBinTable.                                                            *)
LEMMA BinInserted ==
  ASSUME NEW t \in Relations, NEW table, GoodTable(t, table), NEW k \in Keys[t]
  PROVE  /\ GoodTable(t, BinInsert(table, t, k))
         /\ TableCells(t, BinInsert(table, t, k)) = Updated(TableCells(t, table), k, {Unit})
<1> DEFINE vs == Listed(table, k[1])
           R == RightsOf(t, k[1])
           I == {i \in DOMAIN vs : BytesLess(RightBytes(t, vs[i]), RightBytes(t, k[2]))}
           list == IF Contains(vs, k[2]) THEN vs ELSE InsertAt(vs, Cardinality(I) + 1, k[2])
<1>1. GoodList(vs, R) /\ k[2] \in R  BY ListedGood DEF RightsOf
<1>2. BinInsert(table, t, k) = Stored(table, k[1], list)
  <2>1. CASE Contains(vs, k[2])  BY <2>1 DEF BinInsert, BinarySearch
  <2>2. CASE ~Contains(vs, k[2])  BY <2>2 DEF BinInsert, BinarySearch
  <2> QED  BY <2>1, <2>2
<1>3. Cardinality(I) + 1 \in 1 .. Len(vs) + 1
  <2>1. vs \in Seq(R)  BY <1>1 DEF GoodList
  <2> HIDE DEF vs
  <2>2. I \subseteq 1 .. Len(vs) /\ Len(vs) \in Nat  BY <2>1
  <2>3. IsFiniteSet(1 .. Len(vs)) /\ Cardinality(1 .. Len(vs)) = Len(vs)
    <3> DEFINE n == Len(vs)
    <3>1. 1 \in Int /\ n \in Int /\ n \in Nat  BY <2>2
    <3> HIDE DEF n
    <3>2. IsFiniteSet(1 .. n) /\ Cardinality(1 .. n) = IF 1 > n THEN 0 ELSE n - 1 + 1  BY <3>1, FS_Interval
    <3>3. IsFiniteSet(1 .. n) /\ Cardinality(1 .. n) = n  BY <3>1, <3>2
    <3> QED  BY <3>3 DEF n
  <2>4. IsFiniteSet(I) /\ Cardinality(I) <= Len(vs)  BY <2>2, <2>3, FS_Subset
  <2>5. Cardinality(I) \in Nat  BY <2>4, FS_CardinalityType
  <2> QED  BY <2>2, <2>4, <2>5
<1> HIDE DEF vs, R, I
<1>4. GoodList(list, R) /\ \A y : Contains(list, y) <=> y = k[2] \/ Contains(vs, y)
  <2>1. CASE Contains(vs, k[2])  BY <1>1, <2>1
  <2>2. CASE ~Contains(vs, k[2])
    <3> DEFINE n == Cardinality(I) + 1
    <3>1. n \in 1 .. Len(vs) + 1 /\ list = InsertAt(vs, n, k[2])  BY <1>3, <2>2
    <3> HIDE DEF n, list
    <3> QED  BY <1>1, <2>2, <3>1, ListInserted
  <2> QED  BY <2>1, <2>2
<1> HIDE DEF list
<1>5. GoodList(list, RightsOf(t, k[1])) /\ \A y : Contains(list, y) <=> y = k[2] \/ Contains(Listed(table, k[1]), y)
  BY <1>4 DEF vs, R
<1> QED  BY <1>2, <1>5, RelationAdded

\* A value is removed from a sorted list of related ones.
LEMMA BinDeleted ==
  ASSUME NEW t \in Relations, NEW table, GoodTable(t, table), NEW k \in Keys[t]
  PROVE  /\ GoodTable(t, BinDelete(table, t, k))
         /\ TableCells(t, BinDelete(table, t, k)) = Updated(TableCells(t, table), k, {})
<1> DEFINE vs == Listed(table, k[1])
           place == CHOOSE i \in DOMAIN vs : vs[i] = k[2]
           list == RemoveAt(vs, place)
<1>1. CASE k[1] \notin DOMAIN table \/ ~Contains(vs, k[2])
  <2>1. BinDelete(table, t, k) = table  BY <1>1 DEF BinDelete, BinarySearch
  <2>2. ~Contains(vs, k[2])
    <3>1. \A x : ~Contains(<< >>, x)  BY DEF Contains
    <3> QED  BY <1>1, <3>1 DEF Listed
  <2> QED  BY <2>1, <2>2, RelationAbsent
<1>2. CASE k[1] \in DOMAIN table /\ Contains(vs, k[2])
  <2>1. GoodList(vs, RightsOf(t, k[1])) /\ vs \in Seq(RightsOf(t, k[1])) /\ vs = table[k[1]]
    BY <1>2, ListedGood DEF Listed, GoodList
  <2>2. Relisted(BinDelete(table, t, k), table, k[1], list)
    <3>1. BinDelete(table, t, k) = [table EXCEPT ![k[1]] = RemoveAt(table[k[1]], place)]
      BY <1>2 DEF BinDelete, BinarySearch
    <3> QED  BY <2>1, <3>1 DEF Relisted
  <2>3. place \in 1 .. Len(vs) /\ vs[place] = k[2]
    <3> HIDE DEF vs
    <3>1. DOMAIN vs = 1 .. Len(vs)  BY <2>1
    <3>2. \E i \in DOMAIN vs : vs[i] = k[2]  BY <1>2, <3>1 DEF Contains
    <3> QED  BY <3>1, <3>2
  <2> HIDE DEF place, vs
  <2>4. GoodList(list, RightsOf(t, k[1])) /\ Without(list, table[k[1]], k[2])
    BY <2>1, <2>3, ListRemoved DEF Without
  <2> HIDE DEF list
  <2> QED  BY <1>2, <2>2, <2>4, RelationRemoved
<1> QED  BY <1>1, <1>2

-----------------------------------------------------------------------------
(* A table after an insertion and after a deletion.                        *)
TableInserted(t, table, k, v) ==
  CASE t \in VecBinTables -> BinInsert(table, t, k)
    [] t \in VecTables -> VecInsert(table, k)
    [] t \in Singletons -> SingletonInsert(table, v)
    [] OTHER -> TableInsert(table, k, v)
TableDeleted(t, table, k) ==
  CASE t \in VecBinTables -> BinDelete(table, t, k)
    [] t \in VecTables -> VecDelete(table, k)
    [] t \in Singletons -> SingletonDelete(table)
    [] OTHER -> TableDelete(table, k)

(* The relations are the tables with lists.                                *)
LEMMA ListTables ==
  /\ Relations = VecBinTables \cup VecTables /\ VecBinTables \cap VecTables = {}
  /\ Singletons \cap Relations = {}
BY DEF Relations, VecBinTables, VecTables, Singletons

(* A singleton has one key.                                                *)
LEMMA SingletonKey == ASSUME NEW t \in Singletons, NEW k \in Keys[t]  PROVE k = Unit /\ t \in AllTables
<1>1. t \in AllTables
  BY DEF Singletons, AllTables, MessageTables, OutputTables, MilestoneTables, TreasuryTables
<1>2. k \in KeySpace(t)  BY <1>1, TableKeys
<1>3. KeySpace(t) = {Unit}  BY DEF KeySpace, Singletons
<1> QED  BY <1>1, <1>2, <1>3

\* An insertion into a table of the memory changes one cell.
LEMMA TableInsertedGood ==
  ASSUME NEW t \in AllTables, NEW table, GoodTable(t, table), NEW k \in Keys[t], NEW v \in StoredValues(t)
  PROVE  /\ GoodTable(t, TableInserted(t, table, k, v))
         /\ TableCells(t, TableInserted(t, table, k, v)) = Updated(TableCells(t, table), k, {v})
<1>1. CASE t \in VecBinTables
  <2>1. t \in Relations /\ v = Unit  BY <1>1, ListTables, PairKeys
  <2>2. TableInserted(t, table, k, v) = BinInsert(table, t, k)  BY <1>1 DEF TableInserted, VecBinTables, VecTables, Singletons
  <2> QED  BY <2>1, <2>2, BinInserted
<1>2. CASE t \in VecTables
  <2>1. t \in Relations /\ v = Unit /\ t \notin VecBinTables  BY <1>2, ListTables, PairKeys
  <2>2. TableInserted(t, table, k, v) = VecInsert(table, k)  BY <1>2 DEF TableInserted, VecBinTables, VecTables, Singletons
  <2> QED  BY <2>1, <2>2, VecInserted
<1>3. CASE t \notin VecBinTables /\ t \notin VecTables
  <2>1. t \notin Relations  BY <1>3, ListTables
  <2> DEFINE new == Stored(table, k, v)
  <2>2. TableInserted(t, table, k, v) = new
    <3>1. CASE t \in Singletons
      <4>1. k = Unit /\ DOMAIN table \subseteq {Unit}  BY <3>1, <2>1, SingletonKey DEF GoodTable
      <4>2. TableInserted(t, table, k, v) = [unit \in {Unit} |-> v]  BY <1>3, <3>1 DEF TableInserted, SingletonInsert
      <4>3. DOMAIN table \cup {k} = {Unit}  BY <4>1
      <4> QED  BY <4>1, <4>2, <4>3 DEF Stored
    <3>2. CASE t \notin Singletons  BY <1>3, <3>2 DEF TableInserted, TableInsert
    <3> QED  BY <3>1, <3>2
  <2>3. /\ DOMAIN new = DOMAIN table \cup {k} /\ new[k] = v /\ new = [x \in DOMAIN new |-> new[x]]
        /\ \A x \in DOMAIN table \ {k} : new[x] = table[x]
    BY DEF Stored
  <2> HIDE DEF new
  <2>4. GoodTable(t, new)  BY <2>1, <2>3 DEF GoodTable
  <2>5. TableCells(t, new) = Updated(TableCells(t, table), k, {v})  BY <2>1, <2>3 DEF TableCells, TableFetch, Updated
  <2> QED  BY <2>2, <2>4, <2>5
<1> QED  BY <1>1, <1>2, <1>3

\* A deletion from a table of the memory empties one cell.
LEMMA TableDeletedGood ==
  ASSUME NEW t \in AllTables, NEW table, GoodTable(t, table), NEW k \in Keys[t]
  PROVE  /\ GoodTable(t, TableDeleted(t, table, k))
         /\ TableCells(t, TableDeleted(t, table, k)) = Updated(TableCells(t, table), k, {})
<1>1. CASE t \in VecBinTables
  <2>1. t \in Relations  BY <1>1, ListTables
  <2>2. TableDeleted(t, table, k) = BinDelete(table, t, k)  BY <1>1 DEF TableDeleted, VecBinTables, VecTables, Singletons
  <2> QED  BY <2>1, <2>2, BinDeleted
<1>2. CASE t \in VecTables
  <2>1. t \in Relations /\ t \notin VecBinTables  BY <1>2, ListTables
  <2>2. TableDeleted(t, table, k) = VecDelete(table, k)  BY <1>2 DEF TableDeleted, VecBinTables, VecTables, Singletons
  <2> QED  BY <2>1, <2>2, VecDeleted
<1>3. CASE t \notin VecBinTables /\ t \notin VecTables
  <2>1. t \notin Relations  BY <1>3, ListTables
  <2> DEFINE new == Dropped(table, {k})
  <2>2. TableDeleted(t, table, k) = new
    <3>1. CASE t \in Singletons
      <4>1. k = Unit /\ DOMAIN table \subseteq {Unit}  BY <3>1, <2>1, SingletonKey DEF GoodTable
      <4>2. TableDeleted(t, table, k) = << >>  BY <1>3, <3>1 DEF TableDeleted, SingletonDelete
      <4>3. DOMAIN table \ {k} = {}  BY <4>1
      <4>4. << >> = [x \in {} |-> table[x]]  OBVIOUS
      <4> QED  BY <4>2, <4>3, <4>4 DEF Dropped
    <3>2. CASE t \notin Singletons  BY <1>3, <3>2 DEF TableDeleted, TableDelete
    <3> QED  BY <3>1, <3>2
  <2>3. /\ DOMAIN new = DOMAIN table \ {k} /\ new = [x \in DOMAIN new |-> new[x]]
        /\ \A x \in DOMAIN table \ {k} : new[x] = table[x]
    BY DEF Dropped
  <2> HIDE DEF new
  <2>4. GoodTable(t, new)  BY <2>1, <2>3 DEF GoodTable
  <2>5. TableCells(t, new) = Updated(TableCells(t, table), k, {})  BY <2>1, <2>3 DEF TableCells, TableFetch, Updated
  <2> QED  BY <2>2, <2>4, <2>5
<1> QED  BY <1>1, <1>2, <1>3

(* What the iterators of the tables list are the values of their cells.    *)
LEMMA MemoryListed ==
  ASSUME NEW t \in AllTables, NEW content, GoodTable(t, content[t])
  PROVE  MemoryIter(content, t) = PairsOf(TableCells(t, content[t]))
<1> DEFINE table == content[t]
           c == TableCells(t, table)
<1>0. DOMAIN c = Keys[t] /\ PairsOf(c) = UNION {{<<k, v>> : v \in c[k]} : k \in Keys[t]}  BY DEF PairsOf, TableCells
<1>1. CASE t \in Relations
  <2>1. MemoryIter(content, t) =
          UNION {{<<<<l, table[l][i]>>, Unit>> : i \in DOMAIN table[l]} : l \in DOMAIN table}
    BY <1>1 DEF MemoryIter, VecTableIter
  <2>2. ASSUME NEW l \in DOMAIN table, NEW i \in DOMAIN table[l]  PROVE <<<<l, table[l][i]>>, Unit>> \in PairsOf(c)
    <3>1. table[l] \in Seq(RightsOf(t, l))  BY <1>1 DEF GoodTable, GoodList
    <3>2. table[l][i] \in RightsOf(t, l) /\ i \in 1 .. Len(table[l])  BY <3>1, <2>2
    <3>3. PICK k \in Keys[t] : k[1] = l /\ k[2] = table[l][i]  BY <3>2 DEF RightsOf
    <3>4. k = <<l, table[l][i]>>  BY <1>1, <3>3, PairKeys
    <3>5. Contains(table[l], table[l][i])  BY <3>2 DEF Contains
    <3>6. c[k] = {Unit}  BY <1>1, <3>3, <3>5 DEF TableCells, RelationCell, Listed
    <3>7. Unit \in c[k]  BY <3>6
    <3> QED  BY <1>0, <3>4, <3>7
  <2>3. ASSUME NEW k \in Keys[t], NEW v \in c[k]
        PROVE  \E l \in DOMAIN table : \E i \in DOMAIN table[l] : <<k, v>> = <<<<l, table[l][i]>>, Unit>>
    <3>1. v = Unit /\ Contains(Listed(table, k[1]), k[2])  BY <1>1, <2>3 DEF TableCells, RelationCell
    <3>2. \A x : ~Contains(<< >>, x)  BY DEF Contains
    <3>3. k[1] \in DOMAIN table /\ Listed(table, k[1]) = table[k[1]]  BY <3>1, <3>2 DEF Listed
    <3>4. table[k[1]] \in Seq(RightsOf(t, k[1]))  BY <1>1, <3>3 DEF GoodTable, GoodList
    <3>5. PICK i \in 1 .. Len(table[k[1]]) : table[k[1]][i] = k[2]  BY <3>1, <3>3 DEF Contains
    <3>6. i \in DOMAIN table[k[1]] /\ k = <<k[1], k[2]>>  BY <1>1, <3>4, <3>5, PairKeys
    <3> QED  BY <3>1, <3>3, <3>5, <3>6
  <2>4. \A p \in MemoryIter(content, t) : p \in PairsOf(c)
    <3> HIDE DEF c
    <3> QED  BY <2>1, <2>2
  <2>5. \A p \in PairsOf(c) : p \in MemoryIter(content, t)
    <3>1. \A p \in PairsOf(c) : \E k \in Keys[t] : \E v \in c[k] : p = <<k, v>>
      <4> HIDE DEF c
      <4> QED  BY <1>0
    <3> HIDE DEF c, table
    <3> QED  BY <2>1, <2>3, <3>1
  <2> QED  BY <2>4, <2>5
<1>2. CASE t \notin Relations
  <2>1. MemoryIter(content, t) = {<<k, table[k]>> : k \in DOMAIN table}  BY <1>2 DEF MemoryIter, TableIter
  <2>2. DOMAIN table \subseteq Keys[t]  BY <1>2 DEF GoodTable
  <2>3. \A k \in Keys[t] : c[k] = IF k \in DOMAIN table THEN {table[k]} ELSE {}  BY <1>2 DEF TableCells, TableFetch
  <2>4. \A k \in DOMAIN table : <<k, table[k]>> \in PairsOf(c)
    <3> TAKE k \in DOMAIN table
    <3>1. k \in Keys[t] /\ c[k] = {table[k]}  BY <2>2, <2>3
    <3> HIDE DEF c, table
    <3> QED  BY <1>0, <3>1
  <2>5. \A k \in Keys[t] : \A v \in c[k] : k \in DOMAIN table /\ v = table[k]  BY <2>3
  <2> HIDE DEF c, table
  <2>6. \A p \in PairsOf(c) : \E k \in Keys[t] : \E v \in c[k] : p = <<k, v>>  BY <1>0
  <2>7. \A p \in PairsOf(c) : \E k \in DOMAIN table : p = <<k, table[k]>>  BY <2>5, <2>6
  <2>8. MemoryIter(content, t) = PairsOf(c)  BY <2>1, <2>4, <2>7
  <2> QED  BY <2>8 DEF c, table
<1> QED  BY <1>1, <1>2

-----------------------------------------------------------------------------
(***************************************************************************)
(* What a backend holds, whichever it is.                                  *)
(***************************************************************************)
GoodPart(b, t, part) == IF b = "memory" THEN GoodTable(t, part) ELSE GoodTree(t, part)
PartCells(b, t, part) == IF b = "memory" THEN TableCells(t, part) ELSE TreeCells(t, part)

GoodContent(b, ts, content) ==
  /\ content = [t \in ts |-> content[t]]
  /\ \A t \in ts : GoodPart(b, t, content[t])

(* The cells of a good part are good.                                      *)
LEMMA PartCellsGood ==
  ASSUME NEW b, NEW t \in AllTables, NEW part, GoodPart(b, t, part)
  PROVE  PartCells(b, t, part) \in CellMaps(t)
BY TableCellsGood, TreeCellsGood DEF GoodPart, PartCells

(* A part without rows.                                                    *)
LEMMA PartEmpty ==
  ASSUME NEW b, NEW t \in AllTables
  PROVE  GoodPart(b, t, << >>) /\ PartCells(b, t, << >>) = NoCells(t)
<1>1. GoodTree(t, << >>) /\ TreeCells(t, << >>) = NoCells(t)  BY NoKeys, TreeEmpty
<1>2. GoodTable(t, << >>) /\ TableCells(t, << >>) = NoCells(t)  BY TableEmpty
<1> QED  BY <1>1, <1>2 DEF GoodPart, PartCells

(* new is the content with other cells in one table.                       *)
Changed(b, content, new, t, c) ==
  /\ new = Updated(content, t, new[t])
  /\ GoodPart(b, t, new[t]) /\ PartCells(b, t, new[t]) = c

(* The rest of the content is as before.                                   *)
LEMMA ChangedGood ==
  ASSUME NEW b, NEW ts, NEW content, GoodContent(b, ts, content), NEW new, NEW t \in ts, NEW c,
         Changed(b, content, new, t, c)
  PROVE  /\ GoodContent(b, ts, new) /\ PartCells(b, t, new[t]) = c
         /\ \A x \in ts \ {t} : new[x] = content[x]
<1>1. content = [x \in ts |-> content[x]] /\ new = Updated(content, t, new[t])
  BY DEF GoodContent, Changed
<1>2. new = [x \in ts |-> new[x]] /\ \A x \in ts \ {t} : new[x] = content[x]
  <2> DEFINE part == new[t]
  <2>1. new = [content EXCEPT ![t] = part]  BY <1>1 DEF Updated
  <2> HIDE DEF part
  <2>2. DOMAIN content = ts  BY <1>1
  <2>3. new = [x \in ts |-> IF x = t THEN part ELSE content[x]]  BY <2>1, <2>2
  <2> QED  BY <2>3
<1>3. \A x \in ts : GoodPart(b, x, new[x])  BY <1>2 DEF GoodContent, Changed
<1> QED  BY <1>2, <1>3 DEF GoodContent, Changed

(* The contents after the operations.                                      *)
InsertedIn(b, content, t, k, v) ==
  CASE b = "memory" -> MemoryInsert(content, t, k, v)
    [] b = "sled" -> SledInsert(content, t, k, v)
    [] b = "rocksdb" -> RocksdbInsert(content, t, k, v)
DeletedIn(b, content, t, k) ==
  CASE b = "memory" -> MemoryDelete(content, t, k)
    [] b = "sled" -> SledDelete(content, t, k)
    [] b = "rocksdb" -> RocksdbDelete(content, t, k)
TruncatedIn(b, content, t) ==
  CASE b = "memory" -> MemoryTruncate(content, t)
    [] b = "sled" -> SledTruncate(content, t)
    [] b = "rocksdb" -> RocksdbTruncate(content, t)

(* The groups of tables are apart.                                         *)
LEMMA Groups ==
  ASSUME NEW t \in AllTables
  PROVE  \/ t \in MessageTables /\ t \notin OutputTables /\ t \notin MilestoneTables /\ t \notin TreasuryTables
         \/ t \in OutputTables /\ t \notin MessageTables /\ t \notin MilestoneTables /\ t \notin TreasuryTables
         \/ t \in MilestoneTables /\ t \notin MessageTables /\ t \notin OutputTables /\ t \notin TreasuryTables
         \/ t \in TreasuryTables /\ t \notin MessageTables /\ t \notin OutputTables /\ t \notin MilestoneTables
BY DEF AllTables, MessageTables, OutputTables, MilestoneTables, TreasuryTables

(* The operations of the ordered backends work on the bytes of the key.    *)
LEMMA TreeOperations ==
  ASSUME NEW t \in AllTables, NEW content, NEW k, NEW v
  PROVE  /\ SledInsert(content, t, k, v) = Updated(content, t, Stored(content[t], KeyBytes(t, k), PackValue(v)))
         /\ RocksdbInsert(content, t, k, v) = Updated(content, t, Stored(content[t], KeyBytes(t, k), PackValue(v)))
         /\ SledDelete(content, t, k) = Updated(content, t, Dropped(content[t], {KeyBytes(t, k)}))
         /\ RocksdbDelete(content, t, k) = Updated(content, t, Dropped(content[t], {KeyBytes(t, k)}))
<1>1. CASE t \in MessageTables /\ t \notin OutputTables /\ t \notin MilestoneTables /\ t \notin TreasuryTables
  BY <1>1 DEF SledInsert, RocksdbInsert, SledDelete, RocksdbDelete, SledInsertMessages, RocksdbInsertMessages,
              SledDeleteMessages, RocksdbDeleteMessages, Put, Erase, KeyBytes, Updated
<1>2. CASE t \in OutputTables /\ t \notin MessageTables /\ t \notin MilestoneTables /\ t \notin TreasuryTables
  BY <1>2 DEF SledInsert, RocksdbInsert, SledDelete, RocksdbDelete, SledInsertOutputs, RocksdbInsertOutputs,
              SledDeleteOutputs, RocksdbDeleteOutputs, Put, Erase, KeyBytes, Updated
<1>3. CASE t \in MilestoneTables /\ t \notin MessageTables /\ t \notin OutputTables /\ t \notin TreasuryTables
  BY <1>3 DEF SledInsert, RocksdbInsert, SledDelete, RocksdbDelete, SledInsertMilestones, RocksdbInsertMilestones,
              SledDeleteMilestones, RocksdbDeleteMilestones, Put, Erase, KeyBytes, Updated
<1>4. CASE t \in TreasuryTables /\ t \notin MessageTables /\ t \notin OutputTables /\ t \notin MilestoneTables
  BY <1>4 DEF SledInsert, RocksdbInsert, SledDelete, RocksdbDelete, SledInsertTreasury, RocksdbInsertTreasury,
              SledDeleteTreasury, RocksdbDeleteTreasury, Put, Erase, KeyBytes, Updated
<1> QED  BY <1>1, <1>2, <1>3, <1>4, Groups

(* An operation that replaces a part changes its table.                    *)
LEMMA PartReplaced ==
  ASSUME NEW b, NEW ts, NEW content, GoodContent(b, ts, content), NEW t \in ts, NEW part, NEW new, NEW c,
         new = Updated(content, t, part), GoodPart(b, t, part), PartCells(b, t, part) = c
  PROVE  Changed(b, content, new, t, c)
<1>1. DOMAIN content = ts  BY DEF GoodContent
<1>2. new[t] = part  BY <1>1 DEF Updated
<1> QED  BY <1>2 DEF Changed

\* An insertion changes one cell, in every backend.
LEMMA InsertedGood ==
  ASSUME NEW b \in Backends, NEW ts \in SUBSET AllTables, NEW content, GoodContent(b, ts, content),
         NEW t \in ts, NEW k \in Keys[t], NEW v \in StoredValues(t)
  PROVE  Changed(b, content, InsertedIn(b, content, t, k, v), t, Updated(PartCells(b, t, content[t]), k, {v}))
<1>0. t \in AllTables /\ GoodPart(b, t, content[t])  BY DEF GoodContent
<1> DEFINE new == InsertedIn(b, content, t, k, v)
<1>1. CASE b = "memory"
  <2> DEFINE part == TableInserted(t, content[t], k, v)
             c == Updated(PartCells(b, t, content[t]), k, {v})
  <2>1. new = Updated(content, t, part)
    BY <1>1 DEF InsertedIn, MemoryInsert, TableInserted, Updated
  <2>2. GoodPart(b, t, part) /\ PartCells(b, t, part) = c
    <3>1. GoodTable(t, content[t])  BY <1>0, <1>1 DEF GoodPart
    <3>2. GoodTable(t, part) /\ TableCells(t, part) = Updated(TableCells(t, content[t]), k, {v})
      BY <1>0, <3>1, TableInsertedGood
    <3> HIDE DEF part
    <3> QED  BY <1>1, <3>2 DEF GoodPart, PartCells
  <2> HIDE DEF part, new, c
  <2>3. Changed(b, content, new, t, c)  BY <2>1, <2>2, PartReplaced
  <2> QED  BY <2>3 DEF new, c
<1>2. CASE b # "memory"
  <2> DEFINE part == Stored(content[t], KeyBytes(t, k), PackValue(v))
             c == Updated(PartCells(b, t, content[t]), k, {v})
  <2>1. new = Updated(content, t, part)
    <3>1. new = SledInsert(content, t, k, v) \/ new = RocksdbInsert(content, t, k, v)  BY <1>2 DEF InsertedIn, Backends
    <3>2. /\ SledInsert(content, t, k, v) = Updated(content, t, part)
          /\ RocksdbInsert(content, t, k, v) = Updated(content, t, part)
      BY <1>0, TreeOperations
    <3> HIDE DEF new
    <3> QED  BY <3>1, <3>2
  <2>2. GoodPart(b, t, part) /\ PartCells(b, t, part) = c
    <3>1. GoodTree(t, content[t])  BY <1>0, <1>2 DEF GoodPart
    <3>2. GoodTree(t, part) /\ TreeCells(t, part) = Updated(TreeCells(t, content[t]), k, {v})
      BY <1>0, <3>1, TreeStored
    <3> HIDE DEF part
    <3> QED  BY <1>2, <3>2 DEF GoodPart, PartCells
  <2> HIDE DEF part, new, c
  <2>3. Changed(b, content, new, t, c)  BY <2>1, <2>2, PartReplaced
  <2> QED  BY <2>3 DEF new, c
<1> QED  BY <1>1, <1>2

\* A deletion empties one cell, in every backend.
LEMMA DeletedGood ==
  ASSUME NEW b \in Backends, NEW ts \in SUBSET AllTables, NEW content, GoodContent(b, ts, content),
         NEW t \in ts, NEW k \in Keys[t]
  PROVE  Changed(b, content, DeletedIn(b, content, t, k), t, Updated(PartCells(b, t, content[t]), k, {}))
<1>0. t \in AllTables /\ GoodPart(b, t, content[t])  BY DEF GoodContent
<1> DEFINE new == DeletedIn(b, content, t, k)
<1>1. CASE b = "memory"
  <2> DEFINE part == TableDeleted(t, content[t], k)
             c == Updated(PartCells(b, t, content[t]), k, {})
  <2>1. new = Updated(content, t, part)
    BY <1>1 DEF DeletedIn, MemoryDelete, TableDeleted, Updated
  <2>2. GoodPart(b, t, part) /\ PartCells(b, t, part) = c
    <3>1. GoodTable(t, content[t])  BY <1>0, <1>1 DEF GoodPart
    <3>2. GoodTable(t, part) /\ TableCells(t, part) = Updated(TableCells(t, content[t]), k, {})
      BY <1>0, <3>1, TableDeletedGood
    <3> HIDE DEF part
    <3> QED  BY <1>1, <3>2 DEF GoodPart, PartCells
  <2> HIDE DEF part, new, c
  <2>3. Changed(b, content, new, t, c)  BY <2>1, <2>2, PartReplaced
  <2> QED  BY <2>3 DEF new, c
<1>2. CASE b # "memory"
  <2> DEFINE part == Dropped(content[t], {KeyBytes(t, k)})
             c == Updated(PartCells(b, t, content[t]), k, {})
  <2>1. new = Updated(content, t, part)
    <3>1. new = SledDelete(content, t, k) \/ new = RocksdbDelete(content, t, k)  BY <1>2 DEF DeletedIn, Backends
    <3>2. /\ SledDelete(content, t, k) = Updated(content, t, part)
          /\ RocksdbDelete(content, t, k) = Updated(content, t, part)
      BY <1>0, TreeOperations
    <3> HIDE DEF new
    <3> QED  BY <3>1, <3>2
  <2>2. GoodPart(b, t, part) /\ PartCells(b, t, part) = c
    <3>1. GoodTree(t, content[t])  BY <1>0, <1>2 DEF GoodPart
    <3>2. GoodTree(t, part) /\ TreeCells(t, part) = Updated(TreeCells(t, content[t]), k, {})
      BY <1>0, <3>1, TreeDropped
    <3> HIDE DEF part
    <3> QED  BY <1>2, <3>2 DEF GoodPart, PartCells
  <2> HIDE DEF part, new, c
  <2>3. Changed(b, content, new, t, c)  BY <2>1, <2>2, PartReplaced
  <2> QED  BY <2>3 DEF new, c
<1> QED  BY <1>1, <1>2

\* A truncation empties one table and no other, in every backend.
LEMMA TruncatedGood ==
  ASSUME NEW b \in Backends, NEW ts \in SUBSET AllTables, NEW content, GoodContent(b, ts, content), NEW t \in ts
  PROVE  Changed(b, content, TruncatedIn(b, content, t), t, NoCells(t))
<1>0. t \in AllTables /\ GoodPart(b, t, content[t])  BY DEF GoodContent
<1> DEFINE new == TruncatedIn(b, content, t)
<1>1. CASE b \in {"memory", "sled"}
  <2>1. new = Updated(content, t, << >>)  BY <1>1 DEF TruncatedIn, MemoryTruncate, SledTruncate, Updated
  <2> HIDE DEF new
  <2>2. Changed(b, content, new, t, NoCells(t))  BY <1>0, <2>1, PartEmpty, PartReplaced
  <2> QED  BY <2>2 DEF new
<1>2. CASE b = "rocksdb"
  <2>1. content = [x \in DOMAIN content |-> content[x]] /\ t \in DOMAIN content /\ GoodTree(t, content[t])
    BY <1>0, <1>2 DEF GoodContent, GoodPart
  <2>2. PICK tree : RocksdbTruncate(content, t) = Updated(content, t, tree)
                    /\ GoodTree(t, tree) /\ TreeCells(t, tree) = NoCells(t)
    BY <1>0, <2>1, FamilyTruncated
  <2>3. new = Updated(content, t, tree) /\ GoodPart(b, t, tree) /\ PartCells(b, t, tree) = NoCells(t)
    BY <1>2, <2>2 DEF TruncatedIn, GoodPart, PartCells
  <2> HIDE DEF new
  <2>4. Changed(b, content, new, t, NoCells(t))  BY <2>3, PartReplaced
  <2> QED  BY <2>4 DEF new
<1> QED  BY <1>1, <1>2 DEF Backends

(* The rows of a content are those of its cells.                           *)
Views(b, ts, content) == [t \in ts |-> ViewOf(PartCells(b, t, content[t]))]
\* The rows that the iterators list are the cells that have a value.
LEMMA RowsAreViews ==
  ASSUME backend \in Backends, Tables \in SUBSET AllTables, NEW content, GoodContent(backend, Tables, content)
  PROVE  RowsOf(content) = Views(backend, Tables, content)
<1>1. ASSUME NEW t \in Tables  PROVE AsMap(IterRows(content, t)) = ViewOf(PartCells(backend, t, content[t]))
  <2>1. t \in AllTables /\ GoodPart(backend, t, content[t])  BY DEF GoodContent
  <2>2. IterRows(content, t) = PairsOf(PartCells(backend, t, content[t]))
    <3>1. CASE backend = "memory"  BY <2>1, <3>1, MemoryListed DEF IterRows, GoodPart, PartCells
    <3>2. CASE backend = "sled"  BY <2>1, <3>2, SledListed DEF IterRows, GoodPart, PartCells
    <3>3. CASE backend = "rocksdb"  BY <2>1, <3>3, RocksdbListed DEF IterRows, GoodPart, PartCells
    <3> QED  BY <3>1, <3>2, <3>3 DEF Backends
  <2>3. PartCells(backend, t, content[t]) \in CellMaps(t)  BY <2>1, PartCellsGood
  <2> QED  BY <2>2, <2>3, PairsAreView
<1> QED  BY <1>1 DEF RowsOf, Views

-----------------------------------------------------------------------------
(***************************************************************************)
(* Folds whose later steps overwrite earlier ones.                         *)
(***************************************************************************)
(* The largest of the numbers up to the next one.                          *)
LEMMA MaxTop ==
  ASSUME NEW n \in Nat, NEW H \in SUBSET (1 .. n)
  PROVE  Max(H \cup {n + 1}) = n + 1
<1> DEFINE J == H \cup {n + 1}
<1>1. J \subseteq 1 .. n + 1  OBVIOUS
<1>2. IsFiniteSet(1 .. n + 1)  BY FS_Interval
<1>3. IsFiniteSet(J) /\ J \subseteq Int /\ J # {}
  <2>1. J \in SUBSET (1 .. n + 1) /\ J # {} /\ J \subseteq Int  BY <1>1
  <2> HIDE DEF J
  <2>2. IsFiniteSet(J)  BY <1>2, <2>1, FS_Subset
  <2> QED  BY <2>1, <2>2
<1>4. n + 1 \in J  OBVIOUS
<1> HIDE DEF J
<1>5. Max(J) \in J /\ Max(J) >= n + 1  BY <1>3, <1>4, MaxIsElement
<1>6. Max(J) \in 1 .. n + 1  BY <1>1, <1>5
<1>7. Max(J) = n + 1  BY <1>5, <1>6
<1> QED  BY <1>7 DEF J

(* c[T] is the cell after the steps in T: a step in H sets it.             *)
Overwrites(S, H, w, c) ==
  \A T \in SUBSET S : T # {} => c[T] = IF Max(T) \in H THEN w[Max(T)] ELSE c[T \ {Max(T)}]

(* The last step that hits a cell decides.                                 *)
LEMMA LastDecides ==
  ASSUME NEW S, IsFiniteSet(S), S \subseteq Int, NEW H \in SUBSET S, NEW w, NEW c,
         Overwrites(S, H, w, c)
  PROVE  c[S] = IF H = {} THEN c[{}] ELSE w[Max(H)]
<1> DEFINE d == [T \in SUBSET S |-> IF c[T] = (IF T \cap H = {} THEN c[{}] ELSE w[Max(T \cap H)]) THEN 0 ELSE 1]
           Z == {0}
<1>0. IsFiniteSet(S) /\ S \subseteq Int  OBVIOUS
<1>1. d[{}] \in Z  OBVIOUS
<1>2. ASSUME NEW T \in SUBSET S, T # {}, d[T \ {Max(T)}] \in Z  PROVE d[T] \in Z
  <2> DEFINE m == Max(T)
             U == T \ {m}
  <2>1. IsFiniteSet(T) /\ T \subseteq Int  BY FS_Subset
  <2>2. m \in T /\ \A y \in T : m >= y  BY <1>2, <2>1, MaxIsElement
  <2>3. c[U] = IF U \cap H = {} THEN c[{}] ELSE w[Max(U \cap H)]
    <3>1. U \in SUBSET S /\ d[U] = 0  BY <1>2
    <3> HIDE DEF U
    <3> QED  BY <3>1
  <2>4. c[T] = IF m \in H THEN w[m] ELSE c[U]  BY <1>2 DEF Overwrites
  <2> HIDE DEF m, U
  <2>5. CASE m \in H
    <3>1. T \cap H # {} /\ T \cap H \subseteq T  BY <2>2, <2>5
    <3>2. IsFiniteSet(T \cap H) /\ T \cap H \subseteq Int  BY <2>1, <3>1, FS_Subset
    <3>3. Max(T \cap H) \in T \cap H /\ Max(T \cap H) >= m
      <4> DEFINE J == T \cap H
      <4>1. J # {} /\ IsFiniteSet(J) /\ J \subseteq Int /\ m \in J  BY <2>2, <2>5, <3>1, <3>2
      <4> HIDE DEF J
      <4>2. Max(J) \in J /\ Max(J) >= m  BY <4>1, MaxIsElement
      <4> QED  BY <4>2 DEF J
    <3>4. m >= Max(T \cap H) /\ m \in Int /\ Max(T \cap H) \in Int  BY <2>1, <2>2, <3>3
    <3>5. Max(T \cap H) = m  BY <3>3, <3>4
    <3>6. c[T] = w[m]  BY <2>4, <2>5
    <3> QED  BY <3>1, <3>5, <3>6
  <2>6. CASE m \notin H
    <3>1. T \cap H = U \cap H  BY <2>6 DEF U
    <3>2. c[T] = c[U]  BY <2>4, <2>6
    <3> QED  BY <2>3, <3>1, <3>2
  <2> QED  BY <2>5, <2>6
<1>3. \A T \in SUBSET S : d[T] \in Z
  <2> HIDE DEF d, Z
  <2> QED  BY ONLY <1>0, <1>1, <1>2, FoldStays
<1>4. S \in SUBSET S /\ S \cap H = H  OBVIOUS
<1>5. d[S] = 0  BY <1>3, <1>4
<1>6. c[S] = IF S \cap H = {} THEN c[{}] ELSE w[Max(S \cap H)]  BY <1>4, <1>5
<1> QED  BY <1>4, <1>6

(* A fold of steps in X from X stays in X.                                 *)
LEMMA FoldRuns ==
  ASSUME NEW X, NEW E, NEW base \in X, NEW step, \A x \in X, e \in E : step[<<x, e>>] \in X,
         NEW s \in Seq(E)
  PROVE  \E g : Folds(step, base, s, DOMAIN s, g) /\ \A T \in SUBSET (DOMAIN s) : g[T] \in X
<1> DEFINE S == DOMAIN s
<1>0. Len(s) \in Nat /\ S = 1 .. Len(s)  OBVIOUS
<1>1. IsFiniteSet(S) /\ S \subseteq Int /\ \A i \in S : s[i] \in E
  <2>1. IsFiniteSet(1 .. Len(s))
    <3> HIDE DEF S
    <3> QED  BY <1>0, FS_Interval
  <2>2. 1 .. Len(s) \subseteq Int /\ \A i \in 1 .. Len(s) : s[i] \in E  BY <1>0
  <2> QED  BY <1>0, <2>1, <2>2
<1>2. PICK g : Folds(step, base, s, S, g)
  <2> HIDE DEF S
  <2> QED  BY <1>1, FoldExists
<1> HIDE DEF S
<1>3. \A T \in SUBSET S : g[T] \in X
  <2>1. g[{}] \in X  BY <1>2 DEF Folds
  <2>2. ASSUME NEW T \in SUBSET S, T # {}, g[T \ {Max(T)}] \in X  PROVE g[T] \in X
    <3>1. g[T] = step[<<g[T \ {Max(T)}], s[Max(T)]>>]  BY <1>2, <2>2 DEF Folds
    <3>2. Max(T) \in S
      <4>1. IsFiniteSet(T) /\ T \subseteq Int  BY <1>1, FS_Subset
      <4> QED  BY <2>2, <4>1, MaxIsElement
    <3>3. s[Max(T)] \in E  BY <1>1, <3>2
    <3> QED  BY <2>2, <3>1, <3>3
  <2> QED  BY ONLY <1>1, <2>1, <2>2, FoldStays
<1> QED  BY <1>2, <1>3 DEF S

-----------------------------------------------------------------------------
(***************************************************************************)
(* Batches.                                                                *)
(***************************************************************************)
Gone == << "gone" >>

MemoryOps(t) ==
  [op : {"insert"}, key : Keys[t], value : StoredValues(t)] \cup [op : {"delete"}, key : Keys[t], value : {Unit}]
GoodMemoryBatch(ts, bt) == bt = [t \in ts |-> bt[t]] /\ \A t \in ts : bt[t] \in Seq(MemoryOps(t))

(* What the batch does to a cell: nothing, or the last operation on it.    *)
MemoryHits(bt, t, k) == {i \in DOMAIN bt[t] : bt[t][i].key = k}
MemoryChange(change) == IF change.op = "insert" THEN change.value ELSE Gone
After(cell, change) == IF change = Gone THEN {} ELSE {change}

(* A deletion is no value.                                                 *)
LEMMA GoneIsNoValue == ASSUME NEW t, NEW v \in StoredValues(t)  PROVE v # Gone
<1>1. << >> # <<"gone">>  OBVIOUS
<1>2. <<"gone">> \notin Values  BY StorageAssumption
<1> QED  BY <1>1, <1>2 DEF StoredValues, Unit, Gone

(* g applies the operations of s to a table.                               *)
MemoryFolds(t, base, s, S, g) ==
  g = [T \in SUBSET S |-> IF T = {} THEN base ELSE MemoryApply(t, g[T \ {Max(T)}], s[Max(T)])]

MemoryFold(t, base, s) == (CHOOSE g : MemoryFolds(t, base, s, DOMAIN s, g))[DOMAIN s]

\* A batch of the memory is applied entry by entry, table by table.
LEMMA MemoryCommitIsFold ==
  ASSUME NEW content, NEW bt, NEW t \in Tables
  PROVE  MemoryBatchCommit(content, bt)[t] = MemoryFold(t, content[t], bt[t])
BY DEF MemoryBatchCommit, FoldLeft, MapThenFoldSet, MemoryFolds, MemoryFold

(* The set of the good tables.                                             *)
TableSpace(t) ==
  {table \in UNION {[D -> Seq(UNION {RightsOf(t, l) : l \in D}) \cup StoredValues(t)]
                      : D \in SUBSET ({k[1] : k \in Keys[t]} \cup Keys[t])} : GoodTable(t, table)}
\* The tables of the memory are functions on a set of their own.
LEMMA TableSpaceIs ==
  ASSUME NEW t, NEW table
  PROVE  table \in TableSpace(t) <=> GoodTable(t, table)
<1> SUFFICES ASSUME GoodTable(t, table)
             PROVE  table \in [DOMAIN table -> Seq(UNION {RightsOf(t, l) : l \in DOMAIN table}) \cup StoredValues(t)]
                    /\ DOMAIN table \subseteq {k[1] : k \in Keys[t]} \cup Keys[t]
  BY DEF TableSpace
<1>1. table = [x \in DOMAIN table |-> table[x]]  BY DEF GoodTable
<1>2. CASE t \in Relations
  <2>1. ASSUME NEW l \in DOMAIN table  PROVE table[l] \in Seq(UNION {RightsOf(t, x) : x \in DOMAIN table})
    <3>1. table[l] \in Seq(RightsOf(t, l))  BY <1>2 DEF GoodTable, GoodList
    <3>2. RightsOf(t, l) \subseteq UNION {RightsOf(t, x) : x \in DOMAIN table}  OBVIOUS
    <3> QED  BY <3>1, <3>2
  <2> QED  BY <1>1, <1>2, <2>1 DEF GoodTable
<1>3. CASE t \notin Relations  BY <1>1, <1>3 DEF GoodTable
<1> QED  BY <1>2, <1>3

(* One operation of a batch on a table.                                    *)
LEMMA MemoryApplied ==
  ASSUME NEW t \in AllTables, NEW table, GoodTable(t, table), NEW change \in MemoryOps(t)
  PROVE  /\ GoodTable(t, MemoryApply(t, table, change))
         /\ TableCells(t, MemoryApply(t, table, change))
              = Updated(TableCells(t, table), change.key, After({}, MemoryChange(change)))
<1> DEFINE one == [x \in {t} |-> table]
<1>1. one[t] = table /\ DOMAIN one = {t}  OBVIOUS
<1>2. ASSUME NEW k, NEW v
      PROVE  MemoryInsert(one, t, k, v)[t] = TableInserted(t, table, k, v)
             /\ MemoryDelete(one, t, k)[t] = TableDeleted(t, table, k)
  BY DEF MemoryInsert, MemoryDelete, TableInserted, TableDeleted
<1>3. MemoryApply(t, table, change) = IF change.op = "insert" THEN MemoryInsert(one, t, change.key, change.value)[t]
                                      ELSE MemoryDelete(one, t, change.key)[t]
  BY DEF MemoryApply
<1> HIDE DEF one
<1>4. CASE change.op = "insert"
  <2>1. change.key \in Keys[t] /\ change.value \in StoredValues(t)  BY <1>4 DEF MemoryOps
  <2>2. MemoryApply(t, table, change) = TableInserted(t, table, change.key, change.value)  BY <1>2, <1>3, <1>4
  <2>3. After({}, MemoryChange(change)) = {change.value}  BY <1>4, <2>1, GoneIsNoValue DEF After, MemoryChange
  <2> QED  BY <2>1, <2>2, <2>3, TableInsertedGood
<1>5. CASE change.op # "insert"
  <2>1. change.key \in Keys[t]  BY <1>5 DEF MemoryOps
  <2>2. MemoryApply(t, table, change) = TableDeleted(t, table, change.key)  BY <1>2, <1>3, <1>5
  <2>3. After({}, MemoryChange(change)) = {}  BY <1>5 DEF After, MemoryChange
  <2> QED  BY <2>1, <2>2, <2>3, TableDeletedGood
<1> QED  BY <1>4, <1>5

(* The commit of a batch in memory: in every cell the last operation on    *)
(* its key decides.                                                        *)
LEMMA MemoryCommitted ==
  ASSUME NEW t \in AllTables, t \in Tables, NEW content, GoodTable(t, content[t]), NEW bt, bt[t] \in Seq(MemoryOps(t))
  PROVE  /\ GoodTable(t, MemoryBatchCommit(content, bt)[t])
         /\ \A k \in Keys[t] :
              TableCells(t, MemoryBatchCommit(content, bt)[t])[k]
                = IF MemoryHits(bt, t, k) = {} THEN TableCells(t, content[t])[k]
                  ELSE After({}, MemoryChange(bt[t][Max(MemoryHits(bt, t, k))]))
<1> DEFINE X == TableSpace(t)
           E == MemoryOps(t)
           step == [q \in X \X E |-> MemoryApply(t, q[1], q[2])]
<1>0. PICK s \in Seq(E) : s = bt[t]  OBVIOUS
<1>a. PICK base \in X : base = content[t]  BY TableSpaceIs
<1> DEFINE S == DOMAIN s
<1>1. base \in X  OBVIOUS
<1>2. \A x \in X, e \in E : step[<<x, e>>] = MemoryApply(t, x, e) /\ MemoryApply(t, x, e) \in X
  BY TableSpaceIs, MemoryApplied
<1> HIDE DEF X, E, step
<1>3. PICK g : Folds(step, base, s, S, g) /\ \A T \in SUBSET S : g[T] \in X
  <2>1. \A x \in X, e \in E : step[<<x, e>>] \in X  BY <1>2
  <2> QED  BY <1>1, <2>1, FoldRuns
<1>4. IsFiniteSet(S) /\ S \subseteq Int /\ \A i \in S : s[i] \in E  BY FS_Interval
<1>5. \A T \in SUBSET S : T # {} => Max(T) \in T /\ Max(T) \in S /\ T \ {Max(T)} \in SUBSET S
  <2> SUFFICES ASSUME NEW T \in SUBSET S, T # {}  PROVE Max(T) \in T  OBVIOUS
  <2>1. IsFiniteSet(T) /\ T \subseteq Int  BY <1>4, FS_Subset
  <2> QED  BY <2>1, MaxIsElement
<1> HIDE DEF S
<1>6. MemoryFolds(t, base, s, S, g)
  <2>1. ASSUME NEW T \in SUBSET S
        PROVE  (IF T = {} THEN base ELSE step[<<g[T \ {Max(T)}], s[Max(T)]>>])
                 = (IF T = {} THEN base ELSE MemoryApply(t, g[T \ {Max(T)}], s[Max(T)]))
    <3>1. CASE T = {}  BY <3>1
    <3>2. CASE T # {}
      <4>1. g[T \ {Max(T)}] \in X /\ s[Max(T)] \in E  BY <1>3, <1>4, <1>5, <3>2
      <4> QED  BY <1>2, <3>2, <4>1
    <3> QED  BY <3>1, <3>2
  <2> QED  BY <1>3, <2>1 DEF Folds, MemoryFolds
<1> DEFINE h == CHOOSE f : MemoryFolds(t, base, s, S, f)
<1>7. MemoryFolds(t, base, s, S, h)  BY <1>6
<1>8. MemoryBatchCommit(content, bt)[t] = h[S]
  <2>1. MemoryBatchCommit(content, bt)[t] = MemoryFold(t, base, s)  BY <1>0, <1>a, MemoryCommitIsFold
  <2>2. MemoryFold(t, base, s) = h[S]  BY DEF MemoryFold, S
  <2> QED  BY <2>1, <2>2
<1> HIDE DEF h
<1>9. h[{}] = base  BY <1>7 DEF MemoryFolds
<1>10. \A T \in SUBSET S : T # {} => h[T] = MemoryApply(t, h[T \ {Max(T)}], s[Max(T)])  BY <1>7 DEF MemoryFolds
<1>11. \A T \in SUBSET S : h[T] \in X
  <2>1. h[{}] \in X  BY <1>1, <1>9
  <2>2. ASSUME NEW T \in SUBSET S, T # {}, h[T \ {Max(T)}] \in X  PROVE h[T] \in X
    <3>1. s[Max(T)] \in E  BY <1>4, <1>5, <2>2
    <3> QED  BY <1>2, <1>10, <2>2, <3>1
  <2> QED  BY ONLY <1>4, <2>1, <2>2, FoldStays
<1>12. GoodTable(t, h[S])  BY <1>11, TableSpaceIs DEF X
<1>13. ASSUME NEW k \in Keys[t]
       PROVE  TableCells(t, h[S])[k] = IF MemoryHits(bt, t, k) = {} THEN TableCells(t, base)[k]
                                       ELSE After({}, MemoryChange(s[Max(MemoryHits(bt, t, k))]))
  <2> DEFINE c == [T \in SUBSET S |-> TableCells(t, h[T])[k]]
             w == [i \in S |-> After({}, MemoryChange(s[i]))]
             H == MemoryHits(bt, t, k)
  <2>1. H \in SUBSET S /\ \A i \in S : i \in H <=> s[i].key = k  BY <1>0 DEF MemoryHits, S
  <2>2. ASSUME NEW T \in SUBSET S, T # {}
        PROVE  c[T] = IF Max(T) \in H THEN w[Max(T)] ELSE c[T \ {Max(T)}]
    <3> DEFINE m == Max(T)
               U == T \ {m}
    <3>1. m \in S /\ U \in SUBSET S /\ s[m] \in MemoryOps(t)  BY <1>4, <1>5, <2>2 DEF E
    <3>2. h[T] = MemoryApply(t, h[U], s[m]) /\ GoodTable(t, h[U])  BY <1>10, <1>11, <2>2, <3>1, TableSpaceIs DEF X
    <3> HIDE DEF m, U
    <3>3. TableCells(t, h[T]) = Updated(TableCells(t, h[U]), s[m].key, After({}, MemoryChange(s[m])))
      BY <3>1, <3>2, MemoryApplied
    <3>4. DOMAIN TableCells(t, h[U]) = Keys[t]  BY DEF TableCells
    <3>5. TableCells(t, h[T])[k] = IF s[m].key = k THEN After({}, MemoryChange(s[m])) ELSE TableCells(t, h[U])[k]
      BY <3>3, <3>4 DEF Updated
    <3>6. c[T] = IF m \in H THEN w[m] ELSE c[U]  BY <2>1, <3>1, <3>5
    <3> QED  BY <3>6 DEF m, U
  <2>3. c[S] = TableCells(t, h[S])[k] /\ c[{}] = TableCells(t, base)[k]  BY <1>9
  <2>4. H # {} => Max(H) \in S  BY <1>5, <2>1
  <2>5. H # {} => w[Max(H)] = After({}, MemoryChange(s[Max(H)]))  BY <2>4
  <2> HIDE DEF c, w, H
  <2>6. Overwrites(S, H, w, c)  BY <2>2 DEF Overwrites
  <2>7. c[S] = IF H = {} THEN c[{}] ELSE w[Max(H)]  BY <1>4, <2>1, <2>6, LastDecides
  <2> QED  BY <2>3, <2>5, <2>7 DEF H
<1> QED  BY <1>0, <1>a, <1>8, <1>12, <1>13

-----------------------------------------------------------------------------
(* The operations of a batch of RocksDB.                                   *)
RocksdbOps(ts) ==
  {c \in [op : {"put", "delete"}, table : ts, bytes : Seq(Bytes), value : (UNION {StoredValues(t) : t \in ts}) \cup {Unit}] :
     /\ \E k \in Keys[c.table] : c.bytes = KeyBytes(c.table, k)
     /\ c.op = "put" => c.value \in StoredValues(c.table)}

RocksdbHits(bt, t, k) == {i \in DOMAIN bt : bt[i].table = t /\ bt[i].bytes = KeyBytes(t, k)}
RocksdbChange(change) == IF change.op = "put" THEN change.value ELSE Gone

(* The set of the good contents of RocksDB.                                *)
FamilySpace(ts) ==
  {f \in [ts -> UNION {[D -> UNION {{PackValue(v) : v \in StoredValues(t)} : t \in ts}] : D \in SUBSET Seq(Bytes)}] :
     GoodContent("rocksdb", ts, f)}

(* It has all of them.                                                     *)
LEMMA FamilySpaceIs ==
  ASSUME NEW ts \in SUBSET AllTables, NEW content
  PROVE  content \in FamilySpace(ts) <=> GoodContent("rocksdb", ts, content)
<1> DEFINE V == UNION {{PackValue(v) : v \in StoredValues(t)} : t \in ts}
<1> SUFFICES ASSUME GoodContent("rocksdb", ts, content)
             PROVE  content \in [ts -> UNION {[D -> V] : D \in SUBSET Seq(Bytes)}]
  BY DEF FamilySpace
<1>1. content = [t \in ts |-> content[t]] /\ \A t \in ts : GoodTree(t, content[t])  BY DEF GoodContent, GoodPart
<1>2. ASSUME NEW t \in ts  PROVE \E D \in SUBSET Seq(Bytes) : content[t] \in [D -> V]
  <2> DEFINE tree == content[t]
             D == DOMAIN tree
  <2>1. GoodTree(t, tree) /\ t \in AllTables  BY <1>1
  <2> HIDE DEF tree
  <2>2. tree = [b \in D |-> tree[b]]  BY <2>1 DEF GoodTree
  <2>3. D \in SUBSET Seq(Bytes)  BY <2>1, TableKeys DEF GoodTree
  <2>4. \A b \in D : tree[b] \in V  BY <2>1 DEF GoodTree
  <2> HIDE DEF D, V
  <2>5. tree \in [D -> V]  BY <2>2, <2>4
  <2> QED  BY <2>3, <2>5 DEF tree
<1> HIDE DEF V
<1>3. \A t \in ts : content[t] \in UNION {[D -> V] : D \in SUBSET Seq(Bytes)}  BY <1>2
<1> QED  BY <1>1, <1>3

(* The cells of a part after an operation on one of them.                  *)
CellAfter(b, old, new, t, k, hit, w) ==
  PartCells(b, t, new[t])[k] = IF hit THEN w ELSE PartCells(b, t, old[t])[k]

(* One operation of a batch changes the cell of its key.                   *)
LEMMA RocksdbApplied ==
  ASSUME NEW ts \in SUBSET AllTables, NEW content, GoodContent("rocksdb", ts, content), NEW change \in RocksdbOps(ts)
  PROVE  /\ GoodContent("rocksdb", ts, RocksdbApply(content, change))
         /\ \A t \in ts : \A k \in Keys[t] :
              CellAfter("rocksdb", content, RocksdbApply(content, change), t, k,
                        change.table = t /\ change.bytes = KeyBytes(t, k), After({}, RocksdbChange(change)))
<1> DEFINE new == RocksdbApply(content, change)
           w == After({}, RocksdbChange(change))
<1>1. PICK u \in ts : u = change.table /\ u \in AllTables  BY DEF RocksdbOps
<1>2. PICK x \in Keys[u] : change.bytes = KeyBytes(u, x)  BY <1>1 DEF RocksdbOps
<1>3. "rocksdb" \in Backends  BY DEF Backends
<1>4. Changed("rocksdb", content, new, u, Updated(PartCells("rocksdb", u, content[u]), x, w))
  <2>1. CASE change.op = "put"
    <3>1. change.value \in StoredValues(u)  BY <1>1, <2>1 DEF RocksdbOps
    <3>2. w = {change.value}  BY <2>1, <3>1, GoneIsNoValue DEF After, RocksdbChange
    <3>3. new = Updated(content, u, Stored(content[u], KeyBytes(u, x), PackValue(change.value)))
      BY <1>1, <1>2, <2>1 DEF RocksdbApply, Put, Updated
    <3>4. new = InsertedIn("rocksdb", content, u, x, change.value)
      <4> DEFINE v == change.value
      <4>1. new = Updated(content, u, Stored(content[u], KeyBytes(u, x), PackValue(v))) /\ u \in AllTables  BY <1>1, <3>3
      <4> HIDE DEF v, new
      <4>0. RocksdbInsert(content, u, x, v) = Updated(content, u, Stored(content[u], KeyBytes(u, x), PackValue(v)))
        BY <4>1, TreeOperations
      <4>2. new = RocksdbInsert(content, u, x, v)  BY <4>0, <4>1
      <4>3. new = InsertedIn("rocksdb", content, u, x, v)  BY <4>2 DEF InsertedIn
      <4> QED  BY <4>3 DEF v
    <3> HIDE DEF new, w
    <3> QED  BY <1>3, <3>1, <3>2, <3>4, InsertedGood
  <2>2. CASE change.op # "put"
    <3>2. w = {}  BY <2>2 DEF After, RocksdbChange
    <3>3. new = Updated(content, u, Dropped(content[u], {KeyBytes(u, x)}))
      BY <1>1, <1>2, <2>2 DEF RocksdbApply, Erase, Updated
    <3>4. new = DeletedIn("rocksdb", content, u, x)  BY <1>1, <3>3, TreeOperations DEF DeletedIn
    <3> HIDE DEF new, w
    <3> QED  BY <1>3, <3>2, <3>4, DeletedGood
  <2> QED  BY <2>1, <2>2
<1> DEFINE c == Updated(PartCells("rocksdb", u, content[u]), x, w)
<1> HIDE DEF new, w, c
<1>5. /\ GoodContent("rocksdb", ts, new) /\ PartCells("rocksdb", u, new[u]) = c
      /\ \A t \in ts \ {u} : new[t] = content[t]
  BY <1>4, ChangedGood DEF c
<1>6. ASSUME NEW t \in ts, NEW k \in Keys[t]
      PROVE  CellAfter("rocksdb", content, new, t, k, change.table = t /\ change.bytes = KeyBytes(t, k), w)
  <2>1. CASE t # u  BY <1>1, <1>5, <2>1 DEF CellAfter
  <2>2. CASE t = u
    <3>1. change.bytes = KeyBytes(t, k) <=> k = x  BY <1>1, <1>2, <2>2, TableKeys
    <3>2. PartCells("rocksdb", u, content[u]) \in CellMaps(u)  BY <1>1, PartCellsGood DEF GoodContent
    <3>3. DOMAIN PartCells("rocksdb", u, content[u]) = Keys[u]  BY <3>2 DEF CellMaps
    <3>4. c[k] = IF k = x THEN w ELSE PartCells("rocksdb", u, content[u])[k]  BY <2>2, <3>3 DEF c, Updated
    <3> QED  BY <1>1, <1>5, <2>2, <3>1, <3>4 DEF CellAfter
  <2> QED  BY <2>1, <2>2
<1> QED  BY <1>5, <1>6 DEF new, w

(* g applies the operations of s.                                          *)
RocksdbFolds(base, s, S, g) ==
  g = [T \in SUBSET S |-> IF T = {} THEN base ELSE RocksdbApply(g[T \ {Max(T)}], s[Max(T)])]
RocksdbFold(base, s) == (CHOOSE g : RocksdbFolds(base, s, DOMAIN s, g))[DOMAIN s]

(* The commit is the fold of the operations.                               *)
LEMMA RocksdbCommitIsFold ==
  ASSUME NEW content, NEW bt
  PROVE  RocksdbBatchCommit(content, bt) = RocksdbFold(content, bt)
BY DEF RocksdbBatchCommit, FoldLeft, MapThenFoldSet, RocksdbFolds, RocksdbFold

(* The commit of a batch in RocksDB: in every cell the last operation on   *)
(* its key decides.                                                        *)
LEMMA RocksdbCommitted ==
  ASSUME NEW ts \in SUBSET AllTables, NEW content, GoodContent("rocksdb", ts, content), NEW bt \in Seq(RocksdbOps(ts))
  PROVE  /\ GoodContent("rocksdb", ts, RocksdbBatchCommit(content, bt))
         /\ \A t \in ts : \A k \in Keys[t] :
              CellAfter("rocksdb", content, RocksdbBatchCommit(content, bt), t, k,
                        RocksdbHits(bt, t, k) # {}, After({}, RocksdbChange(bt[Max(RocksdbHits(bt, t, k))])))
<1> DEFINE X == FamilySpace(ts)
           E == RocksdbOps(ts)
           step == [q \in X \X E |-> RocksdbApply(q[1], q[2])]
           S == DOMAIN bt
<1>1. content \in X  BY FamilySpaceIs
<1>2. \A x \in X, e \in E : step[<<x, e>>] = RocksdbApply(x, e) /\ RocksdbApply(x, e) \in X
  BY FamilySpaceIs, RocksdbApplied
<1>a. bt \in Seq(E)  OBVIOUS
<1> HIDE DEF X, E, step
<1>3. PICK g : Folds(step, content, bt, S, g) /\ \A T \in SUBSET S : g[T] \in X
  <2>1. \A x \in X, e \in E : step[<<x, e>>] \in X  BY <1>2
  <2> QED  BY <1>1, <1>a, <2>1, FoldRuns
<1>4. IsFiniteSet(S) /\ S \subseteq Int /\ \A i \in S : bt[i] \in E  BY <1>a, FS_Interval
<1>5. \A T \in SUBSET S : T # {} => Max(T) \in T /\ Max(T) \in S /\ T \ {Max(T)} \in SUBSET S
  <2> SUFFICES ASSUME NEW T \in SUBSET S, T # {}  PROVE Max(T) \in T  OBVIOUS
  <2>1. IsFiniteSet(T) /\ T \subseteq Int  BY <1>4, FS_Subset
  <2> QED  BY <2>1, MaxIsElement
<1> HIDE DEF S
<1>6. RocksdbFolds(content, bt, S, g)
  <2>1. ASSUME NEW T \in SUBSET S
        PROVE  (IF T = {} THEN content ELSE step[<<g[T \ {Max(T)}], bt[Max(T)]>>])
                 = (IF T = {} THEN content ELSE RocksdbApply(g[T \ {Max(T)}], bt[Max(T)]))
    <3>1. CASE T = {}  BY <3>1
    <3>2. CASE T # {}
      <4>1. g[T \ {Max(T)}] \in X /\ bt[Max(T)] \in E  BY <1>3, <1>4, <1>5, <3>2
      <4> QED  BY <1>2, <3>2, <4>1
    <3> QED  BY <3>1, <3>2
  <2> QED  BY <1>3, <2>1 DEF Folds, RocksdbFolds
<1> DEFINE h == CHOOSE f : RocksdbFolds(content, bt, S, f)
<1>7. RocksdbFolds(content, bt, S, h)  BY <1>6
<1>8. RocksdbBatchCommit(content, bt) = h[S]
  <2>1. RocksdbBatchCommit(content, bt) = RocksdbFold(content, bt)  BY RocksdbCommitIsFold
  <2>2. RocksdbFold(content, bt) = h[S]  BY DEF RocksdbFold, S
  <2> QED  BY <2>1, <2>2
<1> HIDE DEF h
<1>9. h[{}] = content  BY <1>7 DEF RocksdbFolds
<1>10. \A T \in SUBSET S : T # {} => h[T] = RocksdbApply(h[T \ {Max(T)}], bt[Max(T)])  BY <1>7 DEF RocksdbFolds
<1>11. \A T \in SUBSET S : h[T] \in X
  <2>1. h[{}] \in X  BY <1>1, <1>9
  <2>2. ASSUME NEW T \in SUBSET S, T # {}, h[T \ {Max(T)}] \in X  PROVE h[T] \in X
    <3>1. bt[Max(T)] \in E  BY <1>4, <1>5, <2>2
    <3> QED  BY <1>2, <1>10, <2>2, <3>1
  <2> QED  BY ONLY <1>4, <2>1, <2>2, FoldStays
<1>12. GoodContent("rocksdb", ts, h[S])  BY <1>11, FamilySpaceIs DEF X
<1>13. ASSUME NEW t \in ts, NEW k \in Keys[t]
       PROVE  CellAfter("rocksdb", content, h[S], t, k, RocksdbHits(bt, t, k) # {},
                        After({}, RocksdbChange(bt[Max(RocksdbHits(bt, t, k))])))
  <2> DEFINE c == [T \in SUBSET S |-> PartCells("rocksdb", t, h[T][t])[k]]
             w == [i \in S |-> After({}, RocksdbChange(bt[i]))]
             H == RocksdbHits(bt, t, k)
  <2>1. H \in SUBSET S /\ \A i \in S : i \in H <=> bt[i].table = t /\ bt[i].bytes = KeyBytes(t, k)
    BY DEF RocksdbHits, S
  <2>2. ASSUME NEW T \in SUBSET S, T # {}
        PROVE  c[T] = IF Max(T) \in H THEN w[Max(T)] ELSE c[T \ {Max(T)}]
    <3> DEFINE m == Max(T)
               U == T \ {m}
    <3>1. m \in S /\ U \in SUBSET S /\ bt[m] \in RocksdbOps(ts)  BY <1>4, <1>5, <2>2 DEF E
    <3>2. h[T] = RocksdbApply(h[U], bt[m]) /\ GoodContent("rocksdb", ts, h[U])
      BY <1>10, <1>11, <2>2, <3>1, FamilySpaceIs DEF X
    <3> HIDE DEF m, U
    <3>3. CellAfter("rocksdb", h[U], h[T], t, k, bt[m].table = t /\ bt[m].bytes = KeyBytes(t, k),
                    After({}, RocksdbChange(bt[m])))
      BY <3>1, <3>2, RocksdbApplied
    <3>6. c[T] = IF m \in H THEN w[m] ELSE c[U]  BY <2>1, <3>1, <3>3 DEF CellAfter
    <3> QED  BY <3>6 DEF m, U
  <2>3. c[S] = PartCells("rocksdb", t, h[S][t])[k] /\ c[{}] = PartCells("rocksdb", t, content[t])[k]  BY <1>9
  <2>4. H # {} => Max(H) \in S  BY <1>5, <2>1
  <2>5. H # {} => w[Max(H)] = After({}, RocksdbChange(bt[Max(H)]))  BY <2>4
  <2> HIDE DEF c, w, H
  <2>6. Overwrites(S, H, w, c)  BY <2>2 DEF Overwrites
  <2>7. c[S] = IF H = {} THEN c[{}] ELSE w[Max(H)]  BY <1>4, <2>1, <2>6, LastDecides
  <2> QED  BY <2>3, <2>5, <2>7 DEF H, CellAfter
<1> QED  BY <1>8, <1>12, <1>13

-----------------------------------------------------------------------------
(* A batch of sled: for the trees it touches, the bytes of keys with the   *)
(* value to insert or the mark of a removal.                               *)
GoodSledChanges(t, changes) ==
  /\ changes = [x \in DOMAIN changes |-> changes[x]] /\ IsFiniteSet(DOMAIN changes)
  /\ \A x \in DOMAIN changes : /\ \E k \in Keys[t] : x = KeyBytes(t, k)
                               /\ changes[x] = Removed \/ \E v \in StoredValues(t) : changes[x] = PackValue(v)
GoodSledBatch(ts, bt) ==
  /\ bt = [t \in DOMAIN bt |-> bt[t]] /\ DOMAIN bt \subseteq ts
  /\ \A t \in DOMAIN bt : GoodSledChanges(t, bt[t])

SledHits(bt, t, k) == IF t \in DOMAIN bt THEN DOMAIN bt[t] \cap {KeyBytes(t, k)} ELSE {}
SledChange(change) == IF change = Removed THEN Gone ELSE UnpackValue(change)

(* The mark of a removal is no packed value.                               *)
LEMMA RemovedIsNoValue == \A v : PackValue(v) # Removed
<1>1. \A v : Len(<<"packed", v>>) = 2  OBVIOUS
<1>2. Len(<<"removed">>) = 1  OBVIOUS
<1>3. \A v : <<"packed", v>> # <<"removed">>  BY <1>1, <1>2
<1> QED  BY <1>3 DEF PackValue, Removed

(* A tree after the changes of a batch.                                    *)
TreeChanged(tree, changes) ==
  LET removed == {x \in DOMAIN changes : changes[x] = Removed}
  IN  [b \in (DOMAIN tree \cup DOMAIN changes) \ removed |-> IF b \in DOMAIN changes THEN changes[b] ELSE tree[b]]

(* In every cell the change of its key decides.                            *)
LEMMA TreeChangedGood ==
  ASSUME NEW t \in AllTables, NEW tree, GoodTree(t, tree), NEW changes, GoodSledChanges(t, changes)
  PROVE  /\ GoodTree(t, TreeChanged(tree, changes))
         /\ \A k \in Keys[t] :
              TreeCells(t, TreeChanged(tree, changes))[k]
                = IF KeyBytes(t, k) \in DOMAIN changes THEN After({}, SledChange(changes[KeyBytes(t, k)]))
                  ELSE TreeCells(t, tree)[k]
<1> DEFINE new == TreeChanged(tree, changes)
           removed == {x \in DOMAIN changes : changes[x] = Removed}
           D == (DOMAIN tree \cup DOMAIN changes) \ removed
<1>1. /\ DOMAIN new = D /\ new = [b \in DOMAIN new |-> new[b]]
      /\ \A b \in D : new[b] = IF b \in DOMAIN changes THEN changes[b] ELSE tree[b]
  BY DEF TreeChanged
<1>2. IsFiniteSet(D)
  <2>1. IsFiniteSet(DOMAIN tree \cup DOMAIN changes)  BY FS_Union DEF GoodTree, GoodSledChanges
  <2>2. D \subseteq DOMAIN tree \cup DOMAIN changes  OBVIOUS
  <2> QED  BY <2>1, <2>2, FS_Subset
<1>a. \A b : b \in D <=> (b \in DOMAIN tree \/ b \in DOMAIN changes) /\ ~(b \in DOMAIN changes /\ changes[b] = Removed)
  OBVIOUS
<1> HIDE DEF new, D
<1>3. GoodTree(t, new)
  <2>1. \A b \in D : \E k \in Keys[t] : b = KeyBytes(t, k)  BY <1>a DEF GoodTree, GoodSledChanges
  <2>2. \A b \in D : \E v \in StoredValues(t) : new[b] = PackValue(v)  BY <1>1, <1>a DEF GoodTree, GoodSledChanges
  <2> QED  BY <1>1, <1>2, <2>1, <2>2 DEF GoodTree
<1>4. ASSUME NEW k \in Keys[t]
      PROVE  TreeCells(t, new)[k] = IF KeyBytes(t, k) \in DOMAIN changes THEN After({}, SledChange(changes[KeyBytes(t, k)]))
                                    ELSE TreeCells(t, tree)[k]
  <2> DEFINE b == KeyBytes(t, k)
  <2>1. TreeCells(t, new)[k] = SledGet(new, b) /\ TreeCells(t, tree)[k] = SledGet(tree, b)  BY DEF TreeCells
  <2> HIDE DEF b
  <2>2. CASE b \notin DOMAIN changes
    <3>1. b \in DOMAIN new <=> b \in DOMAIN tree  BY <1>1, <1>a, <2>2
    <3>2. b \in DOMAIN tree => new[b] = tree[b]  BY <1>1, <3>1, <2>2
    <3> QED  BY <2>1, <2>2, <3>1, <3>2 DEF SledGet, b
  <2>3. CASE b \in DOMAIN changes /\ changes[b] = Removed
    <3>1. b \notin DOMAIN new  BY <1>1, <1>a, <2>3
    <3>2. After({}, SledChange(changes[b])) = {}  BY <2>3 DEF After, SledChange
    <3> QED  BY <2>1, <2>3, <3>1, <3>2 DEF SledGet, b
  <2>4. CASE b \in DOMAIN changes /\ changes[b] # Removed
    <3>1. b \in DOMAIN new /\ new[b] = changes[b]  BY <1>1, <1>a, <2>4
    <3>2. PICK v \in StoredValues(t) : changes[b] = PackValue(v)  BY <2>4 DEF GoodSledChanges
    <3>3. After({}, SledChange(changes[b])) = {v}
      BY <2>4, <3>2, ValuePacked, GoneIsNoValue DEF After, SledChange
    <3>4. SledGet(new, b) = {v}  BY <3>1, <3>2, ValuePacked DEF SledGet
    <3> QED  BY <2>1, <2>4, <3>3, <3>4 DEF b
  <2> QED  BY <2>2, <2>3, <2>4
<1> QED  BY <1>3, <1>4 DEF new

-----------------------------------------------------------------------------
(* The batches and what they change, whichever the backend.                *)
GoodBatch(b, ts, bt) ==
  CASE b = "memory" -> GoodMemoryBatch(ts, bt)
    [] b = "sled" -> GoodSledBatch(ts, bt)
    [] b = "rocksdb" -> bt \in Seq(RocksdbOps(ts))
Hits(b, bt, t, k) ==
  CASE b = "memory" -> MemoryHits(bt, t, k)
    [] b = "sled" -> SledHits(bt, t, k)
    [] b = "rocksdb" -> RocksdbHits(bt, t, k)
Late(b, bt, t, k) ==
  CASE b = "memory" -> MemoryChange(bt[t][Max(MemoryHits(bt, t, k))])
    [] b = "sled" -> SledChange(bt[t][KeyBytes(t, k)])
    [] b = "rocksdb" -> RocksdbChange(bt[Max(RocksdbHits(bt, t, k))])
ChangedKeys(b, ts, bt) == UNION {{<<t, k>> : k \in {x \in Keys[t] : Hits(b, bt, t, x) # {}}} : t \in ts}
PendingOf(b, ts, bt) == [c \in ChangedKeys(b, ts, bt) |-> Late(b, bt, c[1], c[2])]
CommittedIn(b, content, bt) ==
  CASE b = "memory" -> MemoryBatchCommit(content, bt)
    [] b = "sled" -> SledBatchCommit(content, bt)
    [] b = "rocksdb" -> RocksdbBatchCommit(content, bt)

(* The pending changes are those of the batch.                             *)
LEMMA PendingIs ==
  ASSUME backend \in Backends
  PROVE  Pending = PendingOf(backend, Tables, batch)
<1>1. \A t, k : ChangesOf(t, k) = Hits(backend, batch, t, k)
  <2>1. CASE backend = "memory"  BY <2>1 DEF ChangesOf, Hits, MemoryHits
  <2>2. CASE backend = "sled"  BY <2>2 DEF ChangesOf, Hits, SledHits
  <2>3. CASE backend = "rocksdb"  BY <2>3 DEF ChangesOf, Hits, RocksdbHits
  <2> QED  BY <2>1, <2>2, <2>3 DEF Backends
<1>2. \A t, k : LastChange(t, k) = Late(backend, batch, t, k)
  <2>1. CASE backend = "memory"
    <3>1. \A t, k : ChangesOf(t, k) = MemoryHits(batch, t, k)  BY <1>1, <2>1 DEF Hits
    <3> QED  BY <2>1, <3>1 DEF LastChange, Late, MemoryChange, Gone
  <2>2. CASE backend = "sled"  BY <2>2 DEF LastChange, Late, SledChange, Gone
  <2>3. CASE backend = "rocksdb"
    <3>1. \A t, k : ChangesOf(t, k) = RocksdbHits(batch, t, k)  BY <1>1, <2>3 DEF Hits
    <3> QED  BY <2>3, <3>1 DEF LastChange, Late, RocksdbChange, Gone
  <2> QED  BY <2>1, <2>2, <2>3 DEF Backends
<1> HIDE DEF ChangesOf, LastChange, Hits, Late
<1>3. UNION {{<<t, k>> : k \in {x \in Keys[t] : ChangesOf(t, x) # {}}} : t \in Tables} = ChangedKeys(backend, Tables, batch)
  BY <1>1 DEF ChangedKeys
<1> QED  BY <1>2, <1>3 DEF Pending, PendingOf

(* The last change of a key is a value of its table or a deletion.         *)
LEMMA LateType ==
  ASSUME NEW b \in Backends, NEW ts \in SUBSET AllTables, NEW bt, GoodBatch(b, ts, bt),
         NEW t \in ts, NEW k \in Keys[t], Hits(b, bt, t, k) # {}
  PROVE  Late(b, bt, t, k) \in StoredValues(t) \cup {Gone}
<1>1. CASE b = "memory"
  <2> DEFINE H == MemoryHits(bt, t, k)
             s == bt[t]
  <2>1. s \in Seq(MemoryOps(t))  BY <1>1 DEF GoodBatch, GoodMemoryBatch
  <2>2. H # {} /\ H \subseteq DOMAIN s  BY <1>1 DEF Hits, MemoryHits
  <2>3. IsFiniteSet(DOMAIN s) /\ DOMAIN s \subseteq Int  BY <2>1, FS_Interval
  <2> HIDE DEF H, s
  <2>4. Max(H) \in DOMAIN s  BY <2>2, <2>3, FS_Subset, MaxIsElement
  <2>5. s[Max(H)] \in MemoryOps(t)  BY <2>1, <2>4
  <2>6. MemoryChange(s[Max(H)]) \in StoredValues(t) \cup {Gone}  BY <2>5 DEF MemoryOps, MemoryChange
  <2> QED  BY <1>1, <2>6 DEF Late, H, s
<1>2. CASE b = "sled"
  <2>1. t \in DOMAIN bt /\ KeyBytes(t, k) \in DOMAIN bt[t]  BY <1>2 DEF Hits, SledHits
  <2>2. GoodSledChanges(t, bt[t])  BY <1>2, <2>1 DEF GoodBatch, GoodSledBatch
  <2>3. SledChange(bt[t][KeyBytes(t, k)]) \in StoredValues(t) \cup {Gone}
    BY <2>1, <2>2, ValuePacked DEF GoodSledChanges, SledChange
  <2> QED  BY <1>2, <2>3 DEF Late
<1>3. CASE b = "rocksdb"
  <2> DEFINE H == RocksdbHits(bt, t, k)
  <2>1. bt \in Seq(RocksdbOps(ts))  BY <1>3 DEF GoodBatch
  <2>2. H # {} /\ H \subseteq DOMAIN bt /\ \A i \in H : bt[i].table = t  BY <1>3 DEF Hits, RocksdbHits
  <2>3. IsFiniteSet(DOMAIN bt) /\ DOMAIN bt \subseteq Int  BY <2>1, FS_Interval
  <2> HIDE DEF H
  <2>4. Max(H) \in H /\ Max(H) \in DOMAIN bt  BY <2>2, <2>3, FS_Subset, MaxIsElement
  <2>5. bt[Max(H)] \in RocksdbOps(ts) /\ bt[Max(H)].table = t  BY <2>1, <2>2, <2>4
  <2>6. RocksdbChange(bt[Max(H)]) \in StoredValues(t) \cup {Gone}  BY <2>5 DEF RocksdbOps, RocksdbChange
  <2> QED  BY <1>3, <2>6 DEF Late, H
<1> QED  BY <1>1, <1>2, <1>3 DEF Backends

(* A commit: in every cell the last change of its key decides.             *)
LEMMA CommittedGood ==
  ASSUME Tables \in SUBSET AllTables, NEW b \in Backends, NEW content, GoodContent(b, Tables, content),
         NEW bt, GoodBatch(b, Tables, bt)
  PROVE  /\ GoodContent(b, Tables, CommittedIn(b, content, bt))
         /\ \A t \in Tables : \A k \in Keys[t] :
              CellAfter(b, content, CommittedIn(b, content, bt), t, k, Hits(b, bt, t, k) # {}, After({}, Late(b, bt, t, k)))
<1>1. CASE b = "memory"
  <2> DEFINE new == MemoryBatchCommit(content, bt)
  <2>1. \A t \in Tables : t \in AllTables /\ GoodTable(t, content[t]) /\ bt[t] \in Seq(MemoryOps(t))
    BY <1>1 DEF GoodContent, GoodPart, GoodBatch, GoodMemoryBatch
  <2>2. new = [t \in Tables |-> new[t]]  BY DEF MemoryBatchCommit
  <2>3. \A t \in Tables :
          /\ GoodTable(t, new[t])
          /\ \A k \in Keys[t] : TableCells(t, new[t])[k] = IF MemoryHits(bt, t, k) = {} THEN TableCells(t, content[t])[k]
                                  ELSE After({}, MemoryChange(bt[t][Max(MemoryHits(bt, t, k))]))
    BY <2>1, MemoryCommitted
  <2>4. CommittedIn(b, content, bt) = new  BY <1>1 DEF CommittedIn
  <2> HIDE DEF new
  <2>5. GoodContent(b, Tables, new)  BY <1>1, <2>2, <2>3 DEF GoodContent, GoodPart
  <2>6. ASSUME NEW t \in Tables, NEW k \in Keys[t]
        PROVE  CellAfter(b, content, new, t, k, Hits(b, bt, t, k) # {}, After({}, Late(b, bt, t, k)))
    <3>1. Hits(b, bt, t, k) = MemoryHits(bt, t, k)
          /\ Late(b, bt, t, k) = MemoryChange(bt[t][Max(MemoryHits(bt, t, k))])  BY <1>1 DEF Hits, Late
    <3> QED  BY <1>1, <2>3, <3>1 DEF CellAfter, PartCells
  <2> QED  BY <2>4, <2>5, <2>6
<1>2. CASE b = "sled"
  <2> DEFINE new == SledBatchCommit(content, bt)
  <2>1. \A t \in Tables : t \in AllTables /\ GoodTree(t, content[t]) /\ (t \in DOMAIN bt => GoodSledChanges(t, bt[t]))
    BY <1>2 DEF GoodContent, GoodPart, GoodBatch, GoodSledBatch
  <2>2. /\ new = [t \in Tables |-> new[t]]
        /\ \A t \in Tables : new[t] = IF t \notin DOMAIN bt THEN content[t] ELSE TreeChanged(content[t], bt[t])
    BY DEF SledBatchCommit, TreeChanged
  <2>4. CommittedIn(b, content, bt) = new  BY <1>2 DEF CommittedIn
  <2> HIDE DEF new
  <2>5. \A t \in Tables : GoodTree(t, new[t])  BY <2>1, <2>2, TreeChangedGood
  <2>6. GoodContent(b, Tables, new)  BY <1>2, <2>2, <2>5 DEF GoodContent, GoodPart
  <2>7. ASSUME NEW t \in Tables, NEW k \in Keys[t]
        PROVE  CellAfter(b, content, new, t, k, Hits(b, bt, t, k) # {}, After({}, Late(b, bt, t, k)))
    <3>1. Hits(b, bt, t, k) = SledHits(bt, t, k) /\ Late(b, bt, t, k) = SledChange(bt[t][KeyBytes(t, k)])
      BY <1>2 DEF Hits, Late
    <3>2. SledHits(bt, t, k) # {} <=> t \in DOMAIN bt /\ KeyBytes(t, k) \in DOMAIN bt[t]  BY DEF SledHits
    <3>3. CASE t \notin DOMAIN bt
      <4>1. new[t] = content[t] /\ Hits(b, bt, t, k) = {}  BY <2>2, <3>1, <3>2, <3>3
      <4> QED  BY <4>1 DEF CellAfter
    <3>4. CASE t \in DOMAIN bt
      <4>1. new[t] = TreeChanged(content[t], bt[t])  BY <2>2, <3>4
      <4>2. TreeCells(t, new[t])[k] = IF KeyBytes(t, k) \in DOMAIN bt[t] THEN After({}, SledChange(bt[t][KeyBytes(t, k)]))
                                      ELSE TreeCells(t, content[t])[k]
        BY <2>1, <3>4, <4>1, TreeChangedGood
      <4> QED  BY <1>2, <3>1, <3>2, <3>4, <4>2 DEF CellAfter, PartCells
    <3> QED  BY <3>3, <3>4
  <2> QED  BY <2>4, <2>6, <2>7
<1>3. CASE b = "rocksdb"
  <2>1. bt \in Seq(RocksdbOps(Tables)) /\ CommittedIn(b, content, bt) = RocksdbBatchCommit(content, bt)
        /\ GoodContent("rocksdb", Tables, content)
    BY <1>3 DEF GoodBatch, CommittedIn
  <2>2. \A t, k : /\ Hits(b, bt, t, k) = RocksdbHits(bt, t, k)
                  /\ Late(b, bt, t, k) = RocksdbChange(bt[Max(RocksdbHits(bt, t, k))])
    BY <1>3 DEF Hits, Late
  <2> HIDE DEF Hits, Late
  <2>3. /\ GoodContent("rocksdb", Tables, RocksdbBatchCommit(content, bt))
        /\ \A t \in Tables : \A k \in Keys[t] :
              CellAfter("rocksdb", content, RocksdbBatchCommit(content, bt), t, k,
                        RocksdbHits(bt, t, k) # {}, After({}, RocksdbChange(bt[Max(RocksdbHits(bt, t, k))])))
    BY <2>1, RocksdbCommitted
  <2> QED  BY <1>3, <2>1, <2>2, <2>3
<1> QED  BY <1>1, <1>2, <1>3 DEF Backends

-----------------------------------------------------------------------------
(* The batch new is bt with one operation more, after which w is the last  *)
(* change of a key.                                                        *)
Collects(b, ts, bt, new, t, k, w) ==
  /\ GoodBatch(b, ts, new)
  /\ \A u \in ts : \A x \in Keys[u] :
       /\ Hits(b, new, u, x) # {} <=> (u = t /\ x = k) \/ Hits(b, bt, u, x) # {}
       /\ Hits(b, new, u, x) # {} => Late(b, new, u, x) = IF u = t /\ x = k THEN w ELSE Late(b, bt, u, x)

(* A list with one operation more.                                         *)
LEMMA Appended ==
  ASSUME NEW E, NEW s \in Seq(E), NEW e \in E
  PROVE  /\ Append(s, e) \in Seq(E) /\ Len(s) \in Nat /\ DOMAIN s = 1 .. Len(s)
         /\ DOMAIN Append(s, e) = 1 .. Len(s) + 1
         /\ Append(s, e)[Len(s) + 1] = e /\ \A i \in 1 .. Len(s) : Append(s, e)[i] = s[i]
OBVIOUS

(* The hits of a list with one operation more.                             *)
Grown(s, new, H, J, hit) ==
  /\ J = IF hit THEN H \cup {Len(s) + 1} ELSE H
  /\ hit => Max(J) = Len(s) + 1
  /\ H # {} => Max(H) \in DOMAIN s /\ new[Max(H)] = s[Max(H)]
\* The entries of a batch for one key, with one entry more.
LEMMA HitsGrown ==
  ASSUME NEW E, NEW s \in Seq(E), NEW e \in E, NEW H \in SUBSET (DOMAIN s), NEW hit \in BOOLEAN, NEW J,
         J = IF hit THEN H \cup {Len(s) + 1} ELSE H
  PROVE  Grown(s, Append(s, e), H, J, hit)
<1>1. Len(s) \in Nat /\ H \in SUBSET (1 .. Len(s))  OBVIOUS
<1> DEFINE n == Len(s)
<1>2. hit => Max(J) = n + 1
  <2>1. n \in Nat /\ H \in SUBSET (1 .. n) /\ (hit => J = H \cup {n + 1})  BY <1>1
  <2> HIDE DEF n
  <2> QED  BY <2>1, MaxTop
<1>3. H # {} => Max(H) \in DOMAIN s
  <2>1. IsFiniteSet(DOMAIN s) /\ DOMAIN s \subseteq Int  BY FS_Interval
  <2>2. IsFiniteSet(H) /\ H \subseteq Int  BY <2>1, FS_Subset
  <2> QED  BY <2>2, MaxIsElement
<1>4. \A i \in DOMAIN s : Append(s, e)[i] = s[i]  BY Appended
<1> QED  BY <1>2, <1>3, <1>4 DEF Grown

(* In memory.                                                              *)
LEMMA MemoryCollected ==
  ASSUME NEW ts \in SUBSET AllTables, NEW bt, GoodBatch("memory", ts, bt), NEW t \in ts, NEW op \in MemoryOps(t)
  PROVE  Collects("memory", ts, bt, Updated(bt, t, Append(bt[t], op)), t, op.key, MemoryChange(op))
<1> DEFINE s == bt[t]
           list == Append(s, op)
           new == Updated(bt, t, list)
<1>1. bt = [u \in ts |-> bt[u]] /\ \A u \in ts : bt[u] \in Seq(MemoryOps(u))  BY DEF GoodBatch, GoodMemoryBatch
<1>2. s \in Seq(MemoryOps(t))  BY <1>1
<1> HIDE DEF s
<1>3. /\ list \in Seq(MemoryOps(t)) /\ Len(s) \in Nat /\ DOMAIN s = 1 .. Len(s) /\ DOMAIN list = 1 .. Len(s) + 1
      /\ list[Len(s) + 1] = op /\ \A i \in 1 .. Len(s) : list[i] = s[i]
  BY <1>2, Appended
<1>4. new = [u \in ts |-> IF u = t THEN list ELSE bt[u]]  BY <1>1 DEF Updated
<1> HIDE DEF list, new
<1>5. new = [u \in ts |-> new[u]] /\ new[t] = list /\ \A u \in ts \ {t} : new[u] = bt[u]  BY <1>4
<1>6. GoodBatch("memory", ts, new)  BY <1>1, <1>3, <1>5 DEF GoodBatch, GoodMemoryBatch
<1>7. ASSUME NEW u \in ts, NEW x \in Keys[u]
      PROVE  /\ Hits("memory", new, u, x) # {} <=> (u = t /\ x = op.key) \/ Hits("memory", bt, u, x) # {}
             /\ Hits("memory", new, u, x) # {} =>
                  Late("memory", new, u, x) = IF u = t /\ x = op.key THEN MemoryChange(op) ELSE Late("memory", bt, u, x)
  <2> DEFINE H == MemoryHits(bt, u, x)
             J == MemoryHits(new, u, x)
  <2>1. /\ Hits("memory", new, u, x) = J /\ Late("memory", new, u, x) = MemoryChange(new[u][Max(J)])
        /\ Hits("memory", bt, u, x) = H /\ Late("memory", bt, u, x) = MemoryChange(bt[u][Max(H)])
    BY DEF Hits, Late
  <2>2. CASE u # t
    <3>1. J = H /\ new[u] = bt[u]  BY <1>5, <2>2 DEF MemoryHits
    <3> QED  BY <2>1, <2>2, <3>1
  <2>3. CASE u = t
    <3> DEFINE hit == x = op.key
    <3>1. H = {i \in DOMAIN s : s[i].key = x} /\ J = {i \in DOMAIN list : list[i].key = x}
      BY <1>5, <2>3 DEF MemoryHits, s
    <3>2. H \in SUBSET (DOMAIN s)  BY <3>1
    <3>3. J = IF hit THEN H \cup {Len(s) + 1} ELSE H
      <4> HIDE DEF H, J
      <4>1. CASE hit  BY <1>3, <3>1, <4>1
      <4>2. CASE ~hit  BY <1>3, <3>1, <4>2
      <4> QED  BY <4>1, <4>2
    <3> HIDE DEF hit, H, J
    <3>4. hit \in BOOLEAN  BY DEF hit
    <3>5. Grown(s, list, H, J, hit)  BY <1>2, <3>2, <3>3, <3>4, HitsGrown DEF list
    <3>6. /\ Hits("memory", new, u, x) = J /\ Late("memory", new, u, x) = MemoryChange(list[Max(J)])
          /\ Hits("memory", bt, u, x) = H /\ Late("memory", bt, u, x) = MemoryChange(s[Max(H)])
      BY <1>5, <2>1, <2>3 DEF s
    <3>7. CASE hit
      <4>1. Max(J) = Len(s) + 1 /\ J # {}  BY <3>5, <3>7 DEF Grown
      <4> QED  BY <1>3, <2>3, <3>6, <3>7, <4>1 DEF hit
    <3>8. CASE ~hit
      <4>1. J = H /\ (H # {} => list[Max(H)] = s[Max(H)])  BY <3>5, <3>8 DEF Grown
      <4> QED  BY <2>3, <3>6, <3>8, <4>1 DEF hit
    <3> QED  BY <3>7, <3>8
  <2> QED  BY <2>2, <2>3
<1> HIDE DEF Hits, Late
<1>8. Collects("memory", ts, bt, new, t, op.key, MemoryChange(op))  BY <1>6, <1>7 DEF Collects
<1> QED  BY <1>8 DEF new, list, s

(* In RocksDB.                                                             *)
LEMMA RocksdbCollected ==
  ASSUME NEW ts \in SUBSET AllTables, NEW bt, GoodBatch("rocksdb", ts, bt), NEW t \in ts, NEW k \in Keys[t],
         NEW op \in RocksdbOps(ts), op.table = t, op.bytes = KeyBytes(t, k)
  PROVE  Collects("rocksdb", ts, bt, Append(bt, op), t, k, RocksdbChange(op))
<1> DEFINE list == Append(bt, op)
<1>2. bt \in Seq(RocksdbOps(ts))  BY DEF GoodBatch
<1>3. /\ list \in Seq(RocksdbOps(ts)) /\ Len(bt) \in Nat /\ DOMAIN bt = 1 .. Len(bt) /\ DOMAIN list = 1 .. Len(bt) + 1
      /\ list[Len(bt) + 1] = op /\ \A i \in 1 .. Len(bt) : list[i] = bt[i]
  BY <1>2, Appended
<1> HIDE DEF list
<1>6. GoodBatch("rocksdb", ts, list)  BY <1>3 DEF GoodBatch
<1>7. ASSUME NEW u \in ts, NEW x \in Keys[u]
      PROVE  /\ Hits("rocksdb", list, u, x) # {} <=> (u = t /\ x = k) \/ Hits("rocksdb", bt, u, x) # {}
             /\ Hits("rocksdb", list, u, x) # {} =>
                  Late("rocksdb", list, u, x) = IF u = t /\ x = k THEN RocksdbChange(op) ELSE Late("rocksdb", bt, u, x)
  <2> DEFINE H == RocksdbHits(bt, u, x)
             J == RocksdbHits(list, u, x)
             hit == u = t /\ x = k
  <2>1. /\ Hits("rocksdb", list, u, x) = J /\ Late("rocksdb", list, u, x) = RocksdbChange(list[Max(J)])
        /\ Hits("rocksdb", bt, u, x) = H /\ Late("rocksdb", bt, u, x) = RocksdbChange(bt[Max(H)])
    BY DEF Hits, Late
  <2>2. hit <=> op.table = u /\ op.bytes = KeyBytes(u, x)
    <3>1. CASE u = t  BY <3>1, TableKeys
    <3>2. CASE u # t  BY <3>2
    <3> QED  BY <3>1, <3>2
  <2>3. /\ \A i : i \in H <=> i \in DOMAIN bt /\ bt[i].table = u /\ bt[i].bytes = KeyBytes(u, x)
        /\ \A i : i \in J <=> i \in DOMAIN list /\ list[i].table = u /\ list[i].bytes = KeyBytes(u, x)
    BY DEF RocksdbHits
  <2> HIDE DEF H, J, hit
  <2>4. H \in SUBSET (DOMAIN bt)  BY <2>3
  <2>5. J = IF hit THEN H \cup {Len(bt) + 1} ELSE H
    <3>0. \A i : i \in DOMAIN list <=> i \in DOMAIN bt \/ i = Len(bt) + 1  BY <1>3
    <3>a. Len(bt) + 1 \in J <=> hit  BY <1>3, <2>2, <2>3, <3>0
    <3>b. \A i \in DOMAIN bt : i \in J <=> i \in H  BY <1>3, <2>3, <3>0
    <3>1. CASE hit  BY <2>3, <3>0, <3>a, <3>b, <3>1
    <3>2. CASE ~hit  BY <2>3, <3>0, <3>a, <3>b, <3>2
    <3> QED  BY <3>1, <3>2
  <2>6. hit \in BOOLEAN  BY DEF hit
  <2>7. Grown(bt, list, H, J, hit)  BY <1>2, <2>4, <2>5, <2>6, HitsGrown DEF list
  <2>8. CASE hit
    <3>1. Max(J) = Len(bt) + 1 /\ J # {}  BY <2>7, <2>8 DEF Grown
    <3> QED  BY <1>3, <2>1, <2>8, <3>1 DEF hit
  <2>9. CASE ~hit
    <3>1. J = H /\ (H # {} => list[Max(H)] = bt[Max(H)])  BY <2>7, <2>9 DEF Grown
    <3> QED  BY <2>1, <2>9, <3>1 DEF hit
  <2> QED  BY <2>8, <2>9
<1> HIDE DEF Hits, Late
<1>8. Collects("rocksdb", ts, bt, list, t, k, RocksdbChange(op))  BY <1>6, <1>7 DEF Collects
<1> QED  BY <1>8 DEF list

(* In sled.                                                                *)
LEMMA SledCollected ==
  ASSUME NEW ts \in SUBSET AllTables, NEW bt, GoodBatch("sled", ts, bt), NEW t \in ts, NEW k \in Keys[t],
         NEW change, change = Removed \/ \E v \in StoredValues(t) : change = PackValue(v)
  PROVE  Collects("sled", ts, bt, SledRecord(bt, t, KeyBytes(t, k), change), t, k, SledChange(change))
<1> DEFINE old == IF t \in DOMAIN bt THEN bt[t] ELSE << >>
           b == KeyBytes(t, k)
           changes == Stored(old, b, change)
           new == Stored(bt, t, changes)
<1>1. bt = [u \in DOMAIN bt |-> bt[u]] /\ DOMAIN bt \subseteq ts /\ \A u \in DOMAIN bt : GoodSledChanges(u, bt[u])
  BY DEF GoodBatch, GoodSledBatch
<1>2. GoodSledChanges(t, old)
  <2>1. CASE t \in DOMAIN bt  BY <1>1, <2>1
  <2>2. CASE t \notin DOMAIN bt  BY <2>2, NoKeys, FS_EmptySet DEF GoodSledChanges
  <2> QED  BY <2>1, <2>2
<1> HIDE DEF old
<1>3. /\ DOMAIN changes = DOMAIN old \cup {b} /\ changes[b] = change /\ changes = [x \in DOMAIN changes |-> changes[x]]
      /\ \A x \in DOMAIN old \ {b} : changes[x] = old[x]
  BY DEF Stored
<1> HIDE DEF changes
<1>4. GoodSledChanges(t, changes)
  <2>1. IsFiniteSet(DOMAIN changes)  BY <1>2, <1>3, FS_AddElement DEF GoodSledChanges
  <2>2. \A x \in DOMAIN changes : \E l \in Keys[t] : x = KeyBytes(t, l)  BY <1>2, <1>3 DEF GoodSledChanges
  <2>3. \A x \in DOMAIN changes : changes[x] = Removed \/ \E v \in StoredValues(t) : changes[x] = PackValue(v)
    BY <1>2, <1>3 DEF GoodSledChanges
  <2> QED  BY <1>3, <2>1, <2>2, <2>3 DEF GoodSledChanges
<1>5. /\ DOMAIN new = DOMAIN bt \cup {t} /\ new[t] = changes /\ new = [u \in DOMAIN new |-> new[u]]
      /\ \A u \in DOMAIN bt \ {t} : new[u] = bt[u]
  BY DEF Stored
<1>6. SledRecord(bt, t, KeyBytes(t, k), change) = new  BY DEF SledRecord, old, changes
<1> HIDE DEF new
<1>7. GoodBatch("sled", ts, new)
  <2>1. \A u \in DOMAIN new : GoodSledChanges(u, new[u])  BY <1>1, <1>4, <1>5
  <2>2. DOMAIN new \subseteq ts  BY <1>1, <1>5
  <2> QED  BY <1>5, <2>1, <2>2 DEF GoodBatch, GoodSledBatch
<1>8. ASSUME NEW u \in ts, NEW x \in Keys[u]
      PROVE  /\ Hits("sled", new, u, x) # {} <=> (u = t /\ x = k) \/ Hits("sled", bt, u, x) # {}
             /\ Hits("sled", new, u, x) # {} =>
                  Late("sled", new, u, x) = IF u = t /\ x = k THEN SledChange(change) ELSE Late("sled", bt, u, x)
  <2>1. /\ Late("sled", new, u, x) = SledChange(new[u][KeyBytes(u, x)])
        /\ Late("sled", bt, u, x) = SledChange(bt[u][KeyBytes(u, x)])
        /\ Hits("sled", new, u, x) # {} <=> u \in DOMAIN new /\ KeyBytes(u, x) \in DOMAIN new[u]
        /\ Hits("sled", bt, u, x) # {} <=> u \in DOMAIN bt /\ KeyBytes(u, x) \in DOMAIN bt[u]
    BY DEF Hits, Late, SledHits
  <2> HIDE DEF Hits, Late
  <2>2. CASE u # t
    <3>1. (u \in DOMAIN new <=> u \in DOMAIN bt) /\ (u \in DOMAIN bt => new[u] = bt[u])  BY <1>5, <2>2
    <3> QED  BY <2>1, <2>2, <3>1
  <2>3. CASE u = t /\ x = k
    <3>1. u \in DOMAIN new /\ new[u] = changes /\ KeyBytes(u, x) = b  BY <1>5, <2>3
    <3> QED  BY <1>3, <2>1, <2>3, <3>1
  <2>4. CASE u = t /\ x # k
    <3>1. KeyBytes(u, x) # b  BY <2>4, TableKeys
    <3>2. u \in DOMAIN new /\ new[u] = changes  BY <1>5, <2>4
    <3>3. KeyBytes(u, x) \in DOMAIN changes <=> KeyBytes(u, x) \in DOMAIN old  BY <1>3, <3>1
    <3>4. KeyBytes(u, x) \in DOMAIN old => changes[KeyBytes(u, x)] = old[KeyBytes(u, x)]  BY <1>3, <3>1
    <3>5. CASE u \in DOMAIN bt
      <4>1. old = bt[u]  BY <2>4, <3>5 DEF old
      <4> QED  BY <2>1, <2>4, <3>2, <3>3, <3>4, <3>5, <4>1
    <3>6. CASE u \notin DOMAIN bt
      <4>1. DOMAIN old = {}  BY <2>4, <3>6, NoKeys DEF old
      <4> QED  BY <2>1, <2>4, <3>2, <3>3, <3>6, <4>1
    <3> QED  BY <3>5, <3>6
  <2> QED  BY <2>2, <2>3, <2>4
<1> HIDE DEF Hits, Late
<1>9. Collects("sled", ts, bt, new, t, k, SledChange(change))  BY <1>7, <1>8 DEF Collects
<1> QED  BY <1>6, <1>9

(* The batches after an operation.                                         *)
InsertCollected(b, bt, t, k, v) ==
  CASE b = "memory" -> MemoryBatchInsert(bt, t, k, v)
    [] b = "sled" -> SledBatchInsert(bt, t, k, v)
    [] b = "rocksdb" -> RocksdbBatchInsert(bt, t, k, v)
DeleteCollected(b, bt, t, k) ==
  CASE b = "memory" -> MemoryBatchDelete(bt, t, k)
    [] b = "sled" -> SledBatchDelete(bt, t, k)
    [] b = "rocksdb" -> RocksdbBatchDelete(bt, t, k)

(* The groups of tables collect in the same way.                           *)
LEMMA TreeBatches ==
  ASSUME NEW t \in AllTables, NEW bt, NEW k, NEW change, NEW op, NEW v
  PROVE  /\ SledBatchRecord(bt, t, k, change) = SledRecord(bt, t, KeyBytes(t, k), change)
         /\ RocksdbBatchAppend(bt, t, k, op, v) = Append(bt, RocksdbOp(op, t, KeyBytes(t, k), v))
<1>1. CASE t \in MessageTables /\ t \notin OutputTables /\ t \notin MilestoneTables /\ t \notin TreasuryTables
  BY <1>1 DEF SledBatchRecord, RocksdbBatchAppend, SledBatchMessages, RocksdbBatchMessages, KeyBytes
<1>2. CASE t \in OutputTables /\ t \notin MessageTables /\ t \notin MilestoneTables /\ t \notin TreasuryTables
  BY <1>2 DEF SledBatchRecord, RocksdbBatchAppend, SledBatchOutputs, RocksdbBatchOutputs, KeyBytes
<1>3. CASE t \in MilestoneTables /\ t \notin MessageTables /\ t \notin OutputTables /\ t \notin TreasuryTables
  BY <1>3 DEF SledBatchRecord, RocksdbBatchAppend, SledBatchMilestones, RocksdbBatchMilestones, KeyBytes
<1>4. CASE t \in TreasuryTables /\ t \notin MessageTables /\ t \notin OutputTables /\ t \notin MilestoneTables
  BY <1>4 DEF SledBatchRecord, RocksdbBatchAppend, SledBatchTreasury, RocksdbBatchTreasury, KeyBytes
<1> QED  BY <1>1, <1>2, <1>3, <1>4, Groups

(* The operation of RocksDB on a key.                                      *)
LEMMA RocksdbOpGood ==
  ASSUME NEW ts \in SUBSET AllTables, NEW t \in ts, NEW k \in Keys[t], NEW op \in {"put", "delete"},
         NEW v, op = "put" => v \in StoredValues(t), op = "delete" => v = Unit
  PROVE  RocksdbOp(op, t, KeyBytes(t, k), v) \in RocksdbOps(ts)
<1>1. KeyBytes(t, k) \in Seq(Bytes)  BY TableKeys
<1>2. v \in (UNION {StoredValues(u) : u \in ts}) \cup {Unit}  OBVIOUS
<1> QED  BY <1>1, <1>2 DEF RocksdbOps, RocksdbOp

(* An insertion or a deletion through a batch.                             *)
LEMMA InsertCollects ==
  ASSUME NEW b \in Backends, NEW ts \in SUBSET AllTables, NEW bt, GoodBatch(b, ts, bt),
         NEW t \in ts, NEW k \in Keys[t], NEW v \in StoredValues(t)
  PROVE  Collects(b, ts, bt, InsertCollected(b, bt, t, k, v), t, k, v)
<1>1. CASE b = "memory"
  <2> DEFINE op == [op |-> "insert", key |-> k, value |-> v]
  <2>1. op \in MemoryOps(t) /\ op.key = k /\ MemoryChange(op) = v  BY DEF MemoryOps, MemoryChange
  <2>2. InsertCollected(b, bt, t, k, v) = Updated(bt, t, Append(bt[t], op))
    BY <1>1 DEF InsertCollected, MemoryBatchInsert, Updated
  <2> HIDE DEF op
  <2>3. Collects("memory", ts, bt, Updated(bt, t, Append(bt[t], op)), t, op.key, MemoryChange(op))
    BY <1>1, <2>1, MemoryCollected
  <2> QED  BY <1>1, <2>1, <2>2, <2>3
<1>2. CASE b = "sled"
  <2>1. SledChange(PackValue(v)) = v  BY ValuePacked, RemovedIsNoValue DEF SledChange
  <2>2. InsertCollected(b, bt, t, k, v) = SledRecord(bt, t, KeyBytes(t, k), PackValue(v))
    BY <1>2, TreeBatches DEF InsertCollected, SledBatchInsert
  <2>3. Collects("sled", ts, bt, SledRecord(bt, t, KeyBytes(t, k), PackValue(v)), t, k, SledChange(PackValue(v)))
    BY <1>2, SledCollected
  <2> QED  BY <1>2, <2>1, <2>2, <2>3
<1>3. CASE b = "rocksdb"
  <2> DEFINE op == RocksdbOp("put", t, KeyBytes(t, k), v)
  <2>1. op \in RocksdbOps(ts)  BY RocksdbOpGood
  <2>2. op.table = t /\ op.bytes = KeyBytes(t, k) /\ RocksdbChange(op) = v  BY DEF RocksdbOp, RocksdbChange
  <2>3. InsertCollected(b, bt, t, k, v) = Append(bt, op)
    BY <1>3, TreeBatches DEF InsertCollected, RocksdbBatchInsert
  <2> HIDE DEF op
  <2>4. Collects("rocksdb", ts, bt, Append(bt, op), t, k, RocksdbChange(op))  BY <1>3, <2>1, <2>2, RocksdbCollected
  <2> QED  BY <1>3, <2>2, <2>3, <2>4
<1> QED  BY <1>1, <1>2, <1>3 DEF Backends

(* The same of a deletion.                                                 *)
LEMMA DeleteCollects ==
  ASSUME NEW b \in Backends, NEW ts \in SUBSET AllTables, NEW bt, GoodBatch(b, ts, bt),
         NEW t \in ts, NEW k \in Keys[t]
  PROVE  Collects(b, ts, bt, DeleteCollected(b, bt, t, k), t, k, Gone)
<1>1. CASE b = "memory"
  <2> DEFINE op == [op |-> "delete", key |-> k, value |-> Unit]
  <2>1. op \in MemoryOps(t) /\ op.key = k /\ MemoryChange(op) = Gone  BY DEF MemoryOps, MemoryChange
  <2>2. DeleteCollected(b, bt, t, k) = Updated(bt, t, Append(bt[t], op))
    BY <1>1 DEF DeleteCollected, MemoryBatchDelete, Updated
  <2> HIDE DEF op
  <2>3. Collects("memory", ts, bt, Updated(bt, t, Append(bt[t], op)), t, op.key, MemoryChange(op))
    BY <1>1, <2>1, MemoryCollected
  <2> QED  BY <1>1, <2>1, <2>2, <2>3
<1>2. CASE b = "sled"
  <2>1. SledChange(Removed) = Gone  BY DEF SledChange
  <2>2. DeleteCollected(b, bt, t, k) = SledRecord(bt, t, KeyBytes(t, k), Removed)
    BY <1>2, TreeBatches DEF DeleteCollected, SledBatchDelete
  <2>3. Collects("sled", ts, bt, SledRecord(bt, t, KeyBytes(t, k), Removed), t, k, SledChange(Removed))
    BY <1>2, SledCollected
  <2> QED  BY <1>2, <2>1, <2>2, <2>3
<1>3. CASE b = "rocksdb"
  <2> DEFINE op == RocksdbOp("delete", t, KeyBytes(t, k), Unit)
  <2>1. op \in RocksdbOps(ts)  BY RocksdbOpGood
  <2>2. op.table = t /\ op.bytes = KeyBytes(t, k) /\ RocksdbChange(op) = Gone  BY DEF RocksdbOp, RocksdbChange
  <2>3. DeleteCollected(b, bt, t, k) = Append(bt, op)
    BY <1>3, TreeBatches DEF DeleteCollected, RocksdbBatchDelete
  <2> HIDE DEF op
  <2>4. Collects("rocksdb", ts, bt, Append(bt, op), t, k, RocksdbChange(op))  BY <1>3, <2>1, <2>2, RocksdbCollected
  <2> QED  BY <1>3, <2>2, <2>3, <2>4
<1> QED  BY <1>1, <1>2, <1>3 DEF Backends

-----------------------------------------------------------------------------
(***************************************************************************)
(* The rows and the pending changes that the users of the storage see.     *)
(***************************************************************************)
(* One operation more changes one of the pending keys.                     *)
LEMMA PendingCollected ==
  ASSUME NEW b, NEW ts, NEW bt, NEW new, NEW t \in ts, NEW k \in Keys[t], NEW w,
         Collects(b, ts, bt, new, t, k, w)
  PROVE  PendingOf(b, ts, new) = Stored(PendingOf(b, ts, bt), <<t, k>>, w)
<1> DEFINE C == ChangedKeys(b, ts, bt)
           D == ChangedKeys(b, ts, new)
<1>1. \A c : c \in C <=> \E u \in ts : \E x \in Keys[u] : c = <<u, x>> /\ Hits(b, bt, u, x) # {}
  BY DEF ChangedKeys
<1>2. \A c : c \in D <=> \E u \in ts : \E x \in Keys[u] : c = <<u, x>> /\ Hits(b, new, u, x) # {}
  BY DEF ChangedKeys
<1> HIDE DEF C, D, Hits, Late
<1>3. ASSUME NEW u \in ts, NEW x \in Keys[u]
      PROVE  /\ <<u, x>> \in C <=> Hits(b, bt, u, x) # {}
             /\ <<u, x>> \in D <=> Hits(b, new, u, x) # {}
             /\ <<u, x>> = <<t, k>> <=> u = t /\ x = k
  BY <1>1, <1>2
<1>4. D = C \cup {<<t, k>>}
  <2>1. ASSUME NEW c \in D  PROVE c \in C \cup {<<t, k>>}
    <3>1. PICK u \in ts : \E x \in Keys[u] : c = <<u, x>>  BY <1>2, <2>1
    <3>2. PICK x \in Keys[u] : c = <<u, x>>  BY <3>1
    <3> QED  BY <1>3, <2>1, <3>2 DEF Collects
  <2>2. ASSUME NEW c \in C  PROVE c \in D
    <3>1. PICK u \in ts : \E x \in Keys[u] : c = <<u, x>>  BY <1>1, <2>2
    <3>2. PICK x \in Keys[u] : c = <<u, x>>  BY <3>1
    <3> QED  BY <1>3, <2>2, <3>2 DEF Collects
  <2>3. <<t, k>> \in D  BY <1>3 DEF Collects
  <2> QED  BY <2>1, <2>2, <2>3
<1>5. ASSUME NEW c \in D
      PROVE  Late(b, new, c[1], c[2]) = IF c = <<t, k>> THEN w ELSE Late(b, bt, c[1], c[2])
  <2>1. PICK u \in ts : \E x \in Keys[u] : c = <<u, x>>  BY <1>2, <1>5
  <2>2. PICK x \in Keys[u] : c = <<u, x>>  BY <2>1
  <2>3. Late(b, new, u, x) = IF u = t /\ x = k THEN w ELSE Late(b, bt, u, x)  BY <1>3, <1>5, <2>2 DEF Collects
  <2> QED  BY <1>3, <2>2, <2>3
<1>6. PendingOf(b, ts, new) = [c \in D |-> IF c = <<t, k>> THEN w ELSE Late(b, bt, c[1], c[2])]
  BY <1>5 DEF PendingOf, D
<1>7. DOMAIN PendingOf(b, ts, bt) = C /\ \A c \in C : PendingOf(b, ts, bt)[c] = Late(b, bt, c[1], c[2])
  BY DEF PendingOf, C
<1>8. Stored(PendingOf(b, ts, bt), <<t, k>>, w) = [c \in D |-> IF c = <<t, k>> THEN w ELSE Late(b, bt, c[1], c[2])]
  <2> DEFINE f == PendingOf(b, ts, bt)
  <2>1. DOMAIN f = C /\ \A c \in C : f[c] = Late(b, bt, c[1], c[2])  BY <1>7
  <2> HIDE DEF f
  <2>2. Stored(f, <<t, k>>, w) = [c \in D |-> IF c = <<t, k>> THEN w ELSE f[c]]  BY <1>4, <2>1 DEF Stored
  <2>3. \A c \in D : (IF c = <<t, k>> THEN w ELSE f[c]) = (IF c = <<t, k>> THEN w ELSE Late(b, bt, c[1], c[2]))
    BY <1>4, <2>1
  <2> QED  BY <2>2, <2>3 DEF f
<1> QED  BY <1>6, <1>8

(* An empty batch has nothing pending.                                     *)
LEMMA NothingPending ==
  ASSUME backend \in Backends
  PROVE  GoodBatch(backend, Tables, NoBatch) /\ PendingOf(backend, Tables, NoBatch) = << >>
<1>1. GoodBatch(backend, Tables, NoBatch)
  <2>1. CASE backend = "memory"
    <3>1. NoBatch = [t \in Tables |-> << >>]  BY <2>1 DEF NoBatch, MemoryBatchBegin
    <3>2. \A t : << >> \in Seq(MemoryOps(t))  OBVIOUS
    <3> QED  BY <2>1, <3>1, <3>2 DEF GoodBatch, GoodMemoryBatch
  <2>2. CASE backend = "sled"
    <3>1. NoBatch = << >>  BY <2>2 DEF NoBatch
    <3> QED  BY <2>2, <3>1, NoKeys DEF GoodBatch, GoodSledBatch
  <2>3. CASE backend = "rocksdb"
    <3>1. NoBatch = << >>  BY <2>3 DEF NoBatch
    <3>2. << >> \in Seq(RocksdbOps(Tables))  OBVIOUS
    <3> QED  BY <2>3, <3>1, <3>2 DEF GoodBatch
  <2> QED  BY <2>1, <2>2, <2>3 DEF Backends
<1>2. \A t \in Tables : \A k : Hits(backend, NoBatch, t, k) = {}
  <2>1. CASE backend = "memory"
    <3>1. \A t \in Tables : NoBatch[t] = << >>  BY <2>1 DEF NoBatch, MemoryBatchBegin
    <3>2. DOMAIN << >> = {}  BY NoKeys
    <3> QED  BY <2>1, <3>1, <3>2 DEF Hits, MemoryHits
  <2>2. CASE backend = "sled"
    <3>1. NoBatch = << >>  BY <2>2 DEF NoBatch
    <3> QED  BY <2>2, <3>1, NoKeys DEF Hits, SledHits
  <2>3. CASE backend = "rocksdb"
    <3>1. NoBatch = << >>  BY <2>3 DEF NoBatch
    <3> QED  BY <2>3, <3>1, NoKeys DEF Hits, RocksdbHits
  <2> QED  BY <2>1, <2>2, <2>3 DEF Backends
<1> HIDE DEF Hits, Late
<1>3. ChangedKeys(backend, Tables, NoBatch) = {}  BY <1>2 DEF ChangedKeys
<1>4. PendingOf(backend, Tables, NoBatch) = [c \in {} |-> Late(backend, NoBatch, c[1], c[2])]  BY <1>3 DEF PendingOf
<1>5. << >> = [c \in {} |-> Late(backend, NoBatch, c[1], c[2])]  OBVIOUS
<1> QED  BY <1>1, <1>4, <1>5

(* A changed table shows its new cells.                                    *)
LEMMA ViewsChanged ==
  ASSUME NEW b, NEW ts, NEW content, GoodContent(b, ts, content), NEW new, NEW t \in ts, NEW c,
         Changed(b, content, new, t, c)
  PROVE  GoodContent(b, ts, new) /\ Views(b, ts, new) = Updated(Views(b, ts, content), t, ViewOf(c))
<1>1. /\ GoodContent(b, ts, new) /\ PartCells(b, t, new[t]) = c
      /\ \A x \in ts \ {t} : new[x] = content[x]
  BY ChangedGood
<1>2. Views(b, ts, new) = Updated(Views(b, ts, content), t, ViewOf(c))  BY <1>1 DEF Views, Updated
<1> QED  BY <1>1, <1>2

(* A direct write of the storage is one of those that StorageSpec allows.  *)
LEMMA InsertWrites ==
  ASSUME Tables \in SUBSET AllTables, NEW b \in Backends, NEW content, GoodContent(b, Tables, content),
         NEW t \in Tables, NEW k \in Keys[t], NEW v \in StoredValues(t)
  PROVE  /\ GoodContent(b, Tables, InsertedIn(b, content, t, k, v))
         /\ Views(b, Tables, InsertedIn(b, content, t, k, v)) \in Promised!Written(Views(b, Tables, content))
<1> DEFINE old == Views(b, Tables, content)
           new == InsertedIn(b, content, t, k, v)
           cells == PartCells(b, t, content[t])
           c == Updated(cells, k, {v})
<1>1. Changed(b, content, new, t, c)  BY InsertedGood
<1>2. cells \in CellMaps(t) /\ old[t] = ViewOf(cells)  BY PartCellsGood DEF GoodContent, Views
<1> HIDE DEF new, cells
<1>3. ViewOf(c) = Stored(old[t], k, v)  BY <1>2, ViewStored
<1> HIDE DEF c
<1>4. GoodContent(b, Tables, new) /\ Views(b, Tables, new) = Updated(old, t, ViewOf(c))  BY <1>1, ViewsChanged
<1> HIDE DEF old
<1>5. Updated(old, t, Stored(old[t], k, v)) = [old EXCEPT ![t] = Promised!Set(@, k, v)]
  BY DEF Updated, Promised!Set, Stored
<1>6. [old EXCEPT ![t] = Promised!Set(@, k, v)] \in Promised!Written(old)
  <2> DEFINE V(u, x) == {[old EXCEPT ![u] = Promised!Set(@, x, y)] : y \in StoredValues(u)}
             K(u) == UNION {V(u, x) : x \in Keys[u]}
  <2>1. [old EXCEPT ![t] = Promised!Set(@, k, v)] \in V(t, k)  BY Zenon
  <2>2. V(t, k) \subseteq UNION {K(u) : u \in Tables}
    <3>1. V(t, k) \subseteq K(t)
      <4> HIDE DEF V
      <4> QED  BY Zenon
    <3>2. K(t) \subseteq UNION {K(u) : u \in Tables}
      <4> HIDE DEF K
      <4> QED  BY Zenon
    <3> HIDE DEF V, K
    <3> QED  BY <3>1, <3>2
  <2>3. UNION {K(u) : u \in Tables} \subseteq Promised!Written(old)  BY Zenon DEF Promised!Written
  <2> QED  BY <2>1, <2>2, <2>3
<1>7. Views(b, Tables, new) \in Promised!Written(old)  BY <1>3, <1>4, <1>5, <1>6
<1> QED  BY <1>4, <1>7 DEF new, old

(* The same of a deletion.                                                 *)
LEMMA DeleteWrites ==
  ASSUME Tables \in SUBSET AllTables, NEW b \in Backends, NEW content, GoodContent(b, Tables, content),
         NEW t \in Tables, NEW k \in Keys[t]
  PROVE  /\ GoodContent(b, Tables, DeletedIn(b, content, t, k))
         /\ Views(b, Tables, DeletedIn(b, content, t, k)) \in Promised!Written(Views(b, Tables, content))
<1> DEFINE old == Views(b, Tables, content)
           new == DeletedIn(b, content, t, k)
           cells == PartCells(b, t, content[t])
           c == Updated(cells, k, {})
<1>1. Changed(b, content, new, t, c)  BY DeletedGood
<1>2. cells \in CellMaps(t) /\ old[t] = ViewOf(cells)  BY PartCellsGood DEF GoodContent, Views
<1> HIDE DEF new, cells
<1>3. ViewOf(c) = Dropped(old[t], {k})  BY <1>2, ViewDropped
<1> HIDE DEF c
<1>4. GoodContent(b, Tables, new) /\ Views(b, Tables, new) = Updated(old, t, ViewOf(c))  BY <1>1, ViewsChanged
<1> HIDE DEF old
<1>5. Updated(old, t, Dropped(old[t], {k})) = [old EXCEPT ![t] = Promised!Unset(@, k)]
  BY DEF Updated, Promised!Unset, Dropped
<1>6. [old EXCEPT ![t] = Promised!Unset(@, k)] \in Promised!Written(old)
  <2> DEFINE K(u) == {[old EXCEPT ![u] = Promised!Unset(@, x)] : x \in Keys[u]}
  <2>1. [old EXCEPT ![t] = Promised!Unset(@, k)] \in K(t)  BY Zenon
  <2>2. K(t) \subseteq UNION {K(y) : y \in Tables}
    <3> HIDE DEF K
    <3> QED  BY Zenon
  <2>3. UNION {K(u) : u \in Tables} \subseteq Promised!Written(old)  BY Zenon DEF Promised!Written
  <2> QED  BY <2>1, <2>2, <2>3
<1>7. Views(b, Tables, new) \in Promised!Written(old)  BY <1>3, <1>4, <1>5, <1>6
<1> QED  BY <1>4, <1>7 DEF new, old

(* The same of a truncation.                                               *)
LEMMA TruncateWrites ==
  ASSUME Tables \in SUBSET AllTables, NEW b \in Backends, NEW content, GoodContent(b, Tables, content), NEW t \in Tables
  PROVE  /\ GoodContent(b, Tables, TruncatedIn(b, content, t))
         /\ Views(b, Tables, TruncatedIn(b, content, t)) \in Promised!Written(Views(b, Tables, content))
<1> DEFINE old == Views(b, Tables, content)
           new == TruncatedIn(b, content, t)
<1>1. Changed(b, content, new, t, NoCells(t))  BY TruncatedGood
<1> HIDE DEF new
<1>3. ViewOf(NoCells(t)) = << >>  BY ViewEmpty
<1>4. GoodContent(b, Tables, new) /\ Views(b, Tables, new) = Updated(old, t, ViewOf(NoCells(t)))  BY <1>1, ViewsChanged
<1> HIDE DEF old
<1>5. Updated(old, t, << >>) = [old EXCEPT ![t] = << >>]  BY DEF Updated
<1>6. [old EXCEPT ![t] = << >>] \in Promised!Written(old)  BY DEF Promised!Written
<1>7. Views(b, Tables, new) \in Promised!Written(old)  BY <1>3, <1>4, <1>5, <1>6
<1> QED  BY <1>4, <1>7 DEF new, old

(* A commit applies the pending changes.                                   *)
LEMMA CommitApplies ==
  ASSUME Tables \in SUBSET AllTables, NEW b \in Backends, NEW content, GoodContent(b, Tables, content),
         NEW bt, GoodBatch(b, Tables, bt)
  PROVE  /\ GoodContent(b, Tables, CommittedIn(b, content, bt))
         /\ Views(b, Tables, CommittedIn(b, content, bt))
              = Promised!Applied(Views(b, Tables, content), PendingOf(b, Tables, bt))
<1> DEFINE old == Views(b, Tables, content)
           new == CommittedIn(b, content, bt)
           changes == PendingOf(b, Tables, bt)
<1>1. /\ GoodContent(b, Tables, new)
      /\ \A t \in Tables : \A k \in Keys[t] :
            CellAfter(b, content, new, t, k, Hits(b, bt, t, k) # {}, After({}, Late(b, bt, t, k)))
  BY CommittedGood
<1> HIDE DEF new, Hits, Late
<1>2. \A t \in Tables : \A k \in Keys[t] :
        /\ <<t, k>> \in DOMAIN changes <=> Hits(b, bt, t, k) # {}
        /\ Hits(b, bt, t, k) # {} => changes[<<t, k>>] = Late(b, bt, t, k)
  <2>1. DOMAIN changes = ChangedKeys(b, Tables, bt)
        /\ \A c \in ChangedKeys(b, Tables, bt) : changes[c] = Late(b, bt, c[1], c[2])
    BY DEF PendingOf
  <2>2. ASSUME NEW t \in Tables, NEW k \in Keys[t]
        PROVE  <<t, k>> \in ChangedKeys(b, Tables, bt) <=> Hits(b, bt, t, k) # {}
    BY DEF ChangedKeys
  <2> HIDE DEF changes
  <2> QED  BY <2>1, <2>2
<1>3. ASSUME NEW t \in Tables
      PROVE  LET changed == {k \in Keys[t] : <<t, k>> \in DOMAIN changes}
                 gone == {k \in changed : changes[<<t, k>>] = Gone}
             IN  ViewOf(PartCells(b, t, new[t]))
                   = [k \in (DOMAIN old[t] \cup changed) \ gone |->
                        IF k \in changed THEN changes[<<t, k>>] ELSE old[t][k]]
  <2> DEFINE changed == {k \in Keys[t] : <<t, k>> \in DOMAIN changes}
             gone == {k \in changed : changes[<<t, k>>] = Gone}
             c == PartCells(b, t, content[t])
             d == PartCells(b, t, new[t])
             D == (DOMAIN old[t] \cup changed) \ gone
             val == [k \in D |-> IF k \in changed THEN changes[<<t, k>>] ELSE old[t][k]]
  <2>1. c \in CellMaps(t) /\ d \in CellMaps(t) /\ old[t] = ViewOf(c)  BY <1>1, PartCellsGood DEF GoodContent, Views
  <2>2. \A k \in Keys[t] : d[k] = IF Hits(b, bt, t, k) # {} THEN After({}, Late(b, bt, t, k)) ELSE c[k]
    BY <1>1 DEF CellAfter
  <2>3. \A k \in Keys[t] : k \in changed <=> Hits(b, bt, t, k) # {}  BY <1>2
  <2>4. \A k \in changed : k \in Keys[t] /\ changes[<<t, k>>] = Late(b, bt, t, k)  BY <1>2
  <2>5. \A k \in changed : Late(b, bt, t, k) \in StoredValues(t) \cup {Gone}  BY <2>3, LateType
  <2>6. \A k : k \in gone <=> k \in changed /\ Late(b, bt, t, k) = Gone  BY <2>4
  <2> HIDE DEF changed, gone, c, d, old, changes
  <2>7. DOMAIN ViewOf(d) = D
    <3>1. DOMAIN ViewOf(d) \subseteq Keys[t] /\ DOMAIN ViewOf(c) \subseteq Keys[t]  BY <2>1, ViewType
    <3>2. D \subseteq Keys[t]  BY <2>1, <2>4, <3>1
    <3>3. ASSUME NEW k \in Keys[t]  PROVE k \in DOMAIN ViewOf(d) <=> k \in D
      <4>1. k \in DOMAIN ViewOf(d) <=> d[k] # {}  BY <2>1, CellCases
      <4>2. k \in DOMAIN ViewOf(c) <=> c[k] # {}  BY <2>1, CellCases
      <4>3. CASE k \in changed
        <5>1. d[k] = After({}, Late(b, bt, t, k))  BY <2>2, <2>3, <4>3
        <5>2. d[k] = {} <=> Late(b, bt, t, k) = Gone  BY <5>1 DEF After
        <5> QED  BY <2>6, <4>1, <4>3, <5>2
      <4>4. CASE k \notin changed
        <5>1. d[k] = c[k]  BY <2>2, <2>3, <4>4
        <5> QED  BY <2>1, <2>6, <4>1, <4>2, <4>4, <5>1
      <4> QED  BY <4>3, <4>4
    <3> HIDE DEF D
    <3> QED  BY <3>1, <3>2, <3>3
  <2>8. ASSUME NEW k \in D  PROVE ViewOf(d)[k] = IF k \in changed THEN changes[<<t, k>>] ELSE old[t][k]
    <3>1. k \in Keys[t] /\ k \in DOMAIN ViewOf(d)  BY <2>1, <2>7, ViewType
    <3>2. PICK v \in StoredValues(t) : d[k] = {v} /\ ViewOf(d)[k] = v  BY <2>1, <3>1, CellCases
    <3>3. CASE k \in changed
      <4>1. d[k] = After({}, Late(b, bt, t, k))  BY <2>2, <2>3, <3>1, <3>3
      <4>2. Late(b, bt, t, k) = v  BY <3>2, <4>1 DEF After
      <4> QED  BY <2>4, <3>2, <3>3, <4>2
    <3>4. CASE k \notin changed
      <4>1. c[k] = {v}  BY <2>2, <2>3, <3>1, <3>2, <3>4
      <4>2. ViewOf(c)[k] = v  BY <2>1, <3>1, <4>1, CellCases
      <4> QED  BY <2>1, <3>2, <3>4, <4>2
    <3> QED  BY <3>3, <3>4
  <2>9. ViewOf(d) = [k \in DOMAIN ViewOf(d) |-> ViewOf(d)[k]]  BY <2>1, ViewType
  <2> HIDE DEF D
  <2>10. ViewOf(d) = [k \in D |-> IF k \in changed THEN changes[<<t, k>>] ELSE old[t][k]]  BY <2>7, <2>8, <2>9
  <2> QED  BY <2>10 DEF D, gone, changed, d
<1> HIDE DEF old, changes
<1>4. Views(b, Tables, new) = Promised!Applied(old, changes)
  BY <1>3 DEF Views, Promised!Applied, Promised!Gone, Gone
<1> QED  BY <1>1, <1>4 DEF new, old, changes

-----------------------------------------------------------------------------
(***************************************************************************)
(* The storage at work.  While it runs it is marked Idle, so what a crash  *)
(* leaves on disk is not Healthy; what is Healthy on disk are the rows of  *)
(* the last shutdown.                                                      *)
(***************************************************************************)
Healths == {"None", "Idle", "Healthy", "Corrupted"}

GoodRows(ts, rows) ==
  \A t \in ts : DOMAIN rows[t] \subseteq Keys[t] /\ \A k \in DOMAIN rows[t] : rows[t][k] \in StoredValues(t)

StorageInv ==
  /\ Tables \in SUBSET AllTables /\ backend \in Backends
  /\ running \in BOOLEAN /\ writes \in 0 .. MaxWrites
  /\ stored_health \in Healths /\ disk.health \in Healths
  /\ running => /\ stored_health = "Idle"
                /\ GoodContent(backend, Tables, inner) /\ GoodBatch(backend, Tables, batch)
  /\ ~running => batch = NoBatch
  /\ backend # "memory" /\ disk.health \in {"None", "Healthy"} =>
       GoodContent(backend, Tables, disk.rows) /\ Views(backend, Tables, disk.rows) = saved
  /\ backend = "memory" => saved = [t \in Tables |-> << >>]
  /\ GoodRows(Tables, saved)

(* What the users see is what the backend holds.                           *)
Seen ==
  /\ Pending = PendingOf(backend, Tables, batch)
  /\ Rows = IF running THEN Views(backend, Tables, inner) ELSE saved

\* What the specification sees of every state.
LEMMA SeenAlways == StorageInv => Seen
<1> SUFFICES ASSUME StorageInv  PROVE Seen  OBVIOUS
<1>1. Pending = PendingOf(backend, Tables, batch)  BY PendingIs DEF StorageInv
<1>2. CASE running
  <2>1. RowsOf(inner) = Views(backend, Tables, inner)  BY <1>2, RowsAreViews DEF StorageInv
  <2> QED  BY <1>1, <1>2, <2>1 DEF Seen, Rows
<1>3. CASE ~running  BY <1>1, <1>3 DEF Seen, Rows
<1> QED  BY <1>2, <1>3

(* The rows that are seen have the types of their tables.                  *)
LEMMA ViewsGood ==
  ASSUME NEW b, NEW ts \in SUBSET AllTables, NEW content, GoodContent(b, ts, content)
  PROVE  GoodRows(ts, Views(b, ts, content))
<1> SUFFICES ASSUME NEW t \in ts
             PROVE  /\ DOMAIN Views(b, ts, content)[t] \subseteq Keys[t]
                    /\ \A k \in DOMAIN Views(b, ts, content)[t] : Views(b, ts, content)[t][k] \in StoredValues(t)
  BY DEF GoodRows
<1>1. PartCells(b, t, content[t]) \in CellMaps(t)  BY PartCellsGood DEF GoodContent
<1>2. Views(b, ts, content)[t] = ViewOf(PartCells(b, t, content[t]))  BY DEF Views
<1> QED  BY <1>1, <1>2, ViewType

(* A storage that was never written to has no rows.                        *)
LEMMA NothingStored ==
  ASSUME Tables \in SUBSET AllTables, backend \in Backends
  PROVE  GoodContent(backend, Tables, NoInner) /\ Views(backend, Tables, NoInner) = [t \in Tables |-> << >>]
<1>1. NoInner = [t \in Tables |-> << >>]  BY DEF NoInner, Backends, InnerStorage, EmptyTrees, EmptyFamilies
<1>2. \A t \in Tables : NoInner[t] = << >> /\ GoodPart(backend, t, << >>) /\ PartCells(backend, t, << >>) = NoCells(t)
  BY <1>1, PartEmpty
<1> HIDE DEF NoInner
<1>3. GoodContent(backend, Tables, NoInner)  BY <1>1, <1>2 DEF GoodContent
<1>4. \A t \in Tables : ViewOf(PartCells(backend, t, NoInner[t])) = << >>  BY <1>2, ViewEmpty
<1>5. Views(backend, Tables, NoInner) = [t \in Tables |-> << >>]  BY <1>4 DEF Views
<1> QED  BY <1>3, <1>5

(* A table without rows has the right types.                               *)
LEMMA NoRowsGood == \A ts : GoodRows(ts, [t \in ts |-> << >>])
<1> SUFFICES ASSUME NEW ts, NEW t \in ts  PROVE DOMAIN [x \in ts |-> << >>][t] = {}
  BY DEF GoodRows
<1>1. DOMAIN << >> = {}  BY NoKeys
<1> QED  BY <1>1

(* The first state.                                                        *)
LEMMA StorageInvInit == StorageInit => StorageInv
<1> SUFFICES ASSUME StorageInit  PROVE StorageInv  OBVIOUS
<1>1. Tables \in SUBSET AllTables /\ backend \in Backends  BY StorageAssumption DEF StorageInit
<1>2. disk.rows = NoInner /\ disk.health = "None"  BY DEF StorageInit
<1>3. GoodContent(backend, Tables, NoInner) /\ Views(backend, Tables, NoInner) = [t \in Tables |-> << >>]
  BY <1>1, NothingStored
<1>4. GoodRows(Tables, saved) /\ saved = [t \in Tables |-> << >>]  BY NoRowsGood DEF StorageInit
<1>5. running = FALSE /\ batch = NoBatch /\ stored_health = "None" /\ writes = 0  BY DEF StorageInit
<1>6. 0 \in 0 .. MaxWrites  BY StorageAssumption
<1> QED  BY <1>1, <1>2, <1>3, <1>4, <1>5, <1>6 DEF StorageInv, Healths

(* An empty batch stays empty: the backend is always the same.             *)
LEMMA NoBatchFixed == UNCHANGED <<Tables, backend>> => NoBatch' = NoBatch
BY DEF NoBatch, MemoryBatchBegin

(* A write keeps the invariant if the new content is good.                 *)
LEMMA WriteKeeps ==
  ASSUME StorageInv, NEW content, WriteRows(content), GoodContent(backend, Tables, content),
         writes' \in 0 .. MaxWrites
  PROVE  StorageInv'
<1>1. /\ UNCHANGED <<Tables, backend, stored_health, batch, disk, running, saved>> /\ running /\ inner' = content
  BY DEF WriteRows
<1> QED  BY <1>1 DEF StorageInv

(* The writes are counted up to their bound.                               *)
LEMMA CountKeeps == StorageInv /\ Counted => writes' \in 0 .. MaxWrites
BY StorageAssumption DEF StorageInv, Counted

(* The actions on the rows, as operations on the content.                  *)
LEMMA WriteActions ==
  ASSUME NEW t, NEW k, NEW v
  PROVE  /\ Insert(t, k, v) => Counted /\ WriteRows(InsertedIn(backend, inner, t, k, v))
         /\ Delete(t, k) => Counted /\ WriteRows(DeletedIn(backend, inner, t, k))
         /\ Truncate(t) => UNCHANGED writes /\ WriteRows(TruncatedIn(backend, inner, t))
         /\ BatchInsert(t, k, v) => Collect(InsertCollected(backend, batch, t, k, v))
         /\ BatchDelete(t, k) => Collect(DeleteCollected(backend, batch, t, k))
BY DEF Insert, Delete, Truncate, BatchInsert, BatchDelete, InsertedIn, DeletedIn, TruncatedIn, InsertCollected, DeleteCollected

(* A collected operation keeps the invariant if the new batch is good.     *)
LEMMA CollectKeeps ==
  ASSUME StorageInv, NEW bt, Collect(bt), GoodBatch(backend, Tables, bt)
  PROVE  StorageInv'
<1>1. /\ UNCHANGED <<Tables, backend, stored_health, inner, disk, running, saved>> /\ running /\ batch' = bt /\ Counted
  BY DEF Collect
<1>2. writes' \in 0 .. MaxWrites  BY <1>1, CountKeeps
<1> QED  BY <1>1, <1>2 DEF StorageInv

(* An action of the storage, when it runs and when it does not.            *)
LEMMA StorageInvStart == StorageInv /\ StartStorage => StorageInv'
<1> SUFFICES ASSUME StorageInv, StartStorage  PROVE StorageInv'  OBVIOUS
<1> DEFINE listed == IF backend = "memory" THEN [rows |-> NoInner, health |-> "None", version |-> NoVersion] ELSE disk
<1>1. /\ UNCHANGED <<Tables, backend, disk, writes, saved>> /\ running' = TRUE /\ batch' = NoBatch
      /\ stored_health' = "Idle" /\ inner' = listed.rows /\ listed.health \in {"None", "Healthy"}
  BY DEF StartStorage
<1>2. Tables \in SUBSET AllTables /\ backend \in Backends  BY DEF StorageInv
<1>3. GoodContent(backend, Tables, listed.rows)
  <2>1. CASE backend = "memory"
    <3>1. listed.rows = NoInner  BY <2>1
    <3> QED  BY <1>2, <3>1, NothingStored
  <2>2. CASE backend # "memory"  BY <1>1, <2>2 DEF StorageInv
  <2> QED  BY <2>1, <2>2
<1>4. GoodBatch(backend, Tables, NoBatch)  BY <1>2, NothingPending
<1> HIDE DEF listed
<1> QED  BY <1>1, <1>3, <1>4 DEF StorageInv, Healths

\* The storage is flushed, marked, shut down or lost in a crash.
LEMMA StorageInvStop ==
  StorageInv /\ (ShutdownStorage \/ Flush \/ CrashStorage \/ SetCorrupted) => StorageInv'
<1> SUFFICES ASSUME StorageInv, running  PROVE ShutdownStorage \/ Flush \/ CrashStorage \/ SetCorrupted => StorageInv'
  BY DEF ShutdownStorage, Flush, CrashStorage, SetCorrupted
<1>0. Tables \in SUBSET AllTables /\ backend \in Backends /\ GoodContent(backend, Tables, inner) /\ stored_health = "Idle"
  BY DEF StorageInv
<1>1. ASSUME ShutdownStorage  PROVE StorageInv'
  <2>1. /\ UNCHANGED <<Tables, backend, inner, writes>> /\ running' = FALSE /\ batch' = NoBatch
        /\ stored_health' = "Healthy" /\ disk'.rows = inner /\ disk'.health = "Healthy"
        /\ saved' = IF backend = "memory" THEN [t \in Tables |-> << >>] ELSE RowsOf(inner)
    BY <1>1 DEF ShutdownStorage
  <2>2. NoBatch' = NoBatch  BY <2>1, NoBatchFixed
  <2>3. RowsOf(inner) = Views(backend, Tables, inner)  BY <1>0, RowsAreViews
  <2>4. GoodRows(Tables, saved')  BY <1>0, <2>1, <2>3, NoRowsGood, ViewsGood
  <2> HIDE DEF NoBatch, RowsOf
  <2> QED  BY <1>0, <2>1, <2>2, <2>3, <2>4 DEF StorageInv, Healths
<1>2. ASSUME Flush  PROVE StorageInv'
  <2>1. /\ UNCHANGED <<Tables, backend, inner, writes, stored_health, batch, running, saved>> /\ disk'.health = "Idle"
    BY <1>0, <1>2 DEF Flush
  <2> QED  BY <2>1 DEF StorageInv, Healths
<1>3. ASSUME CrashStorage  PROVE StorageInv'
  <2>1. /\ UNCHANGED <<Tables, backend, inner, writes, stored_health, disk, saved>> /\ running' = FALSE /\ batch' = NoBatch
    BY <1>3 DEF CrashStorage
  <2>2. NoBatch' = NoBatch  BY <2>1, NoBatchFixed
  <2> HIDE DEF NoBatch
  <2> QED  BY <2>1, <2>2 DEF StorageInv
<1>4. ASSUME SetCorrupted  PROVE StorageInv'
  <2>1. /\ UNCHANGED <<Tables, backend, inner, writes, saved>> /\ running' = FALSE /\ batch' = NoBatch
        /\ stored_health' = "Corrupted" /\ disk'.health = "Corrupted"
    BY <1>4 DEF SetCorrupted
  <2>2. NoBatch' = NoBatch  BY <2>1, NoBatchFixed
  <2> HIDE DEF NoBatch
  <2> QED  BY <2>1, <2>2 DEF StorageInv, Healths
<1> QED  BY <1>1, <1>2, <1>3, <1>4

(* A commit empties the batch.                                             *)
LEMMA StorageInvCommit == StorageInv /\ BatchCommit => StorageInv'
<1> SUFFICES ASSUME StorageInv, BatchCommit  PROVE StorageInv'  OBVIOUS
<1>1. /\ UNCHANGED <<Tables, backend, stored_health, disk, running, writes, saved>> /\ running /\ batch' = NoBatch
      /\ inner' = CommittedIn(backend, inner, batch)
  BY DEF BatchCommit, CommittedIn
<1>2. GoodContent(backend, Tables, CommittedIn(backend, inner, batch))  BY <1>1, CommitApplies DEF StorageInv
<1>3. GoodBatch(backend, Tables, NoBatch)  BY NothingPending DEF StorageInv
<1> HIDE DEF NoBatch
<1> QED  BY <1>1, <1>2, <1>3 DEF StorageInv

(* Every step keeps the invariant.                                         *)
LEMMA StorageInvNext == StorageInv /\ [StorageNext]_storageVars => StorageInv'
<1> SUFFICES ASSUME StorageInv, [StorageNext]_storageVars  PROVE StorageInv'  OBVIOUS
<1>0. Tables \in SUBSET AllTables /\ backend \in Backends  BY DEF StorageInv
<1>1. CASE UNCHANGED storageVars
  <2>1. UNCHANGED <<Tables, backend, inner, stored_health, batch, disk, running, writes, saved>>  BY <1>1 DEF storageVars
  <2>2. NoBatch' = NoBatch  BY <2>1, NoBatchFixed
  <2> QED  BY <2>1, <2>2 DEF StorageInv
<1>2. CASE StartStorage  BY <1>2, StorageInvStart
<1>3. CASE ShutdownStorage \/ Flush \/ CrashStorage \/ SetCorrupted  BY <1>3, StorageInvStop
<1>4. CASE BatchCommit  BY <1>4, StorageInvCommit
<1>5. ASSUME NEW t \in Tables, Truncate(t)  PROVE StorageInv'
  <2>1. UNCHANGED writes /\ WriteRows(TruncatedIn(backend, inner, t))  BY <1>5, WriteActions
  <2>2. GoodContent(backend, Tables, inner) /\ writes' \in 0 .. MaxWrites  BY <2>1 DEF WriteRows, StorageInv
  <2>3. GoodContent(backend, Tables, TruncatedIn(backend, inner, t))  BY <1>0, <2>2, TruncateWrites
  <2> QED  BY <2>1, <2>2, <2>3, WriteKeeps
<1>6. ASSUME NEW t \in Tables, NEW k \in Keys[t], NEW v \in StoredValues(t), Insert(t, k, v)  PROVE StorageInv'
  <2>1. Counted /\ WriteRows(InsertedIn(backend, inner, t, k, v))  BY <1>6, WriteActions
  <2>2. GoodContent(backend, Tables, inner) /\ writes' \in 0 .. MaxWrites  BY <2>1, CountKeeps DEF WriteRows, StorageInv
  <2>3. GoodContent(backend, Tables, InsertedIn(backend, inner, t, k, v))  BY <1>0, <2>2, InsertWrites
  <2> QED  BY <2>1, <2>2, <2>3, WriteKeeps
<1>7. ASSUME NEW t \in Tables, NEW k \in Keys[t], Delete(t, k)  PROVE StorageInv'
  <2>1. Counted /\ WriteRows(DeletedIn(backend, inner, t, k))  BY <1>7, WriteActions
  <2>2. GoodContent(backend, Tables, inner) /\ writes' \in 0 .. MaxWrites  BY <2>1, CountKeeps DEF WriteRows, StorageInv
  <2>3. GoodContent(backend, Tables, DeletedIn(backend, inner, t, k))  BY <1>0, <2>2, DeleteWrites
  <2> QED  BY <2>1, <2>2, <2>3, WriteKeeps
<1>8. ASSUME NEW t \in Tables, NEW k \in Keys[t], NEW v \in StoredValues(t), BatchInsert(t, k, v)  PROVE StorageInv'
  <2>1. Collect(InsertCollected(backend, batch, t, k, v))  BY <1>8, WriteActions
  <2>2. GoodBatch(backend, Tables, batch)  BY <2>1 DEF Collect, StorageInv
  <2>3. Collects(backend, Tables, batch, InsertCollected(backend, batch, t, k, v), t, k, v)  BY <1>0, <2>2, InsertCollects
  <2> QED  BY <2>1, <2>3, CollectKeeps DEF Collects
<1>9. ASSUME NEW t \in Tables, NEW k \in Keys[t], BatchDelete(t, k)  PROVE StorageInv'
  <2>1. Collect(DeleteCollected(backend, batch, t, k))  BY <1>9, WriteActions
  <2>2. GoodBatch(backend, Tables, batch)  BY <2>1 DEF Collect, StorageInv
  <2>3. Collects(backend, Tables, batch, DeleteCollected(backend, batch, t, k), t, k, Gone)  BY <1>0, <2>2, DeleteCollects
  <2> QED  BY <2>1, <2>3, CollectKeeps DEF Collects
<1> QED  BY <1>1, <1>2, <1>3, <1>4, <1>5, <1>6, <1>7, <1>8, <1>9 DEF StorageNext

-----------------------------------------------------------------------------
(* The first state is one of StorageSpec.                                  *)
LEMMA PromisedInit == StorageInit => Promised!Init
<1> SUFFICES ASSUME StorageInit  PROVE Promised!Init  OBVIOUS
<1>1. StorageInv /\ running = FALSE /\ batch = NoBatch /\ saved = [t \in Tables |-> << >>]
  BY StorageInvInit DEF StorageInit
<1>2. Seen  BY <1>1, SeenAlways
<1>3. Pending = << >>
  <2>1. PendingOf(backend, Tables, NoBatch) = << >>  BY <1>1, NothingPending DEF StorageInv
  <2> HIDE DEF Pending, NoBatch
  <2> QED  BY <1>1, <1>2, <2>1 DEF Seen
<1>4. Rows = saved  BY <1>1, <1>2 DEF Seen
<1>5. Tables \subseteq DOMAIN Keys  BY <1>1, StorageTablesAssumption DEF StorageInv
<1> HIDE DEF Pending, Rows
<1>6. (backend # "memory") \in BOOLEAN  OBVIOUS
<1> QED  BY <1>1, <1>3, <1>4, <1>5, <1>6 DEF Promised!Init, Promised!NoRows

(* A direct write is a Write.                                              *)
LEMMA WriteIsWrite ==
  ASSUME StorageInv, Seen, Seen', NEW content, WriteRows(content),
         Views(backend, Tables, content) \in Promised!Written(Views(backend, Tables, inner))
  PROVE  Promised!Write
<1>1. UNCHANGED <<Tables, backend, batch, running, saved>> /\ running /\ inner' = content  BY DEF WriteRows
<1>2. Pending' = Pending  BY <1>1 DEF Seen
<1>3. Rows = Views(backend, Tables, inner) /\ Rows' = Views(backend, Tables, content)  BY <1>1 DEF Seen
<1>4. Rows' \in Promised!Written(Rows)  BY <1>3
<1>5. (backend # "memory")' = (backend # "memory")  BY <1>1
<1> HIDE DEF Pending, Rows
<1> QED  BY <1>1, <1>2, <1>4, <1>5 DEF Promised!Write

(* An operation that is added to a batch is a BatchCollect.                *)
LEMMA CollectIsCollect ==
  ASSUME StorageInv, Seen, Seen', NEW bt, Collect(bt), NEW t \in Tables, NEW k \in Keys[t], NEW w \in StoredValues(t) \cup {Gone},
         Collects(backend, Tables, batch, bt, t, k, w)
  PROVE  Promised!BatchCollect
<1>1. UNCHANGED <<Tables, backend, inner, running, saved>> /\ running /\ batch' = bt  BY DEF Collect
<1>2. Rows' = Rows  BY <1>1 DEF Seen
<1>3. Pending = PendingOf(backend, Tables, batch) /\ Pending' = PendingOf(backend, Tables, bt)  BY <1>1 DEF Seen
<1>4. PendingOf(backend, Tables, bt) = Stored(PendingOf(backend, Tables, batch), <<t, k>>, w)  BY PendingCollected
<1> HIDE DEF Pending, Rows
<1>5. Pending' = Promised!Set(Pending, <<t, k>>, w)  BY <1>3, <1>4 DEF Promised!Set, Stored
<1>6. Promised!Set(Pending, <<t, k>>, w) \in Promised!Collected(Pending)
  <2> DEFINE V(u, x) == {Promised!Set(Pending, <<u, x>>, y) : y \in StoredValues(u) \cup {Promised!Gone}}
             K(u) == UNION {V(u, x) : x \in Keys[u]}
  <2>0. w \in StoredValues(t) \cup {Promised!Gone}  BY DEF Gone, Promised!Gone
  <2>1. Promised!Set(Pending, <<t, k>>, w) \in V(t, k)  BY <2>0, Zenon
  <2>2. V(t, k) \subseteq UNION {K(u) : u \in Tables}
    <3>1. V(t, k) \subseteq K(t)
      <4> HIDE DEF V
      <4> QED  BY Zenon
    <3>2. K(t) \subseteq UNION {K(u) : u \in Tables}
      <4> HIDE DEF K
      <4> QED  BY Zenon
    <3> HIDE DEF V, K
    <3> QED  BY <3>1, <3>2
  <2>3. UNION {K(u) : u \in Tables} = Promised!Collected(Pending)  BY Zenon DEF Promised!Collected
  <2> HIDE DEF V, K
  <2> QED  BY <2>1, <2>2, <2>3
<1>7. Pending' \in Promised!Collected(Pending)  BY <1>5, <1>6
<1>8. (backend # "memory")' = (backend # "memory")  BY <1>1
<1> QED  BY <1>1, <1>2, <1>7, <1>8 DEF Promised!BatchCollect

(* A commit is a BatchCommit.                                              *)
LEMMA CommitIsCommit ==
  ASSUME StorageInv, Seen, Seen', BatchCommit
  PROVE  Promised!BatchCommit
<1>1. /\ UNCHANGED <<Tables, backend, running, saved>> /\ running /\ batch' = NoBatch
      /\ inner' = CommittedIn(backend, inner, batch)
  BY DEF BatchCommit, CommittedIn
<1>2. PendingOf(backend, Tables, NoBatch) = << >>  BY NothingPending DEF StorageInv
<1>3. Views(backend, Tables, CommittedIn(backend, inner, batch))
        = Promised!Applied(Views(backend, Tables, inner), PendingOf(backend, Tables, batch))
  BY <1>1, CommitApplies DEF StorageInv
<1>4. Rows = Views(backend, Tables, inner) /\ Rows' = Views(backend, Tables, CommittedIn(backend, inner, batch))
  BY <1>1 DEF Seen
<1> HIDE DEF NoBatch
<1>5. Pending = PendingOf(backend, Tables, batch) /\ Pending' = << >>  BY <1>1, <1>2 DEF Seen
<1>6. Rows' = Promised!Applied(Rows, Pending)  BY <1>3, <1>4, <1>5
<1>7. (backend # "memory")' = (backend # "memory")  BY <1>1
<1> HIDE DEF Pending, Rows
<1> QED  BY <1>1, <1>5, <1>6, <1>7 DEF Promised!BatchCommit

(* A start is an Open: it finds the rows of the last shutdown.             *)
LEMMA StartIsOpen ==
  ASSUME StorageInv, Seen, Seen', StartStorage
  PROVE  Promised!Open
<1> DEFINE listed == IF backend = "memory" THEN [rows |-> NoInner, health |-> "None", version |-> NoVersion] ELSE disk
<1>1. /\ UNCHANGED <<Tables, backend, saved>> /\ ~running /\ running' = TRUE /\ batch' = NoBatch
      /\ inner' = listed.rows /\ listed.health \in {"None", "Healthy"}
  BY DEF StartStorage
<1>2. Views(backend, Tables, listed.rows) = saved
  <2>1. CASE backend = "memory"
    <3>1. listed.rows = NoInner  BY <2>1
    <3>2. Views(backend, Tables, NoInner) = [t \in Tables |-> << >>]  BY NothingStored DEF StorageInv
    <3> HIDE DEF listed, NoInner
    <3> QED  BY <2>1, <3>1, <3>2 DEF StorageInv
  <2>2. CASE backend # "memory"  BY <1>1, <2>2 DEF StorageInv
  <2> QED  BY <2>1, <2>2
<1> HIDE DEF listed
<1>3. Rows' = saved  BY <1>1, <1>2 DEF Seen
<1>4. batch = NoBatch  BY <1>1 DEF StorageInv
<1>5. Pending' = Pending
  <2> HIDE DEF NoBatch
  <2> QED  BY <1>1, <1>4 DEF Seen
<1>6. (backend # "memory")' = (backend # "memory")  BY <1>1
<1> HIDE DEF Pending, Rows
<1> QED  BY <1>1, <1>3, <1>5, <1>6 DEF Promised!Open

(* A shutdown is a Close.                                                  *)
LEMMA ShutdownIsClose ==
  ASSUME StorageInv, Seen, Seen', ShutdownStorage
  PROVE  Promised!Close
<1>1. /\ UNCHANGED <<Tables, backend>> /\ running /\ running' = FALSE /\ batch' = NoBatch
      /\ saved' = IF backend = "memory" THEN [t \in Tables |-> << >>] ELSE RowsOf(inner)
  BY DEF ShutdownStorage
<1>2. PendingOf(backend, Tables, NoBatch) = << >>  BY NothingPending DEF StorageInv
<1> HIDE DEF NoBatch
<1>3. Pending' = << >>  BY <1>1, <1>2 DEF Seen
<1>4. Rows' = saved'  BY <1>1 DEF Seen
<1>5. Rows = RowsOf(inner)  BY <1>1 DEF Rows
<1>6. (backend # "memory")' = (backend # "memory")  BY <1>1
<1> HIDE DEF Pending, Rows
<1>7. saved' = IF backend # "memory" THEN Rows ELSE [t \in Tables |-> << >>]  BY <1>1, <1>5
<1> QED  BY <1>1, <1>3, <1>4, <1>6, <1>7 DEF Promised!Close, Promised!NoRows

(* A crash and a failed import are a Crash.                                *)
LEMMA CrashIsCrash ==
  ASSUME StorageInv, Seen, Seen', CrashStorage \/ SetCorrupted
  PROVE  Promised!Crash
<1>1. UNCHANGED <<Tables, backend, saved>> /\ running /\ running' = FALSE /\ batch' = NoBatch
  BY DEF CrashStorage, SetCorrupted
<1>2. PendingOf(backend, Tables, NoBatch) = << >>  BY NothingPending DEF StorageInv
<1> HIDE DEF NoBatch
<1>3. Pending' = << >>  BY <1>1, <1>2 DEF Seen
<1>4. Rows' = saved  BY <1>1 DEF Seen
<1>6. (backend # "memory")' = (backend # "memory")  BY <1>1
<1> HIDE DEF Pending, Rows
<1> QED  BY <1>1, <1>3, <1>4, <1>6 DEF Promised!Crash

(* A step that changes none of what is seen stutters.                      *)
LEMMA StepStutters ==
  ASSUME Seen, Seen', UNCHANGED <<Tables, backend, inner, batch, running, saved>>
  PROVE  UNCHANGED Promised!vars
<1>1. Pending' = Pending /\ Rows' = Rows  BY DEF Seen
<1>2. (backend # "memory")' = (backend # "memory")  OBVIOUS
<1> HIDE DEF Pending, Rows
<1> QED  BY <1>1, <1>2 DEF Promised!vars

(* Every step of the storage is a step of StorageSpec, or none.            *)
LEMMA PromisedNext ==
  StorageInv /\ Seen /\ Seen' /\ [StorageNext]_storageVars => [Promised!Next]_(Promised!vars)
<1> SUFFICES ASSUME StorageInv, Seen, Seen', [StorageNext]_storageVars
             PROVE  [Promised!Next]_(Promised!vars)
  OBVIOUS
<1>0. Tables \in SUBSET AllTables /\ backend \in Backends  BY DEF StorageInv
<1>1. CASE UNCHANGED storageVars  BY <1>1, StepStutters DEF storageVars
<1>2. CASE StartStorage  BY <1>2, StartIsOpen DEF Promised!Next
<1>3. CASE ShutdownStorage  BY <1>3, ShutdownIsClose DEF Promised!Next
<1>4. CASE CrashStorage \/ SetCorrupted  BY <1>4, CrashIsCrash DEF Promised!Next
<1>5. CASE Flush
  <2>1. UNCHANGED <<Tables, backend, inner, batch, running, saved>>  BY <1>5 DEF Flush
  <2> QED  BY <2>1, StepStutters
<1>6. CASE BatchCommit  BY <1>6, CommitIsCommit DEF Promised!Next
<1>7. ASSUME NEW t \in Tables, Truncate(t)  PROVE Promised!Write
  <2>1. WriteRows(TruncatedIn(backend, inner, t))  BY <1>7, WriteActions
  <2>2. GoodContent(backend, Tables, inner)  BY <2>1 DEF WriteRows, StorageInv
  <2>3. Views(backend, Tables, TruncatedIn(backend, inner, t)) \in Promised!Written(Views(backend, Tables, inner))
    BY <1>0, <2>2, TruncateWrites
  <2> QED  BY <2>1, <2>3, WriteIsWrite
<1>8. ASSUME NEW t \in Tables, NEW k \in Keys[t], NEW v \in StoredValues(t), Insert(t, k, v)  PROVE Promised!Write
  <2>1. WriteRows(InsertedIn(backend, inner, t, k, v))  BY <1>8, WriteActions
  <2>2. GoodContent(backend, Tables, inner)  BY <2>1 DEF WriteRows, StorageInv
  <2>3. Views(backend, Tables, InsertedIn(backend, inner, t, k, v)) \in Promised!Written(Views(backend, Tables, inner))
    BY <1>0, <2>2, InsertWrites
  <2> QED  BY <2>1, <2>3, WriteIsWrite
<1>9. ASSUME NEW t \in Tables, NEW k \in Keys[t], Delete(t, k)  PROVE Promised!Write
  <2>1. WriteRows(DeletedIn(backend, inner, t, k))  BY <1>9, WriteActions
  <2>2. GoodContent(backend, Tables, inner)  BY <2>1 DEF WriteRows, StorageInv
  <2>3. Views(backend, Tables, DeletedIn(backend, inner, t, k)) \in Promised!Written(Views(backend, Tables, inner))
    BY <1>0, <2>2, DeleteWrites
  <2> QED  BY <2>1, <2>3, WriteIsWrite
<1>10. ASSUME NEW t \in Tables, NEW k \in Keys[t], NEW v \in StoredValues(t), BatchInsert(t, k, v)
       PROVE  Promised!BatchCollect
  <2>1. Collect(InsertCollected(backend, batch, t, k, v))  BY <1>10, WriteActions
  <2>2. GoodBatch(backend, Tables, batch)  BY <2>1 DEF Collect, StorageInv
  <2>3. Collects(backend, Tables, batch, InsertCollected(backend, batch, t, k, v), t, k, v)  BY <1>0, <2>2, InsertCollects
  <2> QED  BY <2>1, <2>3, CollectIsCollect
<1>11. ASSUME NEW t \in Tables, NEW k \in Keys[t], BatchDelete(t, k)  PROVE Promised!BatchCollect
  <2>1. Collect(DeleteCollected(backend, batch, t, k))  BY <1>11, WriteActions
  <2>2. GoodBatch(backend, Tables, batch)  BY <2>1 DEF Collect, StorageInv
  <2>3. Collects(backend, Tables, batch, DeleteCollected(backend, batch, t, k), t, k, Gone)  BY <1>0, <2>2, DeleteCollects
  <2> QED  BY <2>1, <2>3, CollectIsCollect
<1> QED
  BY <1>1, <1>2, <1>3, <1>4, <1>5, <1>6, <1>7, <1>8, <1>9, <1>10, <1>11 DEF StorageNext, Promised!Next

(* Whichever the backend, whatever the tables, keys and values: the storage *)
(* is a map per table, its writes and its batches are single steps, the     *)
(* last operation of a batch on a key decides, and what opens are the rows  *)
(* of the last shutdown.                                                    *)
THEOREM BackendsImplementSpec == StorageBehaviour => ImplementsStorageSpec
<1>1. StorageInit => StorageInv  BY StorageInvInit
<1>2. StorageInv /\ [StorageNext]_storageVars => StorageInv'  BY StorageInvNext
<1>3. StorageInv => Seen  BY SeenAlways
<1>4. StorageInit => Promised!Init  BY PromisedInit
<1>5. StorageInv /\ Seen /\ Seen' /\ [StorageNext]_storageVars => [Promised!Next]_(Promised!vars)  BY PromisedNext
<1> QED  BY <1>1, <1>2, <1>3, <1>4, <1>5, PTL DEF StorageBehaviour, ImplementsStorageSpec, Promised!Spec

-----------------------------------------------------------------------------
(***************************************************************************)
(* What the reads answer.                                                  *)
(***************************************************************************)
(* The right components that are related to a left one, and an answer that *)
(* lists them: each once, and all of them up to a limit.                   *)
RelatedTo(rows, left) == {k[2] : k \in {x \in DOMAIN rows : x[1] = left}}
Answers(listed, R, limited) ==
  /\ ToSet(listed) \subseteq R
  /\ Cardinality(ToSet(listed)) = Len(listed)
  /\ ToSet(listed) = R \/ (limited /\ Len(listed) = FetchLimit)

(* A list without duplicates has as many elements as its length.           *)
LEMMA ListCounted ==
  ASSUME NEW R, NEW s, GoodList(s, R)
  PROVE  Cardinality(ToSet(s)) = Len(s)
<1> DEFINE n == Len(s)
           T == ToSet(s)
<1>1. s \in Seq(R) /\ n \in Nat /\ DOMAIN s = 1 .. n /\ \A i, j \in 1 .. n : s[i] = s[j] => i = j  BY DEF GoodList
<1>2. s \in [1 .. n -> T] /\ \A x \in T : \E i \in 1 .. n : s[i] = x
  <2>1. s = [i \in 1 .. n |-> s[i]]  BY <1>1
  <2>2. T = {s[i] : i \in 1 .. n}  BY <1>1 DEF ToSet
  <2> HIDE DEF n, T
  <2> QED  BY <2>1, <2>2
<1> HIDE DEF n, T
<1>3. s \in Bijection(1 .. n, T)  BY <1>1, <1>2 DEF Bijection, Injection, Surjection, IsInjective
<1>4. Cardinality(T) = n  BY <1>1, <1>3, FS_CountingElements DEF ExistsBijection
<1> QED  BY <1>4 DEF n, T

(* A list of all, and the first ones of it.                                *)
LEMMA ListAnswers ==
  ASSUME NEW s, NEW R, GoodList(s, R), ToSet(s) = R
  PROVE  (\A limited \in BOOLEAN : Answers(s, R, limited)) /\ Answers(Take(s, FetchLimit), R, TRUE)
<1>0. Cardinality(ToSet(s)) = Len(s)  BY ListCounted
<1>1. \A limited \in BOOLEAN : Answers(s, R, limited)  BY <1>0, Zenon DEF Answers
<1> DEFINE n == IF Len(s) < FetchLimit THEN Len(s) ELSE FetchLimit
           r == SubSeq(s, 1, n)
<1>2. FetchLimit \in Nat  BY StorageTablesAssumption
<1>3. s \in Seq(R) /\ Len(s) \in Nat /\ \A i, j \in 1 .. Len(s) : s[i] = s[j] => i = j  BY DEF GoodList
<1>4. n \in Nat /\ n <= Len(s) /\ (n = Len(s) \/ n = FetchLimit)  BY <1>2, <1>3
<1> HIDE DEF n
<1>5. r \in Seq(R) /\ Len(r) = n /\ \A i \in 1 .. n : r[i] = s[i]  BY <1>3, <1>4
<1>6. Take(s, FetchLimit) = r  BY DEF Take, n
<1> HIDE DEF r
<1>7. GoodList(r, R)
  <2>1. \A i \in 1 .. n : i \in 1 .. Len(s)  BY <1>3, <1>4
  <2> QED  BY <1>3, <1>5, <2>1 DEF GoodList
<1>8. Cardinality(ToSet(r)) = Len(r)  BY <1>7, ListCounted
<1>9. ToSet(r) \subseteq R
  <2>1. \A i \in DOMAIN r : r[i] \in R  BY <1>5
  <2> QED  BY <2>1 DEF ToSet
<1>10. n = Len(s) => ToSet(r) = R
  <2>1. SUFFICES ASSUME n = Len(s)  PROVE ToSet(r) = ToSet(s)  OBVIOUS
  <2>2. DOMAIN r = DOMAIN s /\ \A i \in DOMAIN s : r[i] = s[i]  BY <1>3, <1>5, <2>1
  <2> QED  BY <2>2 DEF ToSet
<1>11. Answers(r, R, TRUE)
  <2>1. ToSet(r) = R \/ Len(r) = FetchLimit  BY <1>4, <1>5, <1>10
  <2> QED  BY <1>8, <1>9, <2>1, Zenon DEF Answers
<1> QED  BY <1>1, <1>6, <1>11

(* The bytes of the relations of a left component.                         *)
PrefixKeys(t, tree, left) == {bytes \in DOMAIN tree : SubSeq(bytes, 1, LeftLength(t)) = PackLeft(t, left)}

(* They are those of the rows with it.                                     *)
LEMMA PrefixIsLeft ==
  ASSUME NEW t \in Relations, NEW k \in Keys[t], NEW l \in LeftSpace(t)
  PROVE  /\ SubSeq(KeyBytes(t, k), 1, LeftLength(t)) = PackLeft(t, l) <=> k[1] = l
         /\ LeftLength(t) <= Len(KeyBytes(t, k))
         /\ UnpackRight(t, SubSeq(KeyBytes(t, k), LeftLength(t) + 1, Len(KeyBytes(t, k)))) = k[2]
<1> DEFINE a == PackLeft(t, k[1])
           r == PackRight(t, k[2])
           w == KeyBytes(t, k)
<1>0. k \in KeySpace(t)  BY PairKeys, TableKeys
<1>1. k[1] \in LeftSpace(t) /\ k[2] \in RightSpace(t) /\ Joins(w, a, r)  BY <1>0, RelationBytes
<1>2. Len(a) = LeftLength(t) /\ UnpackLeft(t, a) = k[1] /\ UnpackRight(t, r) = k[2]
  BY <1>1, LeftPacked, RightPacked
<1>3. UnpackLeft(t, PackLeft(t, l)) = l  BY LeftPacked
<1>4. a = PackLeft(t, l) <=> k[1] = l  BY <1>2, <1>3
<1> HIDE DEF a, r, w
<1>5. SubSeq(w, 1, LeftLength(t)) = a /\ SubSeq(w, LeftLength(t) + 1, Len(w)) = r /\ LeftLength(t) <= Len(w)
  BY <1>1, <1>2 DEF Joins
<1> QED  BY <1>2, <1>4, <1>5 DEF w

(* The right components of the relations of a left one, in the order of    *)
(* their bytes.                                                            *)
RightList(t, keys) ==
  [i \in DOMAIN Sorted(keys) |-> UnpackRight(t, SubSeq(Sorted(keys)[i], LeftLength(t) + 1, Len(Sorted(keys)[i])))]

(* It lists each of them once.                                             *)
LEMMA TreeRelated ==
  ASSUME NEW t \in Relations, NEW tree, GoodTree(t, tree), NEW l \in LeftSpace(t)
  PROVE  LET R == RelatedTo(ViewOf(TreeCells(t, tree)), l)
         IN  GoodList(RightList(t, PrefixKeys(t, tree, l)), R) /\ ToSet(RightList(t, PrefixKeys(t, tree, l))) = R
<1> DEFINE rows == ViewOf(TreeCells(t, tree))
           R == RelatedTo(rows, l)
           P == PrefixKeys(t, tree, l)
           q == Sorted(P)
           n == Cardinality(P)
           f == RightList(t, P)
           right == [b \in P |-> UnpackRight(t, SubSeq(b, LeftLength(t) + 1, Len(b)))]
<1>0. t \in AllTables /\ TreeCells(t, tree) \in CellMaps(t)  BY PairKeys, TreeCellsGood
<1>1. P \in SUBSET DOMAIN tree  BY DEF PrefixKeys
<1>2. IsFiniteSet(P) /\ P \subseteq Seq(Bytes)  BY <1>0, <1>1, TreeSorted
<1>3. /\ q \in Seq(P) /\ Len(q) = n /\ n \in Nat /\ \A x \in P : \E i \in 1 .. n : q[i] = x
      /\ \A i, j \in 1 .. n : q[i] = q[j] => i = j
  <2> HIDE DEF P
  <2> QED  BY <1>2, SortedLists
<1>4. \A k \in Keys[t] : k \in DOMAIN rows <=> KeyBytes(t, k) \in DOMAIN tree
  <2> SUFFICES ASSUME NEW k \in Keys[t]  PROVE k \in DOMAIN rows <=> KeyBytes(t, k) \in DOMAIN tree  OBVIOUS
  <2>1. TreeCells(t, tree)[k] = SledGet(tree, KeyBytes(t, k))  BY DEF TreeCells
  <2>2. k \in DOMAIN rows <=> TreeCells(t, tree)[k] # {}  BY <1>0, CellCases
  <2> HIDE DEF rows
  <2> QED  BY <2>1, <2>2 DEF SledGet
<1>5. DOMAIN rows \subseteq Keys[t]  BY <1>0, ViewType
<1> HIDE DEF rows
<1>6. ASSUME NEW b \in P  PROVE \E k \in DOMAIN rows : b = KeyBytes(t, k) /\ k[1] = l /\ right[b] = k[2] /\ k \in Keys[t]
  <2>1. b \in DOMAIN tree /\ SubSeq(b, 1, LeftLength(t)) = PackLeft(t, l)  BY DEF PrefixKeys
  <2>2. PICK k \in Keys[t] : b = KeyBytes(t, k)  BY <2>1 DEF GoodTree
  <2>3. k \in DOMAIN rows  BY <1>4, <2>1, <2>2
  <2>4. k[1] = l /\ UnpackRight(t, SubSeq(b, LeftLength(t) + 1, Len(b))) = k[2]  BY <2>1, <2>2, PrefixIsLeft
  <2> HIDE DEF P
  <2> QED  BY <2>2, <2>3, <2>4
<1>7. ASSUME NEW k \in DOMAIN rows, k[1] = l  PROVE KeyBytes(t, k) \in P /\ right[KeyBytes(t, k)] = k[2]
  <2>1. k \in Keys[t] /\ KeyBytes(t, k) \in DOMAIN tree  BY <1>4, <1>5
  <2>2. SubSeq(KeyBytes(t, k), 1, LeftLength(t)) = PackLeft(t, l)
        /\ UnpackRight(t, SubSeq(KeyBytes(t, k), LeftLength(t) + 1, Len(KeyBytes(t, k)))) = k[2]
    BY <1>7, <2>1, PrefixIsLeft
  <2>3. KeyBytes(t, k) \in P  BY <2>1, <2>2 DEF PrefixKeys
  <2> HIDE DEF P
  <2> QED  BY <2>2, <2>3
<1>8. f = [i \in 1 .. n |-> right[q[i]]]
  <2>1. DOMAIN q = 1 .. n /\ \A i \in 1 .. n : q[i] \in P  BY <1>3
  <2>2. f = [i \in DOMAIN q |-> UnpackRight(t, SubSeq(q[i], LeftLength(t) + 1, Len(q[i])))]  BY DEF RightList
  <2>3. \A b \in P : right[b] = UnpackRight(t, SubSeq(b, LeftLength(t) + 1, Len(b)))  OBVIOUS
  <2> HIDE DEF q, f, P, n, right
  <2> QED  BY <2>1, <2>2, <2>3
<1>9. \A x : x \in R <=> \E k \in DOMAIN rows : k[1] = l /\ x = k[2]  BY DEF RelatedTo
<1>10. ASSUME NEW b \in P, NEW d \in P, right[b] = right[d]  PROVE b = d
  <2>1. PICK k \in Keys[t] : b = KeyBytes(t, k) /\ k[1] = l /\ right[b] = k[2]  BY <1>6
  <2>2. PICK m \in Keys[t] : d = KeyBytes(t, m) /\ m[1] = l /\ right[d] = m[2]  BY <1>6
  <2>3. k = <<k[1], k[2]>> /\ m = <<m[1], m[2]>>  BY PairKeys
  <2>4. k = m  BY <1>10, <2>1, <2>2, <2>3
  <2> QED  BY <2>1, <2>2, <2>4
<1>11. \A b \in P : right[b] \in R  BY <1>6, <1>9
<1>12. ASSUME NEW x \in R  PROVE \E b \in P : right[b] = x
  <2>1. PICK k \in DOMAIN rows : k[1] = l /\ x = k[2]  BY <1>9
  <2>2. KeyBytes(t, k) \in P /\ right[KeyBytes(t, k)] = x  BY <1>7, <2>1
  <2> HIDE DEF P, right
  <2> QED  BY <2>2
<1> HIDE DEF R, P, q, n, f, right
<1>13. \A i \in 1 .. n : q[i] \in P  BY <1>3
<1>14. f \in Seq(R) /\ Len(f) = n /\ DOMAIN f = 1 .. n /\ \A i \in 1 .. n : f[i] = right[q[i]]
  BY <1>3, <1>8, <1>11, <1>13
<1>15. GoodList(f, R)  BY <1>3, <1>10, <1>13, <1>14 DEF GoodList
<1>16. ToSet(f) = R
  <2>1. \A x \in R : \E i \in 1 .. n : f[i] = x  BY <1>3, <1>12, <1>14
  <2>2. \A i \in DOMAIN f : f[i] \in R  BY <1>14
  <2> QED  BY <1>14, <2>1, <2>2 DEF ToSet
<1> QED  BY <1>15, <1>16 DEF f, P, R, rows

-----------------------------------------------------------------------------
(* The keys that a backend looks for are those of the left component.      *)
LEMMA LeftTables ==
  ASSUME NEW t \in Relations, NEW l \in LeftSpace(t)
  PROVE  /\ Len(PackLeft(t, l)) = LeftLength(t) /\ PackLeft(t, l) \in Seq(Bytes) /\ LeftLength(t) \in Nat
         /\ t \in {"message_id_to_message_id", "index_to_message_id", "ed25519_address_to_output_id"} =>
              PackLeft(t, l) = l /\ PrefixLength(t, Len(l)) = LeftLength(t)
         /\ t \in {"milestone_index_to_unreferenced_message", "milestone_index_to_receipt"} =>
              PackLeft(t, l) = PackIndex(l) /\ PrefixLength(t, 0) = LeftLength(t)
         /\ t = "spent_to_treasury_output" => PackLeft(t, l) = PackBool(l) /\ PrefixLength(t, 0) = LeftLength(t)
<1>1. Len(PackLeft(t, l)) = LeftLength(t) /\ PackLeft(t, l) \in Seq(Bytes) /\ LeftLength(t) \in Nat  BY LeftPacked
<1>2. CASE t \in {"message_id_to_message_id", "index_to_message_id", "ed25519_address_to_output_id"}
  <2>1. PackLeft(t, l) = l  BY <1>2 DEF PackLeft
  <2>2. PrefixLength(t, Len(l)) = Len(l)  BY <1>2 DEF PrefixLength
  <2> QED  BY <1>1, <1>2, <2>1, <2>2
<1>3. CASE t \in {"milestone_index_to_unreferenced_message", "milestone_index_to_receipt"}
  BY <1>1, <1>3 DEF PackLeft, PrefixLength, LeftLength
<1>4. CASE t = "spent_to_treasury_output"
  BY <1>1, <1>4 DEF PackLeft, PrefixLength, LeftLength
<1> QED  BY <1>2, <1>3, <1>4 DEF Relations

(* The scan of sled and the prefix iterator of RocksDB find the keys with  *)
(* the prefix, and cut it off.                                             *)
CutKeys(t, keys) ==
  [i \in DOMAIN Sorted(keys) |-> SubSeq(Sorted(keys)[i], LeftLength(t) + 1, Len(Sorted(keys)[i]))]

(* Both find the keys of the left component, in the same order.            *)
LEMMA ScanIs ==
  ASSUME NEW t \in Relations, NEW tree, GoodTree(t, tree), NEW l \in LeftSpace(t)
  PROVE  /\ ScanPrefix(tree, PackLeft(t, l)) = CutKeys(t, PrefixKeys(t, tree, l))
         /\ PrefixIterator(tree, PackLeft(t, l), LeftLength(t)) = CutKeys(t, PrefixKeys(t, tree, l))
<1> DEFINE p == PackLeft(t, l)
<1>1. Len(p) = LeftLength(t) /\ p \in Seq(Bytes) /\ LeftLength(t) \in Nat  BY LeftTables
<1>2. SubSeq(p, 1, Len(p)) = p  BY <1>1
<1>3. \A b \in DOMAIN tree : LeftLength(t) <= Len(b)  BY PrefixIsLeft DEF GoodTree
<1>4. {b \in DOMAIN tree : IsPrefix(p, b)} = PrefixKeys(t, tree, l)
  BY <1>1, <1>2, <1>3 DEF IsPrefix, PrefixKeys
<1>5. {b \in DOMAIN tree : SubSeq(b, 1, LeftLength(t)) = p} = PrefixKeys(t, tree, l)  BY DEF PrefixKeys
<1> HIDE DEF p
<1>6. ScanPrefix(tree, p) = CutKeys(t, PrefixKeys(t, tree, l))
  BY <1>1, <1>4, Zenon DEF ScanPrefix, CutKeys
<1>7. PrefixIterator(tree, p, LeftLength(t)) = CutKeys(t, PrefixKeys(t, tree, l))
  BY <1>5, Zenon DEF PrefixIterator, CutKeys
<1> QED  BY <1>6, <1>7 DEF p

(* The right components of what a scan found.                              *)
Rights(t, listed) == [i \in DOMAIN listed |-> UnpackRight(t, listed[i])]

(* Unpacked, they are the right components in the order of the bytes.      *)
LEMMA RightListIs ==
  ASSUME NEW t, NEW keys
  PROVE  Rights(t, CutKeys(t, keys)) = RightList(t, keys)
BY DEF Rights, RightList, CutKeys

(* What the fetches of sled and of RocksDB answer.                         *)
LEMMA TreeFetches ==
  ASSUME NEW t \in Relations, NEW trees, GoodTree(t, trees[t]), NEW l \in LeftSpace(t)
  PROVE  LET list == RightList(t, PrefixKeys(t, trees[t], l))
         IN  /\ SledFetchRelated(trees, t, l) = IF t \in LimitedRelations THEN Take(list, FetchLimit) ELSE list
             /\ RocksdbFetchRelated(trees, t, l) = IF t \in LimitedRelations THEN Take(list, FetchLimit) ELSE list
<1> DEFINE tree == trees[t]
           list == RightList(t, PrefixKeys(t, tree, l))
           listed == ScanPrefix(tree, PackLeft(t, l))
<1>1. listed = PrefixIterator(tree, PackLeft(t, l), LeftLength(t)) /\ list = Rights(t, listed)
  <2> DEFINE keys == PrefixKeys(t, tree, l)
  <2>0. GoodTree(t, tree)  OBVIOUS
  <2> HIDE DEF tree
  <2>1. listed = CutKeys(t, keys)  BY <2>0, ScanIs
  <2>2. PrefixIterator(tree, PackLeft(t, l), LeftLength(t)) = CutKeys(t, keys)  BY <2>0, ScanIs
  <2> HIDE DEF listed, keys
  <2>3. Rights(t, listed) = RightList(t, keys)  BY <2>1, RightListIs
  <2> QED  BY <2>1, <2>2, <2>3 DEF keys
<1>2. listed = [i \in DOMAIN listed |-> listed[i]]  BY DEF ScanPrefix
<1> HIDE DEF list
<1>3. CASE t \in {"message_id_to_message_id", "index_to_message_id"}
  <2>1. PackLeft(t, l) = l /\ PrefixLength(t, Len(l)) = LeftLength(t) /\ t \in LimitedRelations
    BY <1>3, LeftTables DEF LimitedRelations
  <2>2. list = listed
    <3> HIDE DEF listed
    <3> QED  BY <1>1, <1>2, <1>3 DEF Rights, UnpackRight
  <2>3. SledFetchRelated(trees, t, l) = Take(ScanPrefix(tree, l), FetchLimit)
    BY <1>3 DEF SledFetchRelated, SledFetchEdges, MessageTables
  <2>4. RocksdbFetchRelated(trees, t, l) = Take(PrefixIterator(tree, l, PrefixLength(t, Len(l))), FetchLimit)
    BY <1>3 DEF RocksdbFetchRelated, RocksdbFetchEdges, MessageTables
  <2> QED  BY <1>1, <2>1, <2>2, <2>3, <2>4 DEF list
<1>4. CASE t = "ed25519_address_to_output_id"
  <2>1. PackLeft(t, l) = l /\ PrefixLength(t, Len(l)) = LeftLength(t) /\ t \in LimitedRelations
    BY <1>4, LeftTables DEF LimitedRelations
  <2>3. SledFetchRelated(trees, t, l) = Take([i \in DOMAIN ScanPrefix(tree, l) |-> UnpackOutputId(ScanPrefix(tree, l)[i])], FetchLimit)
    BY <1>4 DEF SledFetchRelated, SledFetchOutputIds, MessageTables
  <2>4. RocksdbFetchRelated(trees, t, l)
          = Take([i \in DOMAIN PrefixIterator(tree, l, PrefixLength(t, Len(l))) |->
                    UnpackOutputId(PrefixIterator(tree, l, PrefixLength(t, Len(l)))[i])], FetchLimit)
    BY <1>4 DEF RocksdbFetchRelated, RocksdbFetchOutputIds, MessageTables
  <2>2. list = [i \in DOMAIN listed |-> UnpackOutputId(listed[i])]
    <3> HIDE DEF listed
    <3> QED  BY <1>1, <1>4 DEF Rights, UnpackRight
  <2>5. ScanPrefix(tree, l) = listed /\ PrefixIterator(tree, l, PrefixLength(t, Len(l))) = listed  BY <1>1, <2>1
  <2> HIDE DEF listed
  <2>6. SledFetchRelated(trees, t, l) = Take(list, FetchLimit)  BY <2>2, <2>3, <2>5
  <2>7. RocksdbFetchRelated(trees, t, l) = Take(list, FetchLimit)  BY <2>2, <2>4, <2>5
  <2> QED  BY <2>1, <2>6, <2>7 DEF list
<1>5. CASE t = "milestone_index_to_unreferenced_message"
  <2>1. PackLeft(t, l) = PackIndex(l) /\ PrefixLength(t, 0) = LeftLength(t) /\ t \notin LimitedRelations
    BY <1>5, LeftTables DEF LimitedRelations
  <2>2. list = listed
    <3> HIDE DEF listed
    <3> QED  BY <1>1, <1>2, <1>5 DEF Rights, UnpackRight
  <2>3. SledFetchRelated(trees, t, l) = ScanPrefix(tree, PackIndex(l))
    BY <1>5 DEF SledFetchRelated, SledFetchUnreferenced, MessageTables
  <2>4. RocksdbFetchRelated(trees, t, l) = PrefixIterator(tree, PackIndex(l), PrefixLength(t, 0))
    BY <1>5 DEF RocksdbFetchRelated, RocksdbFetchUnreferenced, MessageTables
  <2> QED  BY <1>1, <2>1, <2>2, <2>3, <2>4 DEF list
<1>6. CASE t = "milestone_index_to_receipt"
  <2>1. PackLeft(t, l) = PackIndex(l) /\ PrefixLength(t, 0) = LeftLength(t) /\ t \notin LimitedRelations
    BY <1>6, LeftTables DEF LimitedRelations
  <2>3. SledFetchRelated(trees, t, l)
          = [i \in DOMAIN ScanPrefix(tree, PackIndex(l)) |-> UnpackReceipt(ScanPrefix(tree, PackIndex(l))[i])]
    BY <1>6 DEF SledFetchRelated, SledFetchReceipts, MessageTables
  <2>4. RocksdbFetchRelated(trees, t, l)
          = [i \in DOMAIN PrefixIterator(tree, PackIndex(l), PrefixLength(t, 0)) |->
               UnpackReceipt(PrefixIterator(tree, PackIndex(l), PrefixLength(t, 0))[i])]
    BY <1>6 DEF RocksdbFetchRelated, RocksdbFetchReceipts, MessageTables
  <2>2. list = [i \in DOMAIN listed |-> UnpackReceipt(listed[i])]
    <3> HIDE DEF listed
    <3> QED  BY <1>1, <1>6 DEF Rights, UnpackRight
  <2>5. ScanPrefix(tree, PackIndex(l)) = listed /\ PrefixIterator(tree, PackIndex(l), PrefixLength(t, 0)) = listed
    BY <1>1, <2>1
  <2> HIDE DEF listed
  <2>6. SledFetchRelated(trees, t, l) = list /\ RocksdbFetchRelated(trees, t, l) = list  BY <2>2, <2>3, <2>4, <2>5
  <2> QED  BY <2>1, <2>6 DEF list
<1>7. CASE t = "spent_to_treasury_output"
  <2>1. PackLeft(t, l) = PackBool(l) /\ PrefixLength(t, 0) = LeftLength(t) /\ t \notin LimitedRelations
    BY <1>7, LeftTables DEF LimitedRelations
  <2>2. list = listed
    <3> HIDE DEF listed
    <3> QED  BY <1>1, <1>2, <1>7 DEF Rights, UnpackRight
  <2>3. SledFetchRelated(trees, t, l) = ScanPrefix(tree, PackBool(l))
    BY <1>7 DEF SledFetchRelated, SledFetchTreasury, MessageTables
  <2>4. RocksdbFetchRelated(trees, t, l) = PrefixIterator(tree, PackBool(l), PrefixLength(t, 0))
    BY <1>7 DEF RocksdbFetchRelated, RocksdbFetchTreasury, MessageTables
  <2> QED  BY <1>1, <2>1, <2>2, <2>3, <2>4 DEF list
<1> QED  BY <1>3, <1>4, <1>5, <1>6, <1>7 DEF Relations

-----------------------------------------------------------------------------
(* The in-memory backend: a list holds what is related to its key.         *)
LEMMA ListRelated ==
  ASSUME NEW t \in Relations, NEW table, GoodTable(t, table), NEW l
  PROVE  LET R == RelatedTo(ViewOf(TableCells(t, table)), l)
         IN  GoodList(Listed(table, l), R) /\ ToSet(Listed(table, l)) = R
<1> DEFINE rows == ViewOf(TableCells(t, table))
           R == RelatedTo(rows, l)
           s == Listed(table, l)
<1>0. t \in AllTables /\ TableCells(t, table) \in CellMaps(t) /\ \A k \in Keys[t] : k = <<k[1], k[2]>>
  BY PairKeys, TableCellsGood
<1>1. GoodList(s, RightsOf(t, l))  BY ListedGood
<1>2. \A k \in Keys[t] : k[1] = l => (k \in DOMAIN rows <=> Contains(s, k[2]))
  <2> SUFFICES ASSUME NEW k \in Keys[t], k[1] = l  PROVE k \in DOMAIN rows <=> Contains(s, k[2])  OBVIOUS
  <2>1. TableCells(t, table)[k] = RelationCell(table, k)  BY DEF TableCells
  <2>2. k \in DOMAIN rows <=> TableCells(t, table)[k] # {}  BY <1>0, CellCases
  <2> HIDE DEF rows
  <2> QED  BY <2>1, <2>2 DEF RelationCell
<1>3. DOMAIN rows \subseteq Keys[t]  BY <1>0, ViewType
<1> HIDE DEF rows
<1>4. \A x : x \in R <=> \E k \in DOMAIN rows : k[1] = l /\ x = k[2]  BY DEF RelatedTo
<1>5. \A x : x \in RightsOf(t, l) <=> \E k \in Keys[t] : k[1] = l /\ x = k[2]  BY DEF RightsOf
<1>6. s \in Seq(RightsOf(t, l)) /\ DOMAIN s = 1 .. Len(s) /\ Len(s) \in Nat
      /\ \A i, j \in 1 .. Len(s) : s[i] = s[j] => i = j
  BY <1>1 DEF GoodList
<1>7. \A x : Contains(s, x) <=> \E i \in 1 .. Len(s) : s[i] = x  BY <1>6 DEF Contains
<1> HIDE DEF R, s
<1>8. ASSUME NEW i \in 1 .. Len(s)  PROVE s[i] \in R
  <2>1. PICK k \in Keys[t] : k[1] = l /\ s[i] = k[2]  BY <1>5, <1>6
  <2>2. Contains(s, k[2])  BY <1>7, <2>1
  <2> QED  BY <1>2, <1>4, <2>1, <2>2
<1>9. ASSUME NEW x \in R  PROVE \E i \in 1 .. Len(s) : s[i] = x
  <2>1. PICK k \in DOMAIN rows : k[1] = l /\ x = k[2]  BY <1>4
  <2> QED  BY <1>2, <1>3, <1>7, <2>1
<1>10. GoodList(s, R)
  <2>1. s = [i \in 1 .. Len(s) |-> s[i]]  BY <1>6
  <2>2. s \in Seq(R)  BY <1>6, <1>8, <2>1
  <2> QED  BY <1>6, <2>2 DEF GoodList
<1>11. ToSet(s) = R  BY <1>6, <1>8, <1>9 DEF ToSet
<1> QED  BY <1>10, <1>11 DEF R, s, rows

(* A value is found where its cell has one.                                *)
LEMMA MemoryExists ==
  ASSUME NEW t \in AllTables, NEW content, NEW k \in Keys[t]
  PROVE  MemoryExist(content, t, k) <=> TableCells(t, content[t])[k] # {}
<1> DEFINE cell == TableCells(t, content[t])[k]
<1>1. cell = IF t \in Relations THEN RelationCell(content[t], k) ELSE TableFetch(content[t], k)  BY DEF TableCells
<1> HIDE DEF cell
<1>2. CASE t \in VecBinTables
  <2>1. t \in Relations  BY <1>2, ListTables
  <2>2. BinExist(content[t], t, k) <=> Contains(Listed(content[t], k[1]), k[2])  BY DEF BinExist, BinarySearch
  <2>3. MemoryExist(content, t, k) <=> BinExist(content[t], t, k)  BY <1>2, ListTables DEF MemoryExist
  <2> QED  BY <1>1, <2>1, <2>2, <2>3 DEF cell, RelationCell
<1>3. CASE t \in VecTables
  <2>1. t \in Relations /\ t \notin VecBinTables  BY <1>3, ListTables
  <2>2. MemoryExist(content, t, k) <=> VecExist(content[t], k)  BY <1>3, <2>1 DEF MemoryExist
  <2> QED  BY <1>1, <2>1, <2>2 DEF cell, RelationCell, VecExist
<1>4. CASE t \notin VecBinTables /\ t \notin VecTables
  <2>1. t \notin Relations  BY <1>4, ListTables
  <2>2. MemoryExist(content, t, k) <=> k \in DOMAIN content[t]  BY <1>4 DEF MemoryExist
  <2> QED  BY <1>1, <2>1, <2>2 DEF cell, TableFetch
<1> QED  BY <1>2, <1>3, <1>4

(* The ordered backends look under the bytes of the key.                   *)
LEMMA TreeReads ==
  ASSUME NEW t \in AllTables, NEW content, NEW k \in Keys[t]
  PROVE  /\ SledFetch(content, t, k) = TreeCells(t, content[t])[k]
         /\ RocksdbFetch(content, t, k) = TreeCells(t, content[t])[k]
         /\ SledExist(content, t, k) <=> TreeCells(t, content[t])[k] # {}
         /\ RocksdbExist(content, t, k) <=> TreeCells(t, content[t])[k] # {}
<1> DEFINE cell == TreeCells(t, content[t])[k]
           bytes == KeyBytes(t, k)
<1>1. cell = SledGet(content[t], bytes)  BY DEF TreeCells
<1>2. \A tree, b : RocksdbGet(tree, b) = SledGet(tree, b) /\ (b \in DOMAIN tree <=> SledGet(tree, b) # {})
  BY DEF SledGet, RocksdbGet
<1> HIDE DEF cell
<1>3. /\ SledFetch(content, t, k) = SledGet(content[t], bytes)
      /\ RocksdbFetch(content, t, k) = RocksdbGet(content[t], bytes)
      /\ SledExist(content, t, k) <=> bytes \in DOMAIN content[t]
      /\ RocksdbExist(content, t, k) <=> RocksdbGet(content[t], bytes) # {}
  <2>1. CASE t \in MessageTables
    <3>1. bytes = MessageKey(t, k)  BY <2>1, Groups DEF KeyBytes
    <3> HIDE DEF bytes
    <3> QED  BY <2>1, <3>1, Groups DEF SledFetch, RocksdbFetch, SledExist, RocksdbExist,
          SledFetchMessages, RocksdbFetchMessages, SledExistMessages, RocksdbExistMessages
  <2>2. CASE t \in OutputTables
    <3>1. bytes = OutputKey(t, k)  BY <2>2, Groups DEF KeyBytes
    <3> HIDE DEF bytes
    <3> QED  BY <2>2, <3>1, Groups DEF SledFetch, RocksdbFetch, SledExist, RocksdbExist,
          SledFetchOutputs, RocksdbFetchOutputs, SledExistOutputs, RocksdbExistOutputs
  <2>3. CASE t \in MilestoneTables
    <3>1. bytes = MilestoneKey(t, k)  BY <2>3, Groups DEF KeyBytes
    <3> HIDE DEF bytes
    <3> QED  BY <2>3, <3>1, Groups DEF SledFetch, RocksdbFetch, SledExist, RocksdbExist,
          SledFetchMilestones, RocksdbFetchMilestones, SledExistMilestones, RocksdbExistMilestones
  <2>4. CASE t \in TreasuryTables
    <3>1. bytes = TreasuryKey(t, k)  BY <2>4, Groups DEF KeyBytes
    <3> HIDE DEF bytes
    <3> QED  BY <2>4, <3>1, Groups DEF SledFetch, RocksdbFetch, SledExist, RocksdbExist,
          SledFetchTreasuryValues, RocksdbFetchTreasuryValues, SledExistTreasury, RocksdbExistTreasury
  <2> QED  BY <2>1, <2>2, <2>3, <2>4 DEF AllTables
<1> HIDE DEF bytes
<1> QED  BY <1>1, <1>2, <1>3 DEF cell

(* The fetch of the relations of a left component, by any backend.         *)
LEMMA RelatedAnswers ==
  ASSUME NEW b \in Backends, NEW t \in Relations, NEW content, GoodPart(b, t, content[t]),
         NEW k \in Keys[t], NEW listed,
         listed = CASE b = "memory" -> MemoryFetchRelated(content, t, k[1])
                   [] b = "sled" -> SledFetchRelated(content, t, k[1])
                   [] b = "rocksdb" -> RocksdbFetchRelated(content, t, k[1])
  PROVE  Answers(listed, RelatedTo(ViewOf(PartCells(b, t, content[t])), k[1]), t \in LimitedRelations /\ b # "memory")
<1> DEFINE l == k[1]
           R == RelatedTo(ViewOf(PartCells(b, t, content[t])), l)
           limited == t \in LimitedRelations /\ b # "memory"
<1>1. CASE b = "memory"
  <2>1. GoodTable(t, content[t]) /\ PartCells(b, t, content[t]) = TableCells(t, content[t])
    BY <1>1 DEF GoodPart, PartCells
  <2>2. listed = Listed(content[t], l)  BY <1>1 DEF MemoryFetchRelated, VecFetch
  <2>3. GoodList(listed, R) /\ ToSet(listed) = R
    <3> DEFINE table == content[t]
    <3>1. GoodTable(t, table)  BY <2>1
    <3> HIDE DEF table, l
    <3>2. GoodList(Listed(table, l), RelatedTo(ViewOf(TableCells(t, table)), l))
          /\ ToSet(Listed(table, l)) = RelatedTo(ViewOf(TableCells(t, table)), l)
      BY <3>1, ListRelated
    <3> QED  BY <2>1, <2>2, <3>2 DEF table
  <2> HIDE DEF R
  <2>4. limited \in BOOLEAN  OBVIOUS
  <2>5. Answers(listed, R, limited)  BY <2>3, <2>4, ListAnswers
  <2> QED  BY <2>5 DEF R
<1>2. CASE b # "memory"
  <2> DEFINE tree == content[t]
             list == RightList(t, PrefixKeys(t, tree, l))
  <2>1. GoodTree(t, tree) /\ PartCells(b, t, tree) = TreeCells(t, tree)  BY <1>2 DEF GoodPart, PartCells
  <2>2. l \in LeftSpace(t)
    <3>1. k \in KeySpace(t)  BY PairKeys, TableKeys
    <3> QED  BY <3>1, RelationBytes
  <2>3. listed = IF t \in LimitedRelations THEN Take(list, FetchLimit) ELSE list
    <3> HIDE DEF l
    <3> DEFINE reply == IF t \in LimitedRelations THEN Take(list, FetchLimit) ELSE list
    <3>1. SledFetchRelated(content, t, l) = reply  BY <2>1, <2>2, TreeFetches
    <3>2. RocksdbFetchRelated(content, t, l) = reply  BY <2>1, <2>2, TreeFetches
    <3>3. listed = SledFetchRelated(content, t, l) \/ listed = RocksdbFetchRelated(content, t, l)
      BY <1>2 DEF Backends, l
    <3> HIDE DEF list, reply
    <3>4. listed = reply  BY <3>1, <3>2, <3>3
    <3> QED  BY <3>4 DEF reply
  <2>4. GoodList(list, R) /\ ToSet(list) = R
    <3> HIDE DEF tree, l
    <3>1. GoodList(list, RelatedTo(ViewOf(TreeCells(t, tree)), l)) /\ ToSet(list) = RelatedTo(ViewOf(TreeCells(t, tree)), l)
      BY <2>1, <2>2, TreeRelated
    <3> HIDE DEF list
    <3> QED  BY <2>1, <3>1 DEF tree
  <2> HIDE DEF list, R
  <2>5. (\A x \in BOOLEAN : Answers(list, R, x)) /\ Answers(Take(list, FetchLimit), R, TRUE)  BY <2>4, ListAnswers
  <2>6. CASE t \in LimitedRelations
    <3>1. limited = TRUE  BY <1>2, <2>6
    <3> QED  BY <2>3, <2>5, <2>6, <3>1 DEF R
  <2>7. CASE t \notin LimitedRelations
    <3>1. limited = FALSE  BY <1>2, <2>7
    <3> QED  BY <2>3, <2>5, <2>7, <3>1 DEF R
  <2> QED  BY <2>6, <2>7
<1> QED  BY <1>1, <1>2

(* The point reads of any backend answer the cell of the key.              *)
LEMMA PointReads ==
  ASSUME backend \in Backends, NEW t \in AllTables, NEW k \in Keys[t]
  PROVE  /\ Exist(t, k) <=> PartCells(backend, t, inner[t])[k] # {}
         /\ t \notin Relations => Fetch(t, k) = PartCells(backend, t, inner[t])[k]
         /\ t \notin Relations => \A l \in Keys[t] :
              MultiFetch(t, <<k, l>>) = <<PartCells(backend, t, inner[t])[k], PartCells(backend, t, inner[t])[l]>>
<1>1. CASE backend = "memory"
  <2>1. PartCells(backend, t, inner[t]) = TableCells(t, inner[t])  BY <1>1 DEF PartCells
  <2>2. Exist(t, k) <=> MemoryExist(inner, t, k)  BY <1>1 DEF Exist
  <2>3. t \notin Relations => \A l \in Keys[t] : TableFetch(inner[t], l) = TableCells(t, inner[t])[l]
    BY DEF TableCells
  <2>4. Fetch(t, k) = TableFetch(inner[t], k)  BY <1>1 DEF Fetch, MemoryFetch
  <2>5. \A l : MultiFetch(t, <<k, l>>) = <<TableFetch(inner[t], k), TableFetch(inner[t], l)>>
    BY <1>1 DEF MultiFetch, MemoryMultiFetch
  <2>6. Exist(t, k) <=> TableCells(t, inner[t])[k] # {}  BY <2>2, MemoryExists
  <2> QED  BY <2>1, <2>3, <2>4, <2>5, <2>6
<1>2. CASE backend = "sled"
  <2>1. PartCells(backend, t, inner[t]) = TreeCells(t, inner[t])  BY <1>2 DEF PartCells
  <2>2. Exist(t, k) <=> SledExist(inner, t, k)  BY <1>2 DEF Exist
  <2>3. Fetch(t, k) = SledFetch(inner, t, k)  BY <1>2 DEF Fetch
  <2>4. \A l : MultiFetch(t, <<k, l>>) = <<SledFetch(inner, t, k), SledFetch(inner, t, l)>>
    BY <1>2 DEF MultiFetch, SledMultiFetch
  <2>5. \A l \in Keys[t] : SledFetch(inner, t, l) = TreeCells(t, inner[t])[l]  BY TreeReads
  <2>6. SledExist(inner, t, k) <=> TreeCells(t, inner[t])[k] # {}  BY TreeReads
  <2> QED  BY <2>1, <2>2, <2>3, <2>4, <2>5, <2>6
<1>3. CASE backend = "rocksdb"
  <2>1. PartCells(backend, t, inner[t]) = TreeCells(t, inner[t])  BY <1>3 DEF PartCells
  <2>2. Exist(t, k) <=> RocksdbExist(inner, t, k)  BY <1>3 DEF Exist
  <2>3. Fetch(t, k) = RocksdbFetch(inner, t, k)  BY <1>3 DEF Fetch
  <2>4. \A l : MultiFetch(t, <<k, l>>) = <<RocksdbFetch(inner, t, k), RocksdbFetch(inner, t, l)>>
    BY <1>3 DEF MultiFetch, RocksdbMultiFetch
  <2>5. \A l \in Keys[t] : RocksdbFetch(inner, t, l) = TreeCells(t, inner[t])[l]  BY TreeReads
  <2>6. RocksdbExist(inner, t, k) <=> TreeCells(t, inner[t])[k] # {}  BY TreeReads
  <2> QED  BY <2>1, <2>2, <2>3, <2>4, <2>5, <2>6
<1> QED  BY <1>1, <1>2, <1>3 DEF Backends

-----------------------------------------------------------------------------
(* A row is its cell.                                                      *)
LEMMA RowIsCell ==
  ASSUME NEW t, NEW c \in CellMaps(t), NEW k \in Keys[t]
  PROVE  /\ c[k] # {} <=> k \in DOMAIN ViewOf(c)
         /\ (IF k \in DOMAIN ViewOf(c) THEN {ViewOf(c)[k]} ELSE {}) = c[k]
<1>1. CASE c[k] = {} /\ k \notin DOMAIN ViewOf(c)  BY <1>1
<1>2. ASSUME NEW v \in StoredValues(t), c[k] = {v}, k \in DOMAIN ViewOf(c), ViewOf(c)[k] = v
      PROVE  c[k] # {} /\ {ViewOf(c)[k]} = c[k]
  BY <1>2
<1> QED  BY <1>1, <1>2, CellCases

(* The types, from the invariant.                                          *)
LEMMA TypesFollow == StorageInv => StorageTypeOK
<1> SUFFICES ASSUME StorageInv  PROVE StorageTypeOK  OBVIOUS
<1>1. Rows = IF running THEN Views(backend, Tables, inner) ELSE saved  BY SeenAlways DEF Seen
<1>2. Tables \in SUBSET AllTables /\ running \in BOOLEAN  BY DEF StorageInv
<1>3. running => GoodRows(Tables, Views(backend, Tables, inner))  BY <1>2, ViewsGood DEF StorageInv
<1>4. GoodRows(Tables, saved)  BY DEF StorageInv
<1> HIDE DEF Rows
<1>5. GoodRows(Tables, Rows)  BY <1>1, <1>2, <1>3, <1>4
<1>6. \A t \in Tables : DOMAIN Rows[t] \subseteq Keys[t] /\ \A k \in DOMAIN Rows[t] : Rows[t][k] \in StoredValues(t)
  BY <1>5 DEF GoodRows
<1>7. /\ backend \in Backends /\ stored_health \in Healths /\ disk.health \in Healths
      /\ running \in BOOLEAN /\ writes \in 0 .. MaxWrites
  BY DEF StorageInv
<1> QED  BY <1>6, <1>7 DEF StorageTypeOK, Healths

(* The reads, from the invariant.                                          *)
LEMMA ReadsFollow == StorageInv => ReadsFollowRows
<1> SUFFICES ASSUME StorageInv, running  PROVE ReadsFollowRows  BY DEF ReadsFollowRows
<1> DEFINE rows == Rows
           Row(t, k) == IF k \in DOMAIN rows[t] THEN {rows[t][k]} ELSE {}
           Related(t, left) == {k[2] : k \in {x \in DOMAIN rows[t] : x[1] = left}}
           Limited(t) == t \in LimitedRelations /\ backend # "memory"
           cells(t) == PartCells(backend, t, inner[t])
<1>1. Rows = Views(backend, Tables, inner)  BY SeenAlways DEF Seen
<1>2. Tables \in SUBSET AllTables /\ backend \in Backends /\ GoodContent(backend, Tables, inner)  BY DEF StorageInv
<1>3. ASSUME NEW t \in Tables
      PROVE  rows[t] = ViewOf(cells(t)) /\ cells(t) \in CellMaps(t) /\ t \in AllTables /\ GoodPart(backend, t, inner[t])
  <2>1. rows[t] = ViewOf(cells(t))  BY <1>1 DEF Views
  <2>2. t \in AllTables /\ GoodPart(backend, t, inner[t])  BY <1>2 DEF GoodContent
  <2>3. cells(t) \in CellMaps(t)  BY <2>2, PartCellsGood
  <2> QED  BY <2>1, <2>2, <2>3
<1> HIDE DEF rows
<1>4. ASSUME NEW t \in Tables, NEW k \in Keys[t]  PROVE (Exist(t, k) <=> k \in DOMAIN rows[t]) /\ Row(t, k) = cells(t)[k]
  <2> DEFINE c == cells(t)
  <2>1. rows[t] = ViewOf(c) /\ c \in CellMaps(t) /\ t \in AllTables  BY <1>3
  <2>2. Exist(t, k) <=> c[k] # {}  BY <1>2, <2>1, PointReads
  <2> HIDE DEF c
  <2>3. c[k] # {} <=> k \in DOMAIN ViewOf(c)  BY <2>1, RowIsCell
  <2>4. (IF k \in DOMAIN ViewOf(c) THEN {ViewOf(c)[k]} ELSE {}) = c[k]  BY <2>1, RowIsCell
  <2>5. Row(t, k) = c[k]  BY <2>1, <2>4
  <2>6. Exist(t, k) <=> k \in DOMAIN rows[t]  BY <2>1, <2>2, <2>3
  <2> QED  BY <2>5, <2>6 DEF c
<1>5. ASSUME NEW t \in Tables, t \notin Relations, NEW k \in Keys[t], NEW l \in Keys[t]
      PROVE  Fetch(t, k) = Row(t, k) /\ MultiFetch(t, <<k, l>>) = <<Row(t, k), Row(t, l)>>
  <2>1. t \in AllTables  BY <1>3
  <2>2. Fetch(t, k) = cells(t)[k]  BY <1>2, <1>5, <2>1, PointReads
  <2>3. MultiFetch(t, <<k, l>>) = <<cells(t)[k], cells(t)[l]>>  BY <1>2, <1>5, <2>1, PointReads
  <2>4. Row(t, k) = cells(t)[k] /\ Row(t, l) = cells(t)[l]  BY <1>4
  <2> HIDE DEF Row, cells
  <2> QED  BY <2>2, <2>3, <2>4
<1>6. ASSUME NEW t \in Tables, t \in Relations, NEW k \in Keys[t]
      PROVE  Answers(FetchRelated(t, k[1]), Related(t, k[1]), Limited(t))
  <2>1. rows[t] = ViewOf(cells(t)) /\ GoodPart(backend, t, inner[t])  BY <1>3
  <2> DEFINE listed == FetchRelated(t, k[1])
  <2>2. listed = CASE backend = "memory" -> MemoryFetchRelated(inner, t, k[1])
                  [] backend = "sled" -> SledFetchRelated(inner, t, k[1])
                  [] backend = "rocksdb" -> RocksdbFetchRelated(inner, t, k[1])
    BY DEF FetchRelated
  <2> HIDE DEF listed
  <2>3. Answers(listed, RelatedTo(ViewOf(cells(t)), k[1]), Limited(t))
    BY <1>2, <1>6, <2>1, <2>2, RelatedAnswers
  <2>4. RelatedTo(ViewOf(cells(t)), k[1]) = Related(t, k[1])  BY <2>1 DEF RelatedTo
  <2> HIDE DEF Related, cells, Limited
  <2> QED  BY <2>3, <2>4 DEF listed
<1>7. \A t \in Tables :
        /\ \A k \in Keys[t] : Exist(t, k) <=> k \in DOMAIN rows[t]
        /\ t \notin Relations => \A k, l \in Keys[t] :
             Fetch(t, k) = Row(t, k) /\ MultiFetch(t, << k, l >>) = << Row(t, k), Row(t, l) >>
        /\ t \in Relations => \A left \in {k[1] : k \in Keys[t]} :
             LET listed == FetchRelated(t, left)
             IN  /\ ToSet(listed) \subseteq Related(t, left)
                 /\ Cardinality(ToSet(listed)) = Len(listed)
                 /\ \/ ToSet(listed) = Related(t, left)
                    \/ Limited(t) /\ Len(listed) = FetchLimit
  <2> SUFFICES ASSUME NEW t \in Tables
               PROVE  /\ \A k \in Keys[t] : Exist(t, k) <=> k \in DOMAIN rows[t]
                      /\ t \notin Relations => \A k, l \in Keys[t] :
                           Fetch(t, k) = Row(t, k) /\ MultiFetch(t, << k, l >>) = << Row(t, k), Row(t, l) >>
                      /\ t \in Relations => \A left \in {k[1] : k \in Keys[t]} :
                           LET listed == FetchRelated(t, left)
                           IN  /\ ToSet(listed) \subseteq Related(t, left)
                               /\ Cardinality(ToSet(listed)) = Len(listed)
                               /\ \/ ToSet(listed) = Related(t, left)
                                  \/ Limited(t) /\ Len(listed) = FetchLimit
    OBVIOUS
  <2> HIDE DEF Row, Related, Limited
  <2>1. \A k \in Keys[t] : Exist(t, k) <=> k \in DOMAIN rows[t]  BY <1>4
  <2>2. t \notin Relations => \A k, l \in Keys[t] :
          Fetch(t, k) = Row(t, k) /\ MultiFetch(t, << k, l >>) = << Row(t, k), Row(t, l) >>
    BY <1>5
  <2>3. ASSUME t \in Relations, NEW left \in {k[1] : k \in Keys[t]}
        PROVE  LET listed == FetchRelated(t, left)
               IN  /\ ToSet(listed) \subseteq Related(t, left)
                   /\ Cardinality(ToSet(listed)) = Len(listed)
                   /\ \/ ToSet(listed) = Related(t, left)
                      \/ Limited(t) /\ Len(listed) = FetchLimit
    <3>1. PICK k \in Keys[t] : left = k[1]  OBVIOUS
    <3>2. Answers(FetchRelated(t, left), Related(t, left), Limited(t))  BY <1>6, <2>3, <3>1
    <3> QED  BY <3>2, Zenon DEF Answers
  <2> QED  BY <2>1, <2>2, <2>3, Zenon
<1> QED  BY <1>7, Zenon DEF ReadsFollowRows, rows

(* ReadsSound, for every set of tables, keys and values and every backend: *)
(* after any writes, batches, truncations, crashes and restarts a point    *)
(* read and a prefix read answer what the iterators list.                  *)
THEOREM ReadsAnswerRows == StorageBehaviour => []ReadsSound
<1>1. StorageInit => StorageInv  BY StorageInvInit
<1>2. StorageInv /\ [StorageNext]_storageVars => StorageInv'  BY StorageInvNext
<1>3. StorageInv => ReadsSound  BY TypesFollow, ReadsFollow DEF ReadsSound
<1> QED  BY <1>1, <1>2, <1>3, PTL DEF StorageBehaviour
=============================================================================
