--------------------------- MODULE MessageSyntax ---------------------------
(***************************************************************************)
(* The wire format of messages (bee-message) and the acceptance of         *)
(* milestones.  A node builds a message, packs it and sends it; what       *)
(* arrives may differ from what was sent in a few places; the receiver     *)
(* unpacks it, with the syntactic checks, and validates a milestone with   *)
(* the keys of its configuration.                                          *)
(*                                                                         *)
(* A wire is a sequence of numbers, one for each field: the width of a     *)
(* field (bee-common's Packable) is fixed by its type and plays no part in *)
(* the checks.  The timestamp and the merkle proof of a milestone are one  *)
(* opaque field, and so are the public key and the signature of a          *)
(* signature unlock block.  Inputs, outputs, unlock blocks and migrated    *)
(* funds, which hold no list, are represented by their fields as packed:   *)
(*   input    <<0, transaction, index>> (UTXO) or <<1, milestone>>         *)
(*   output   <<0, 0, address, amount>> (single),                          *)
(*            <<1, 0, address, amount>> (dust allowance) or <<2, amount>>  *)
(*   unlock   <<0, 0, signature>> or <<1, referenced index>>               *)
(*   funds    <<tail transaction hash, 0, address, amount>>                *)
(* (the second 0 is the kind Ed25519).  An optional payload is a sequence  *)
(* of at most one payload.                                                 *)
(***************************************************************************)
EXTENDS Integers, Sequences, SequencesExt, FiniteSets

CONSTANTS
    Builds,                   \* the messages a node may try to build
    IOTA_SUPPLY,              \* the amount of all the tokens
    DUST_THRESHOLD,           \* the least dust allowance and the least migrated amount
    INPUT_OUTPUT_COUNT_MAX,   \* most inputs, outputs, unlock blocks or funds
    PARENTS_MAX,              \* most parents of a message
    INDEX_LENGTH_MAX,         \* the longest index of an indexation payload
    MESSAGE_LENGTH_MAX,       \* the longest message, in fields
    KeyRanges,                \* the milestone key ranges of the configuration
    min_threshold,            \* the least number of signatures of a milestone
    Faulty,                   \* keys whose holder signs any milestone
    Fields,                   \* the values an altered field may take
    MaxEdits                  \* alterations between the sender and the receiver

VARIABLES
    built,     \* the message the sender built
    wire,      \* the fields as they are now
    edits      \* how many alterations were made

syntaxVars == <<built, wire, edits>>

-----------------------------------------------------------------------------
(* Reading: a reader returns whether it succeeded, the value and what is    *)
(* left of the wire.                                                        *)

Fail == [ok |-> FALSE]
Read(value, rest) == [ok |-> TRUE, value |-> value, rest |-> rest]

(* `?`: the rest of a function runs with the value and what is left.        *)
Then(r, K(_, _)) == IF r.ok THEN K(r.value, r.rest) ELSE Fail

unpack_num(s) == IF s = <<>> THEN Fail ELSE Read(Head(s), Tail(s))

(* The n fields of a value without lists, which must satisfy OK.            *)
unpack_fields(n, OK(_), s) ==
    IF Len(s) >= n /\ OK(SubSeq(s, 1, n))
    THEN Read(SubSeq(s, 1, n), SubSeq(s, n + 1, Len(s)))
    ELSE Fail

(* A length among Lengths, and as many items.                               *)
unpack_list(Lengths, Item(_), s) ==
    Then(unpack_num(s), LAMBDA n, t :
        IF n \notin Lengths THEN Fail
        ELSE FoldLeft(LAMBDA r, i :
                          Then(r, LAMBDA items, u :
                              Then(Item(u), LAMBDA item, v : Read(Append(items, item), v))),
                      Read(<<>>, t), [i \in 1 .. n |-> i]))

pack_list(items) == <<Len(items)>> \o FlattenSeq(items)
pack_nums(nums) == <<Len(nums)>> \o nums

(* INPUT_OUTPUT_COUNT_RANGE, also of unlock blocks and migrated funds, and  *)
(* INPUT_OUTPUT_INDEX_RANGE.  The upper limit of 255 keys and signatures is *)
(* the width of their count.                                                *)
COUNT_RANGE == 1 .. INPUT_OUTPUT_COUNT_MAX
INDEX_RANGE == 0 .. INPUT_OUTPUT_COUNT_MAX - 1

(* is_sorted and is_unique_sorted of the packed forms.                      *)
Before(x, y) ==
    \E i \in 1 .. Len(x) + 1 :
        /\ i <= Len(y)
        /\ \A j \in 1 .. i - 1 : x[j] = y[j]
        /\ i <= Len(x) => x[i] < y[i]
is_sorted(s) == \A i \in 1 .. Len(s) - 1 : ~Before(s[i + 1], s[i])
is_unique_sorted(s) == \A i \in 1 .. Len(s) - 1 : Before(s[i], s[i + 1])
nums_unique_sorted(s) == \A i \in 1 .. Len(s) - 1 : s[i] < s[i + 1]

-----------------------------------------------------------------------------
(* The values without lists.                                                *)

unpack_utxo_input(s) == unpack_fields(3, LAMBDA x : x[3] \in INDEX_RANGE, s)
unpack_treasury_input(s) == unpack_fields(2, LAMBDA x : TRUE, s)
unpack_input(s) ==
    Then(unpack_num(s), LAMBDA kind, t :
        CASE kind = 0 -> unpack_utxo_input(s)
          [] kind = 1 -> unpack_treasury_input(s)
          [] OTHER -> Fail)

address_kind(kind) == kind = 0

unpack_single(s) ==
    unpack_fields(4, LAMBDA x : address_kind(x[2]) /\ x[4] \in 1 .. IOTA_SUPPLY, s)
unpack_dust_allowance(s) ==
    unpack_fields(4, LAMBDA x : address_kind(x[2]) /\ x[4] \in DUST_THRESHOLD .. IOTA_SUPPLY, s)
unpack_treasury_output(s) == unpack_fields(2, LAMBDA x : x[2] \in 0 .. IOTA_SUPPLY, s)
unpack_output(s) ==
    Then(unpack_num(s), LAMBDA kind, t :
        CASE kind = 0 -> unpack_single(s)
          [] kind = 1 -> unpack_dust_allowance(s)
          [] kind = 2 -> unpack_treasury_output(s)
          [] OTHER -> Fail)

signature_kind(kind) == kind = 0
unpack_reference_unlock(s) == unpack_fields(2, LAMBDA x : x[2] \in INDEX_RANGE, s)
unpack_unlock(s) ==
    Then(unpack_num(s), LAMBDA kind, t :
        CASE kind = 0 -> unpack_fields(3, LAMBDA x : signature_kind(x[2]), s)
          [] kind = 1 -> unpack_reference_unlock(s)
          [] OTHER -> Fail)

(* A single output without its kind, after the hash of the tail transaction.*)
unpack_funds_entry(s) ==
    unpack_fields(4, LAMBDA x : address_kind(x[2]) /\ x[4] \in DUST_THRESHOLD .. IOTA_SUPPLY, s)

-----------------------------------------------------------------------------
(* The checks of the constructors, applied by the builders and by unpack.   *)

unpack_parents(s) == unpack_list(1 .. PARENTS_MAX, unpack_num, s)
ParentsNew(parents) == Len(parents) \in 1 .. PARENTS_MAX /\ nums_unique_sorted(parents)

AddressesUnique(outputs) ==
    \A i, j \in DOMAIN outputs :
        i # j => ~(outputs[i][1] = outputs[j][1] /\ outputs[i][3] = outputs[j][3])

Total(outputs) == FoldLeft(LAMBDA sum, o : sum + o[4], 0, outputs)

(* Payloads a transaction, a milestone and a message may carry.             *)
PayloadAmong(payload, kinds) == payload = <<>> \/ payload[1].kind \in kinds

RegularEssenceFinish(e) ==
    /\ Len(e.inputs) \in COUNT_RANGE /\ Len(e.outputs) \in COUNT_RANGE
    /\ PayloadAmong(e.payload, {2})
    /\ \A i \in DOMAIN e.inputs : e.inputs[i][1] = 0
    /\ IsInjective(e.inputs)
    /\ is_sorted(e.inputs)
    /\ \A i \in DOMAIN e.outputs : e.outputs[i][1] \in {0, 1}
    /\ AddressesUnique(e.outputs)
    /\ Total(e.outputs) <= IOTA_SUPPLY
    /\ is_sorted(e.outputs)

(* A reference, numbered from 0, names an earlier block that is no           *)
(* reference itself.  The bug: a reference to a reference passes.           *)
ReferenceToAny(unlocks, i) == i = 1 \/ unlocks[i][2] >= i - 1
ReferenceInvalid(unlocks, i) ==
    \/ i = 1
    \/ unlocks[i][2] >= i - 1
    \/ unlocks[unlocks[i][2] + 1][1] = 1

UnlockBlocksNew(unlocks) ==
    /\ Len(unlocks) \in COUNT_RANGE
    /\ \A i \in DOMAIN unlocks : unlocks[i][1] = 1 => ~ReferenceInvalid(unlocks, i)
    /\ \A i, j \in DOMAIN unlocks :
           i # j /\ unlocks[i][1] = 0 => unlocks[i] # unlocks[j]

TransactionFinish(p) ==
    /\ RegularEssenceFinish(p.essence)
    /\ UnlockBlocksNew(p.unlocks)
    /\ Len(p.essence.inputs) = Len(p.unlocks)

PublicKeysValid(keys) == Len(keys) > 0 /\ nums_unique_sorted(keys)

MilestoneEssenceNew(p) ==
    /\ p.next_pow_score = 0 => p.next_pow_score_milestone_index = 0
    /\ p.next_pow_score # 0 => p.next_pow_score_milestone_index > p.index
    /\ PublicKeysValid(p.public_keys)
    /\ PayloadAmong(p.receipt, {3})

MilestoneNew(p) ==
    /\ ParentsNew(p.parents)
    /\ MilestoneEssenceNew(p)
    /\ Len(p.signatures) > 0
    /\ Len(p.public_keys) = Len(p.signatures)

IndexationNew(p) == Len(p.index) \in 1 .. INDEX_LENGTH_MAX /\ Len(p.data) <= MESSAGE_LENGTH_MAX

ReceiptNew(p) ==
    /\ Len(p.funds) \in COUNT_RANGE
    /\ p.transaction.kind = 4
    /\ is_unique_sorted(p.funds)
    /\ \A i, j \in DOMAIN p.funds : i # j => p.funds[i][1] # p.funds[j][1]

TreasuryNew(p) == p.input[1] = 1 /\ p.output[1] = 2

New(p) ==
    CASE p.kind = 0 -> TransactionFinish(p)
      [] p.kind = 1 -> MilestoneNew(p)
      [] p.kind = 2 -> IndexationNew(p)
      [] p.kind = 3 -> ReceiptNew(p)
      [] p.kind = 4 -> TreasuryNew(p)

-----------------------------------------------------------------------------
(* The payloads: kind, then the fields in order; an optional payload is     *)
(* preceded by its length, 0 for none.                                      *)

RECURSIVE pack_payload(_)
option_payload_pack(payload) ==
    IF payload = <<>> THEN <<0>>
    ELSE LET fields == pack_payload(payload[1]) IN <<Len(fields)>> \o fields

pack_regular_essence(e) ==
    pack_list(e.inputs) \o pack_list(e.outputs) \o option_payload_pack(e.payload)
pack_transaction(p) == <<0>> \o pack_regular_essence(p.essence) \o pack_list(p.unlocks)

pack_milestone_essence(p) ==
    <<p.index, p.merkle_proof>> \o pack_nums(p.parents)
        \o <<p.next_pow_score, p.next_pow_score_milestone_index>>
        \o pack_nums(p.public_keys) \o option_payload_pack(p.receipt)
pack_milestone(p) == pack_milestone_essence(p) \o pack_nums(p.signatures)

pack_indexation(p) == pack_nums(p.index) \o pack_nums(p.data)

pack_bool(b) == IF b THEN 1 ELSE 0
pack_receipt(p) ==
    <<p.migrated_at, pack_bool(p.last)>> \o pack_list(p.funds)
        \o option_payload_pack(<<p.transaction>>)

pack_treasury(p) == p.input \o p.output

pack_payload(p) ==
    <<p.kind>> \o CASE p.kind = 0 -> pack_transaction(p)
                     [] p.kind = 1 -> pack_milestone(p)
                     [] p.kind = 2 -> pack_indexation(p)
                     [] p.kind = 3 -> pack_receipt(p)
                     [] p.kind = 4 -> pack_treasury(p)

(* What a constructor is given is kept if it passes the checks.             *)
Checked(p, rest) == IF New(p) THEN Read(p, rest) ELSE Fail

RECURSIVE unpack_payload(_)

option_payload_unpack(s) ==
    Then(unpack_num(s), LAMBDA length, t :
        IF length = 0 THEN Read(<<>>, t)
        ELSE Then(unpack_payload(t), LAMBDA p, u :
            IF length = Len(pack_payload(p)) THEN Read(<<p>>, u) ELSE Fail))

unpack_regular_essence(s) ==
    Then(unpack_list(COUNT_RANGE, unpack_input, s), LAMBDA inputs, s1 :
    Then(unpack_list(COUNT_RANGE, unpack_output, s1), LAMBDA outputs, s2 :
    Then(option_payload_unpack(s2), LAMBDA payload, s3 :
        LET e == [inputs |-> inputs, outputs |-> outputs, payload |-> payload] IN
        IF RegularEssenceFinish(e) THEN Read(e, s3) ELSE Fail)))

unpack_essence(s) ==
    Then(unpack_num(s), LAMBDA kind, t :
        IF kind = 0 THEN unpack_regular_essence(t) ELSE Fail)

unpack_transaction(s) ==
    Then(unpack_essence(s), LAMBDA essence, s0 :
    Then(unpack_list(COUNT_RANGE, unpack_unlock, s0), LAMBDA unlocks, s1 :
        Checked([kind |-> 0, essence |-> essence, unlocks |-> unlocks], s1)))

unpack_milestone(s) ==
    Then(unpack_fields(2, LAMBDA x : TRUE, s), LAMBDA head, s0 :
    Then(unpack_parents(s0), LAMBDA parents, s1 :
    Then(unpack_fields(2, LAMBDA x : TRUE, s1), LAMBDA pow, s2 :
    Then(unpack_list(Nat, unpack_num, s2), LAMBDA keys, s3 :
    Then(option_payload_unpack(s3), LAMBDA receipt, s4 :
    Then(unpack_list(Nat, unpack_num, s4), LAMBDA signatures, s5 :
        Checked([kind |-> 1, index |-> head[1], merkle_proof |-> head[2], parents |-> parents,
                 next_pow_score |-> pow[1], next_pow_score_milestone_index |-> pow[2],
                 public_keys |-> keys, receipt |-> receipt,
                 signatures |-> signatures], s5)))))))

unpack_indexation(s) ==
    Then(unpack_list(1 .. INDEX_LENGTH_MAX, unpack_num, s), LAMBDA index, s0 :
    Then(unpack_list(0 .. MESSAGE_LENGTH_MAX, unpack_num, s0), LAMBDA data, s1 :
        Read([kind |-> 2, index |-> index, data |-> data], s1)))

unpack_bool(num) == num # 0
unpack_receipt(s) ==
    Then(unpack_fields(2, LAMBDA x : TRUE, s), LAMBDA head, s0 :
    Then(unpack_list(Nat, unpack_funds_entry, s0), LAMBDA funds, s1 :
    Then(option_payload_unpack(s1), LAMBDA transaction, s2 :
        IF transaction = <<>> THEN Fail
        ELSE Checked([kind |-> 3, migrated_at |-> head[1], last |-> unpack_bool(head[2]),
                      funds |-> funds, transaction |-> transaction[1]], s2))))

unpack_treasury(s) ==
    Then(unpack_input(s), LAMBDA input, s0 :
    Then(unpack_output(s0), LAMBDA output, s1 :
        Checked([kind |-> 4, input |-> input, output |-> output], s1)))

unpack_payload(s) ==
    Then(unpack_num(s), LAMBDA kind, t :
        CASE kind = 0 -> unpack_transaction(t)
          [] kind = 1 -> unpack_milestone(t)
          [] kind = 2 -> unpack_indexation(t)
          [] kind = 3 -> unpack_receipt(t)
          [] kind = 4 -> unpack_treasury(t)
          [] OTHER -> Fail)

-----------------------------------------------------------------------------
(* Messages.                                                                *)

pack_message(m) ==
    <<m.network_id>> \o pack_nums(m.parents) \o option_payload_pack(m.payload) \o <<m.nonce>>

(* MessageBuilder::finish, for a payload made by its own constructor.       *)
finish(m) ==
    /\ ParentsNew(m.parents)
    /\ PayloadAmong(m.payload, {0, 1, 2})
    /\ m.payload # <<>> => New(m.payload[1])
    /\ Len(pack_message(m)) <= MESSAGE_LENGTH_MAX

(* Message::unpack.  Its length is summed up without the field that holds   *)
(* the length of the payload.                                               *)
unpack_message(s) ==
    Then(unpack_num(s), LAMBDA network_id, s0 :
    Then(unpack_parents(s0), LAMBDA parents, s1 :
    Then(option_payload_unpack(s1), LAMBDA payload, s2 :
    Then(unpack_num(s2), LAMBDA nonce, rest :
        LET payload_len == IF payload = <<>> THEN 0 ELSE Len(pack_payload(payload[1])) IN
        IF /\ ParentsNew(parents)
           /\ PayloadAmong(payload, {0, 1, 2})
           /\ 1 + (1 + Len(parents)) + payload_len + 1 <= MESSAGE_LENGTH_MAX
           /\ rest = <<>>
        THEN Read([network_id |-> network_id, parents |-> parents,
                   payload |-> payload, nonce |-> nonce], rest)
        ELSE Fail))))

(* UnlockBlocks::get of the block that unlocks input i.                     *)
get(unlocks, i) == IF unlocks[i][1] = 1 THEN unlocks[unlocks[i][2] + 1] ELSE unlocks[i]

-----------------------------------------------------------------------------
(* Milestones.                                                              *)

(* MilestoneKeyManager::new.                                                *)
key_ranges == SortSeq(KeyRanges, LAMBDA x, y : x.start < y.start)

(* The keys up to the first range that starts later; a range whose end is   *)
(* its start has no end.                                                    *)
get_public_keys(index) ==
    {key_ranges[i].public_key : i \in
        {k \in DOMAIN key_ranges :
            /\ \A j \in 1 .. k : key_ranges[j].start <= index
            /\ \/ index <= key_ranges[k].end
               \/ key_ranges[k].start = key_ranges[k].end}}

(* Whether the signature of this number is the key's on the essence: the    *)
(* coordinator signed what was built, a faulty key signs anything.     *)
verify(key, signature, essence) ==
    /\ signature = key
    /\ \/ key \in Faulty
       \/ built.payload # <<>> /\ built.payload[1].kind = 1
          /\ essence = pack_milestone_essence(built.payload[1])

(* MilestonePayload::validate.                                              *)
validate_milestone(p, applicable) ==
    /\ min_threshold > 0
    /\ Cardinality(applicable) >= min_threshold
    /\ Len(p.signatures) >= min_threshold
    /\ \A i \in DOMAIN p.public_keys :
           /\ p.public_keys[i] \in applicable
           /\ verify(p.public_keys[i], p.signatures[i], pack_milestone_essence(p))

(* The milestone payload worker's validate.                                 *)
validate(m) ==
    LET p == m.payload[1] IN
    m.parents = p.parents /\ validate_milestone(p, get_public_keys(p.index))

-----------------------------------------------------------------------------
SyntaxInit ==
    /\ built \in {m \in Builds : finish(m)}
    /\ wire = pack_message(built)
    /\ edits = 0

(* What reaches the receiver differs from what was sent.                    *)
Alter(altered) ==
    /\ edits < MaxEdits
    /\ wire' = altered
    /\ edits' = edits + 1
    /\ UNCHANGED built

SyntaxNext ==
    \/ \E i \in DOMAIN wire, v \in Fields : Alter([wire EXCEPT ![i] = v])
    \/ \E i \in DOMAIN wire : Alter(RemoveAt(wire, i))
    \/ \E i \in 1 .. Len(wire) + 1, v \in Fields : Alter(InsertAt(wire, i, v))

-----------------------------------------------------------------------------
received == unpack_message(wire)

(* What a node builds and packs, another node unpacks to the same message:  *)
(* no check of unpack refuses what the builders let through, no field is    *)
(* lost (Packable for Message, its payloads and their parts).               *)
RoundTrip == edits = 0 => received = Read(built, <<>>)

(* Two wires never unpack to the same message, so that the identifier of a  *)
(* message, the hash of its bytes, does not depend on whether the bytes     *)
(* received or the message packed again are hashed.  The one exception is   *)
(* the flag `last` of a receipt, where every non-zero byte is true and      *)
(* packed as 1.                                                             *)
Canonical ==
    received.ok =>
        LET again == pack_message(received.value)
            differ == {i \in DOMAIN wire : again[i] # wire[i]}
        IN /\ Len(again) = Len(wire)
           /\ \A i \in differ : again[i] = 1 /\ wire[i] > 1
           /\ Cardinality(differ) <= (IF received.value.payload # <<>>
                                         /\ received.value.payload[1].kind = 1
                                      THEN Len(received.value.payload[1].receipt) ELSE 0)

(* In a transaction that is accepted, every input is unlocked by exactly    *)
(* one signature, which UnlockBlocks::get finds in one step, no output is   *)
(* consumed twice, and the outputs hold no more than the supply.            *)
SpendsSound ==
    received.ok /\ received.value.payload # <<>> /\ received.value.payload[1].kind = 0 =>
        LET p == received.value.payload[1] IN
        /\ \A i \in DOMAIN p.essence.inputs : i \in DOMAIN p.unlocks /\ get(p.unlocks, i)[1] = 0
        /\ Cardinality(ToSet(p.essence.inputs)) = Len(p.unlocks)
        /\ Total(p.essence.outputs) \in 1 .. IOTA_SUPPLY

(* A milestone is accepted exactly if its parents are those of its message, *)
(* each of its keys covers its index and signed its essence, and these are  *)
(* at least min_threshold different keys (validate in the milestone payload *)
(* worker, MilestonePayload::validate, MilestoneKeyManager).                *)
MilestoneAuthentic ==
    received.ok /\ received.value.payload # <<>> /\ received.value.payload[1].kind = 1 =>
        LET p == received.value.payload[1]
            Covers(range) == range.start <= p.index
                             /\ (p.index <= range.end \/ range.start = range.end)
            Signed(i) ==
                /\ \E r \in ToSet(KeyRanges) : r.public_key = p.public_keys[i] /\ Covers(r)
                /\ verify(p.public_keys[i], p.signatures[i], pack_milestone_essence(p))
        IN validate(received.value) <=>
               /\ p.parents = received.value.parents
               /\ \A i \in DOMAIN p.public_keys : Signed(i)
               /\ Cardinality(ToSet(p.public_keys)) >= min_threshold

(* Messages unpack to what was packed, from one wire each, and what is      *)
(* accepted spends with signatures and confirms with enough keys.           *)
MessagesSound ==
    /\ RoundTrip
    /\ Canonical
    /\ SpendsSound
    /\ MilestoneAuthentic
=============================================================================
