------------------------------ MODULE TritBuf ------------------------------
(***************************************************************************)
(* Buffers of balanced trits in the encodings T1B1 to T5B1, which hold one *)
(* to five trits in a byte, their slices, and conversions of trits.        *)
(*                                                                         *)
(* A slice keeps a pointer to a byte and one number that holds its length  *)
(* and the position of its first trit in that byte.  Next to the bytes the *)
(* model keeps the trits that were meant.                                  *)
(***************************************************************************)
EXTENDS Integers, Sequences, SequencesExt

CONSTANTS
    Encodings, \* trits per byte of the encodings that are used
    MaxLen     \* bound: trits in a buffer

VARIABLES
    encoding,  \* TRITS_PER_BYTE
    bytes,     \* the bytes of the buffer, as i8
    len,       \* its number of trits
    slice,     \* the slice that is borrowed from it: pointer and packed length
    trits,     \* history: the trits of the buffer
    first      \* history: where the slice begins in the buffer

bufVars == << encoding, bytes, len, slice, trits, first >>

Btrit == {-1, 0, 1}
NoSlice == [ptr |-> 0, packed |-> -1]

(* The encodings differ in these: trits per byte, the number between the   *)
(* balanced and the unbalanced form, the bits a packed length has for the  *)
(* offset, and the bits of the numbers that bytes are computed with.       *)
T1B1 == [TRITS_PER_BYTE |-> 1, BALANCE_DIFF |-> 1, offsetBits |-> 0, width |-> 8]

T2B1 == [TRITS_PER_BYTE |-> 2, BALANCE_DIFF |-> 4, offsetBits |-> 2, width |-> 8]

T3B1 == [TRITS_PER_BYTE |-> 3, BALANCE_DIFF |-> 13, offsetBits |-> 2, width |-> 8]

T4B1 == [TRITS_PER_BYTE |-> 4, BALANCE_DIFF |-> 40, offsetBits |-> 2, width |-> 8]

T5B1 == [TRITS_PER_BYTE |-> 5, BALANCE_DIFF |-> 121, offsetBits |-> 3, width |-> 16]

LOCAL Parameters == << T1B1, T2B1, T3B1, T4B1, T5B1 >>
LOCAL BALANCE_DIFF(n) == Parameters[n].BALANCE_DIFF
LOCAL Width(n) == Parameters[n].width
LOCAL Wrapped(x, w) == ((x + 2 ^ (w - 1)) % 2 ^ w) - 2 ^ (w - 1)

LOCAL Element(ux, elem) == (ux \div 3 ^ elem) % 3

extract(n, b, elem) == Element(Wrapped(b + BALANCE_DIFF(n), Width(n)), elem) - 1

insert(n, b, elem, t) ==
    LET ux == Wrapped(b + BALANCE_DIFF(n), Width(n))
    IN  Wrapped(ux + ((t + 1) - Element(ux, elem)) * 3 ^ elem - BALANCE_DIFF(n), Width(n))

is_valid(n, b) == -BALANCE_DIFF(n) <= b /\ b <= BALANCE_DIFF(n)
-----------------------------------------------------------------------------
(* Slices.  The packed length of a T1B1 slice is its length.              *)
LOCAL OffsetBits(n) == Parameters[n].offsetBits

make(ptr, offset, length) ==
    [ptr |-> ptr + offset \div encoding, packed |-> length * 2 ^ OffsetBits(encoding) + (offset % encoding)]

Len_(s) == s.packed \div 2 ^ OffsetBits(encoding)
Offset(s) == s.packed % 2 ^ OffsetBits(encoding)

(* The bug: the offset of the slice in its first byte is forgotten.        *)
ptr_of_index(s, index) == s.ptr + index \div encoding

ptr_of(s, index) == s.ptr + (Offset(s) + index) \div encoding

get_unchecked(s, index) ==
    extract(encoding, bytes[ptr_of(s, index) + 1], (Offset(s) + index) % encoding)

LOCAL Set(bs, s, index, t) ==
    LET i == ptr_of(s, index) + 1
    IN  [bs EXCEPT ![i] = insert(encoding, @, (Offset(s) + index) % encoding, t)]

slice_unchecked(s, lo, hi) ==
    IF encoding = 1 THEN make(s.ptr, lo, hi - lo)
    ELSE make(ptr_of(s, lo), (Offset(s) + lo) % encoding, hi - lo)

iter(s) == [i \in 1 .. Len_(s) |-> get_unchecked(s, i - 1)]
-----------------------------------------------------------------------------
(* The buffer. *)
Push(t) ==
    /\ slice = NoSlice
    /\ len < MaxLen
    /\ bytes' = IF len % encoding = 0
                THEN Append(bytes, insert(encoding, 0, 0, t))
                ELSE [bytes EXCEPT ![Len(bytes)] = insert(encoding, @, len % encoding, t)]
    /\ len' = len + 1
    /\ trits' = Append(trits, t)
    /\ UNCHANGED << encoding, slice, first >>

(* The byte keeps the trit that was popped unless it was its only one. *)
Pop ==
    /\ slice = NoSlice
    /\ len > 0
    /\ bytes' = IF len % encoding = 1 \/ encoding = 1 THEN Front(bytes) ELSE bytes
    /\ len' = len - 1
    /\ trits' = Front(trits)
    /\ UNCHANGED << encoding, slice, first >>

Clear ==
    /\ slice = NoSlice
    /\ bytes' = << >> /\ len' = 0 /\ trits' = << >>
    /\ UNCHANGED << encoding, slice, first >>

(* encode, to_buf: the trits are collected into a buffer of encoding n. *)
Encode(n) ==
    LET collect(bs, t) ==
            IF bs.len % n = 0 THEN [bytes |-> Append(bs.bytes, insert(n, 0, 0, t)), len |-> bs.len + 1]
            ELSE [bytes |-> [bs.bytes EXCEPT ![Len(bs.bytes)] = insert(n, @, bs.len % n, t)], len |-> bs.len + 1]
        result == FoldLeft(collect, [bytes |-> << >>, len |-> 0], iter(make(0, 0, len)))
    IN  /\ slice = NoSlice
        /\ encoding' = n
        /\ bytes' = result.bytes
        /\ len' = result.len
        /\ UNCHANGED << slice, trits, first >>

(* as_slice, subslice: a slice of the buffer, or of the slice. *)
Borrow(lo, hi) ==
    LET whole == IF slice = NoSlice THEN make(0, 0, len) ELSE slice
    IN  /\ lo <= hi /\ hi <= Len_(whole)
        /\ slice' = slice_unchecked(whole, lo, hi)
        /\ first' = first + lo
        /\ UNCHANGED << encoding, bytes, len, trits >>

Release ==
    /\ slice # NoSlice
    /\ slice' = NoSlice /\ first' = 0
    /\ UNCHANGED << encoding, bytes, len, trits >>

SetTrit(index, t) ==
    /\ slice # NoSlice
    /\ index < Len_(slice)
    /\ bytes' = Set(bytes, slice, index, t)
    /\ trits' = [trits EXCEPT ![first + index + 1] = t]
    /\ UNCHANGED << encoding, len, slice, first >>

LOCAL Overwrite(bs, ts) ==
    FoldLeft(LAMBDA acc, i : Set(acc, slice, i - 1, ts[i]), bs, [i \in DOMAIN ts |-> i])

(* copy_from and fill set the trits of the slice one after the other. *)
Fill(t) ==
    /\ slice # NoSlice
    /\ bytes' = Overwrite(bytes, [i \in 1 .. Len_(slice) |-> t])
    /\ trits' = [i \in DOMAIN trits |-> IF i \in first + 1 .. first + Len_(slice) THEN t ELSE trits[i]]
    /\ UNCHANGED << encoding, len, slice, first >>

Negate ==
    /\ slice # NoSlice
    /\ bytes' = Overwrite(bytes, [i \in 1 .. Len_(slice) |-> -get_unchecked(slice, i - 1)])
    /\ trits' = [i \in DOMAIN trits |-> IF i \in first + 1 .. first + Len_(slice) THEN -trits[i] ELSE trits[i]]
    /\ UNCHANGED << encoding, len, slice, first >>

(* pad_zeros: only a T3B1 buffer is padded, to whole trytes. *)
PadZeros ==
    LET missing == (3 - (len % 3)) % 3
    IN  /\ slice = NoSlice
        /\ encoding = 3 /\ len + missing <= MaxLen
        /\ bytes' = IF missing = 0 THEN bytes
                    ELSE [bytes EXCEPT ![Len(bytes)] =
                            insert(3, IF missing = 2 THEN insert(3, @, 1, 0) ELSE @, 2, 0)]
        /\ len' = len + missing
        /\ trits' = trits \o [i \in 1 .. missing |-> 0]
        /\ UNCHANGED << encoding, slice, first >>
-----------------------------------------------------------------------------
(* Numbers of w bits.  The value that trits stand for is the reference.    *)
Value(ts) == FoldRight(LAMBDA t, acc : 3 * acc + t, ts, 0)

LOCAL Fits(x, w) == -(2 ^ (w - 1)) <= x /\ x < 2 ^ (w - 1)

(* trits_to_int, signed: the error, or the number. *)
trits_to_int(ts, w) ==
    LET step(t, acc) ==
            IF acc.error # "none" THEN acc
            ELSE IF ~ Fits(acc.n + t, w) THEN [acc EXCEPT !.error = IF t < 0 THEN "Underflow" ELSE "Overflow"]
            ELSE IF Fits(acc.n + t + acc.n, w) /\ Fits(acc.n + t + acc.n + acc.n, w)
                 THEN [acc EXCEPT !.n = acc.n + t + acc.n + acc.n]
            ELSE [acc EXCEPT !.error = IF acc.n < 0 THEN "Underflow" ELSE "Overflow"]
    IN  IF ts = << >> THEN [n |-> 0, error |-> "Empty"]
        ELSE FoldRight(step, ts, [n |-> 0, error |-> "none"])

(* signed_int_trits: it counts with the negative number, so that the       *)
(* smallest one has no special case.  Division rounds toward zero.         *)
LOCAL Abs(x) == IF x < 0 THEN -x ELSE x

RECURSIVE NegativeTrits(_, _)
NegativeTrits(x, sign) ==
    IF x = 0 THEN << >>
    ELSE LET modulus == Abs(x + 1) % 3
             rest == -(Abs(x) \div 3) - (IF modulus = 1 THEN 1 ELSE 0)
         IN  << sign * (((modulus + 2) % 3) - 1) >> \o NegativeTrits(rest, sign)

signed_int_trits(x) ==
    IF x = 0 THEN << 0 >> ELSE NegativeTrits(-Abs(x), IF x < 0 THEN -1 ELSE 1)
-----------------------------------------------------------------------------
(* B1T6: a byte is two trytes.  as_trits of a tryte is its T3B1 byte.     *)
LOCAL Tryte(ts) == ts[1] + 3 * ts[2] + 9 * ts[3]
LOCAL as_trits(tryte) == [i \in 1 .. 3 |-> extract(3, tryte, i - 1)]

encode_group(b) ==
    LET v == b + 13 * 27 + 13
    IN  << (v % 27) - 13, v \div 27 - 13 >>

decode_group(t1, t2) ==
    IF Fits(t1 + 27 * t2, 8) THEN << t1 + 27 * t2 >> ELSE << >>
-----------------------------------------------------------------------------
(* A new buffer, or one over raw bytes that are valid, of which some trits *)
(* are used: the reference is the number the byte stands for.              *)
BufInit ==
    /\ encoding \in Encodings
    /\ slice = NoSlice /\ first = 0
    /\ \/ bytes = << >> /\ len = 0 /\ trits = << >>
       \/ \E b \in {x \in -128 .. 127 : is_valid(encoding, x)}, ts \in [1 .. encoding -> Btrit] :
            /\ Value(ts) = b
            /\ bytes = << b >>
            /\ \E n \in {encoding} \cap 0 .. MaxLen : len = n /\ trits = SubSeq(ts, 1, n)

BufNext ==
    \/ \E t \in Btrit : Push(t)
    \/ Pop
    \/ Clear
    \/ \E n \in Encodings : Encode(n)
    \/ \E lo, hi \in 0 .. MaxLen : Borrow(lo, hi)
    \/ Release
    \/ \E index \in 0 .. MaxLen - 1, t \in Btrit : SetTrit(index, t)
    \/ \E t \in Btrit : Fill(t)
    \/ Negate
    \/ PadZeros
-----------------------------------------------------------------------------
(* Whatever is pushed, popped, set and sliced, in every encoding, a buffer *)
(* and a slice of a slice of it read as the trits that were meant: no trit *)
(* of a byte disturbs another one, and a slice that begins inside a byte   *)
(* finds its place.                                                        *)
TritsAsMeant ==
    /\ len = Len(trits)
    /\ iter(make(0, 0, len)) = trits
    /\ slice # NoSlice => iter(slice) = SubSeq(trits, first + 1, first + Len_(slice))

(* Every byte stays one that from_raw accepts, so a buffer can be read     *)
(* back from its bytes, and no count of T1B1 to T5B1 overflows.            *)
BytesValid ==
    /\ Len(bytes) = (len + encoding - 1) \div encoding
    /\ \A i \in DOMAIN bytes : is_valid(encoding, bytes[i])

(* trits_to_int yields the number the trits stand for whenever it fits,    *)
(* although it adds in three checked steps, and signed_int_trits writes    *)
(* that number back without leading zeros.                                 *)
IntsAsMeant ==
    LET r == trits_to_int(trits, 6)
    IN  /\ r.error = "none" <=> trits # << >> /\ Fits(Value(trits), 6)
        /\ r.error = "none" =>
            LET written == signed_int_trits(r.n)
            IN  /\ r.n = Value(trits) /\ Value(written) = r.n
                /\ Len(written) > 1 => Last(written) # 0
        /\ r.error = "Underflow" => Value(trits) < 0

(* Six trits decode to a byte exactly when they stand for a number of one  *)
(* byte, and that byte is encoded as the same six trits: encode_group      *)
(* leaves the range of a tryte for no byte.                                *)
BytesAsTrytes ==
    Len(trits) = 6 =>
        LET decoded == decode_group(Tryte(SubSeq(trits, 1, 3)), Tryte(SubSeq(trits, 4, 6)))
        IN  IF decoded = << >> THEN ~ Fits(Value(trits), 8)
            ELSE LET groups == encode_group(decoded[1])
                 IN  /\ groups[1] \in -13 .. 13 /\ groups[2] \in -13 .. 13
                     /\ as_trits(groups[1]) \o as_trits(groups[2]) = trits

(* Buffers, slices and conversions of trits hold what is meant in every     *)
(* encoding, in valid bytes.                                                *)
TritsSound ==
    /\ TritsAsMeant
    /\ BytesValid
    /\ IntsAsMeant
    /\ BytesAsTrytes
=============================================================================
