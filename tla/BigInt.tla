------------------------------- MODULE BigInt -------------------------------
(***************************************************************************)
(* The integers between binary and ternary that Kerl computes with: U384   *)
(* and I384, arrays of binary digits with the carries between them, and    *)
(* T242 and T243, buffers of trits.                                        *)
(*                                                                         *)
(* LEN digits of WIDTH bits stand for the twelve digits of 32 bits and     *)
(* TRITS for 243 trits: LEN * WIDTH bits hold one trit less, and not all.  *)
(* Next to the digits the model keeps the number that is meant.  A panic,  *)
(* as a conversion that fails, leaves no digits.                           *)
(***************************************************************************)
EXTENDS Integers, Sequences, SequencesExt

CONSTANTS
    LEN,       \* digits of a number
    WIDTH,     \* bits of a digit
    BYTE,      \* bits of a byte
    TRITS,     \* trits of a T243
    Operands   \* numbers that are added and subtracted

ASSUME TRITS > 1 /\ LEN > 1 /\ WIDTH % BYTE = 0 /\ 3 ^ (TRITS - 1) < 2 ^ (LEN * WIDTH) /\ 2 ^ (LEN * WIDTH) < 3 ^ TRITS

VARIABLES
    digits,    \* the digits of a number, or none after an error or a panic
    order,     \* "LE": the least significant digit is the first one, or "BE"
    value,     \* history: the number that is meant, as unsigned
    parsed     \* history: the trits it was made from, in the first state

bigVars == << digits, order, value, parsed >>

BASE == 2 ^ WIDTH
LOCAL Limit == BASE ^ LEN
LOCAL Digits(n) == [i \in 1 .. LEN |-> (n \div BASE ^ (i - 1)) % BASE]
LOCAL Number(s) == FoldRight(LAMBDA d, acc : BASE * acc + d, s, 0)
LOCAL UValue(ts) == FoldRight(LAMBDA t, acc : 3 * acc + t, ts, 0)
LOCAL Signed(n) == IF n < Limit \div 2 THEN n ELSE n - Limit
LOCAL LE(s, o) == IF o = "LE" THEN s ELSE Reverse(s)
-----------------------------------------------------------------------------
(* Carry chains, on digits from the least significant one. *)
overflowing_add_with_carry(a, b, carry) ==
    LET sum == (a + b) % BASE
    IN  [sum |-> (sum + carry) % BASE,
         overflow |-> IF a + b >= BASE \/ sum + carry >= BASE THEN 1 ELSE 0]

(* A loop over digits that builds their new values and hands a carry on;   *)
(* reach is the digit that the last carry went to.                         *)
LOCAL Loop(step(_, _), s, first) ==
    FoldLeftDomain(LAMBDA acc, i :
                       LET next == step(i, acc.carry)
                       IN  [out |-> Append(acc.out, next.sum), carry |-> next.overflow,
                            reach |-> IF next.overflow # 0 THEN i + 1 ELSE acc.reach],
                   [out |-> << >>, carry |-> first, reach |-> 1], s)

LOCAL Split(n) == [sum |-> n % BASE, overflow |-> n \div BASE]

LOCAL Chain(s, o, first) ==
    Loop(LAMBDA i, carry : overflowing_add_with_carry(s[i], o[i], carry), s, first).out

not_inplace(s) == FoldLeft(LAMBDA out, d : Append(out, BASE - 1 - d), << >>, s)

add_inplace(s, o) == Chain(s, o, 0)

sub_inplace(s, o) == Chain(s, not_inplace(o), 1)

(* The digits that the carry reached are returned as the extent; past the  *)
(* last one the index is out of bounds.                                    *)
add_digit_inplace(s, d) ==
    LET result == Loop(LAMBDA i, carry : Split(s[i] + carry), s, d)
    IN  [digits |-> result.out, extent |-> result.reach]

LOCAL Borrowed(s, d) ==
    LET result == Loop(LAMBDA i, borrow : [sum |-> (s[i] - borrow) % BASE, overflow |-> IF s[i] < borrow THEN 1 ELSE 0],
                       s, d)
    IN  [digits |-> result.out, extent |-> result.reach]

sub_integer_inplace(s, d) == Borrowed(s, d)

(* Big-endian digits: the integer is taken from the most significant one,  *)
(* and the borrow from the least significant ones.                         *)
be_sub_integer_inplace(s, d) ==
    LET low == Reverse([s EXCEPT ![1] = (s[1] - d) % BASE])
        rest == Borrowed(low, 1)
    IN  IF s[1] < d THEN [digits |-> Reverse(rest.digits), extent |-> rest.extent]
        ELSE [digits |-> Reverse(low), extent |-> 0]

divide_by_two(s) ==
    [i \in 1 .. LEN |-> (s[i] \div 2) + IF i < LEN THEN (s[i + 1] * 2 ^ (WIDTH - 1)) % BASE ELSE 0]

(* Big-endian digits: the loop starts where it ends. *)
be_divide_by_two(s) == [s EXCEPT ![1] = s[1] \div 2]

(* The comparison of sequences, from the most significant member. *)
LOCAL Compare(s, o) ==
    LET differ == {i \in DOMAIN s : s[i] # o[i]}
        top == CHOOSE i \in differ : \A j \in differ : j <= i
    IN  IF differ = {} THEN "Equal" ELSE IF s[top] > o[top] THEN "Greater" ELSE "Less"

LOCAL Reversed(ordering) ==
    CASE ordering = "Greater" -> "Less" [] ordering = "Less" -> "Greater" [] OTHER -> "Equal"

cmp_u384(s, o) == Compare(s, o)

(* I384: the most significant digits decide, unless they are equal; the    *)
(* less significant ones are compared the other way round when both        *)
(* numbers are negative.                                                   *)
cmp_i384(s, o) ==
    LET negative(d) == d >= BASE \div 2
    IN  IF negative(s[LEN]) # negative(o[LEN]) THEN IF negative(s[LEN]) THEN "Less" ELSE "Greater"
        ELSE IF s[LEN] # o[LEN] THEN IF s[LEN] > o[LEN] THEN "Greater" ELSE "Less"
        ELSE IF negative(s[LEN]) THEN Reversed(Compare(s, o)) ELSE Compare(s, o)
-----------------------------------------------------------------------------
(* Trits of a binary number: long division of all digits by three, once    *)
(* for every trit.                                                         *)
from_u384(s) ==
    LET divide(acc, i) ==
            LET be == Reverse(acc.digits)
                result == Loop(LAMBDA k, rem : [sum |-> (rem * BASE + be[k]) \div 3,
                                                overflow |-> (rem * BASE + be[k]) % 3], be, 0)
            IN  [digits |-> Reverse(result.out), trits |-> Append(acc.trits, result.carry)]
    IN  FoldLeft(divide, [digits |-> s, trits |-> << >>], [i \in 1 .. TRITS |-> i]).trits

MAX == [i \in 1 .. LEN |-> BASE - 1]
UTRIT_U384_MAX == from_u384(MAX)

(* One step of the accumulation: the digits within the extent are tripled, *)
(* a last carry takes the next digit, the trit is added.  The write of the *)
(* last carry is unchecked.                                                *)
LOCAL Tripled(acc) ==
    LET s == SubSeq(acc.digits, 1, acc.extent)
        result == Loop(LAMBDA i, carry : Split(3 * s[i] + carry), s, 0)
    IN  IF result.carry = 0
        THEN [digits |-> result.out \o SubSeq(acc.digits, acc.extent + 1, LEN), extent |-> acc.extent]
        ELSE [digits |-> result.out \o << result.carry >> \o SubSeq(acc.digits, acc.extent + 2, LEN),
              extent |-> acc.extent + 1]

accumulate_fixed_extent(acc, t) ==
    LET tripled == Tripled(acc)
    IN  [digits |-> add_digit_inplace(tripled.digits, t).digits, extent |-> tripled.extent]

accumulate(acc, t) ==
    LET tripled == Tripled(acc)
        added == add_digit_inplace(tripled.digits, t)
    IN  [digits |-> added.digits, extent |-> IF added.extent > tripled.extent THEN added.extent ELSE tripled.extent]

LOCAL Error == [digits |-> << >>, extent |-> 0]

(* Zero trits above the most significant one are skipped. *)
try_from_t243(ts) ==
    IF Compare(ts, UTRIT_U384_MAX) = "Greater" THEN Error
    ELSE LET used == {i \in DOMAIN ts : ts[i] # 0}
             top == IF used = {} THEN 0 ELSE CHOOSE i \in used : \A j \in used : j <= i
         IN  FoldRight(LAMBDA t, acc : accumulate(acc, t), SubSeq(ts, 1, top),
                       [digits |-> Digits(0), extent |-> 1])

from_t242(ts) == try_from_t243(Append(ts, 0)).digits
-----------------------------------------------------------------------------
(* Constants of the code. *)
HALF_MAX == divide_by_two(MAX)
LOCAL Filled(n, t) == [i \in 1 .. n |-> t]
HALF_MAX_T242 == from_t242(Filled(TRITS - 1, 1))
NEG_HALF_MAX_T242 == sub_inplace(Digits(0), HALF_MAX_T242)
ONLY_T243_OCCUPIED == try_from_t243(Append(Filled(TRITS - 1, 0), 1)).digits
MAX_T242 == from_t242(Filled(TRITS - 1, 2))
LOCAL ONE == Digits(1)

(* Signed numbers and balanced trits. *)
LOCAL Shifted(ts, by) == [i \in DOMAIN ts |-> ts[i] + by]

i384_from_t242(bs) == sub_inplace(from_t242(Shifted(bs, 1)), HALF_MAX_T242)

t242_try_from_i384(s) ==
    LET unsigned == add_inplace(s, HALF_MAX_T242)
    IN  IF cmp_u384(unsigned, MAX_T242) = "Greater" THEN << >>
        ELSE Shifted(Front(from_u384(unsigned)), -1)

shift_into_u384(s) == sub_inplace(sub_inplace(s, HALF_MAX), ONE)

shift_into_i384(s) == sub_inplace(sub_inplace(s, HALF_MAX), ONE)

t243_from_i384(s) == Shifted(from_u384(shift_into_u384(s)), -1)

i384_try_from_t243(bs) ==
    LET unsigned == try_from_t243(Shifted(bs, 1))
    IN  IF unsigned = Error THEN << >> ELSE shift_into_i384(unsigned.digits)

zero_most_significant_trit(s) ==
    IF cmp_i384(s, HALF_MAX_T242) = "Greater" THEN sub_inplace(s, ONLY_T243_OCCUPIED)
    ELSE IF cmp_i384(s, NEG_HALF_MAX_T242) = "Less" THEN add_inplace(s, ONLY_T243_OCCUPIED)
    ELSE s

(* The bytes of a number, most significant first: what Keccak hashes. *)
LOCAL BytesPerDigit == WIDTH \div BYTE
LOCAL Bytes(d) == [k \in 1 .. BytesPerDigit |-> (d \div 2 ^ (BYTE * (BytesPerDigit - k))) % 2 ^ BYTE]
to_u8(s) == FlattenSeq([i \in 1 .. LEN |-> Bytes(s[LEN + 1 - i])])
-----------------------------------------------------------------------------
(* A number is made from trits and computed with.                          *)
LOCAL Becomes(s, n) ==
    /\ digits' = LE(s, order)
    /\ value' = n % Limit
    /\ parsed' = << >>
    /\ UNCHANGED order

Add(n) == digits # << >> /\ Becomes(add_inplace(LE(digits, order), Digits(n)), value + n)

Sub(n) == digits # << >> /\ Becomes(sub_inplace(LE(digits, order), Digits(n)), value - n)

Panics == digits' = << >> /\ value' = 0 /\ parsed' = << >> /\ UNCHANGED order

(* Little-endian indexes go up, and past the last digit they are out of    *)
(* bounds.  Big-endian ones go down and below zero once the carry has      *)
(* reached the most significant digit: a panic in a debug build, while in  *)
(* a release build only a carry out of that digit leads to one.            *)
AddDigit(d) ==
    LET result == add_digit_inplace(LE(digits, order), d)
    IN  /\ digits # << >>
        /\ \/ result.extent <= LEN /\ Becomes(result.digits, value + d)
           \/ result.extent > (IF order = "LE" THEN LEN ELSE LEN - 1) /\ Panics

SubInteger(d) ==
    LET result == sub_integer_inplace(digits, d)
    IN  /\ digits # << >> /\ order = "LE"
        /\ \/ result.extent <= LEN /\ Becomes(result.digits, value - d)
           \/ result.extent > LEN /\ Panics

(* What big-endian digits are after these two is not what is meant: from   *)
(* here on, the number they then hold is.                                  *)
LOCAL TakenAs(s) == Becomes(Reverse(s), Number(Reverse(s)))

BigEndianSubInteger(d) ==
    LET result == be_sub_integer_inplace(digits, d)
    IN  /\ digits # << >> /\ order = "BE"
        /\ \/ result.extent <= LEN /\ TakenAs(result.digits)
           \/ result.extent >= LEN /\ Panics

BigEndianDivideByTwo == digits # << >> /\ order = "BE" /\ TakenAs(be_divide_by_two(digits))

Not == digits # << >> /\ Becomes(not_inplace(LE(digits, order)), -value - 1)

DivideByTwo ==
    /\ digits # << >> /\ order = "LE"
    /\ Becomes(divide_by_two(digits), value \div 2)

ToggleEndianness ==
    /\ digits # << >>
    /\ digits' = Reverse(digits)
    /\ order' = IF order = "LE" THEN "BE" ELSE "LE"
    /\ parsed' = << >>
    /\ UNCHANGED value

BigInit ==
    /\ order = "LE"
    /\ parsed \in [1 .. TRITS -> 0 .. 2]
    /\ digits = try_from_t243(parsed).digits
    /\ value = UValue(parsed)

BigNext ==
    \/ \E n \in Operands : Add(n) \/ Sub(n)
    \/ \E d \in 0 .. BASE - 1 : AddDigit(d) \/ SubInteger(d) \/ BigEndianSubInteger(d)
    \/ Not
    \/ DivideByTwo \/ BigEndianDivideByTwo
    \/ ToggleEndianness
-----------------------------------------------------------------------------
(* Carries and borrows reach the digits they must, in both orders: after   *)
(* any computation that does not panic the digits are those of the number  *)
(* that is meant, and the bytes for Keccak are its bytes.  The big-endian  *)
(* divide_by_two and sub_integer_inplace are exempt: they do not compute   *)
(* what they are named for.                                                *)
DigitsAsMeant ==
    digits # << >> =>
        /\ LE(digits, order) = Digits(value)
        /\ FoldLeft(LAMBDA acc, b : 2 ^ BYTE * acc + b, 0, to_u8(LE(digits, order))) = value

(* The comparison with the largest number rejects exactly the trits that   *)
(* do not fit, so the accumulation, which tracks how many digits are in    *)
(* use, never writes its unchecked carry past the last digit.              *)
TritsFit ==
    parsed # << >> =>
        /\ digits = << >> <=> UValue(parsed) >= Limit
        /\ digits # << >> => try_from_t243(parsed).extent <= LEN

(* Long division and accumulation are inverse, for unsigned numbers, for   *)
(* signed ones through the shifted range, and for T242 exactly where the   *)
(* number is in the balanced range: there the trits stand for the number.  *)
TernaryRoundTrip ==
    digits # << >> =>
        LET s == LE(digits, order)
            bs == t242_try_from_i384(s)
        IN  /\ try_from_t243(from_u384(s)).digits = s
            /\ i384_try_from_t243(t243_from_i384(s)) = s
            /\ bs # << >> <=> 2 * Signed(value) \in 1 - 3 ^ (TRITS - 1) .. 3 ^ (TRITS - 1) - 1
            /\ bs # << >> => UValue(bs) = Signed(value) /\ i384_from_t242(bs) = s

(* zero_most_significant_trit changes a number by a multiple of that trit  *)
(* only and brings it into the balanced range.  Numbers that are negative  *)
(* and share the most significant digit of the bound are exempt:           *)
(* partial_cmp orders the other digits of two negative numbers the wrong   *)
(* way round, and they stay, or get, out of the range.                     *)
MostSignificantTritZeroed ==
    digits # << >> =>
        LET s == LE(digits, order)
            n == Signed(Number(zero_most_significant_trit(s)))
        IN  /\ (n - Signed(value)) % 3 ^ (TRITS - 1) = 0
            /\ s[LEN] # NEG_HALF_MAX_T242[LEN] =>
                  2 * n \in 1 - 3 ^ (TRITS - 1) .. 3 ^ (TRITS - 1) - 1

(* Numbers of digits and of trits hold what is meant through carries, and   *)
(* convert to each other without a loss.                                    *)
NumbersSound ==
    /\ TritsFit
    /\ DigitsAsMeant
    /\ TernaryRoundTrip
    /\ MostSignificantTritZeroed
=============================================================================
