------------------------------- MODULE Dabble -------------------------------
(***************************************************************************)
(* i2s of trustedari/query.py: a shared GK-bit number becomes its decimal  *)
(* digits by double dabble, one binary digit per round from the top.  The  *)
(* values are those the shares join to.  A digit is a nibble, so sums and  *)
(* shifts are modulo 16.                                                   *)
(*                                                                         *)
(* Pow2 and Pow10 are the powers of two and of ten, as functions, which    *)
(* lets proofs use their recurrence.                                       *)
(***************************************************************************)
EXTENDS Integers

CONSTANTS
    GK,         \* bits of the number (16)
    Digits,     \* decimal digits asked for
    Pow2, Pow10

ASSUME DabbleAssumption == GK \in Nat /\ Digits \in Nat \ {0}
ASSUME PowAssumption ==
    /\ Pow2 \in [0 .. GK -> Nat \ {0}] /\ Pow2[0] = 1
    /\ \A n \in 0 .. GK - 1 : Pow2[n + 1] = 2 * Pow2[n]
    /\ Pow10 \in [0 .. Digits -> Nat \ {0}] /\ Pow10[0] = 1
    /\ \A n \in 0 .. Digits - 1 : Pow10[n + 1] = 10 * Pow10[n]

VARIABLES
    num,          \* the number (ga, modulo 2^GK by a2b)
    gb,         \* what is left of it, in the top bits
    bcd,        \* bcd[0] is the digit of the ones
    round       \* rounds of the outer loop done

bvars == <<num, gb, bcd, round>>

Digit == 0 .. Digits - 1

DabbleInit ==
    /\ num \in 0 .. Pow2[GK] - 1
    /\ gb = num
    /\ bcd = [d \in Digit |-> 0]
    /\ round = 0

\* A digit of 5 and more gets 3, which makes its double carry.
Dabbled(n) == IF n >= 5 THEN (n + 3) % 16 ELSE n

TopBit(n) == (2 * n) \div Pow2[GK]
Advanced(n) == (2 * n) % Pow2[GK]

\* What enters digit d: bit 3 of its lower neighbour, below it the number.
\* Mutant of CarryInto: the digits as they were before the dabbling.
CarryEarly(d) == IF d = 0 THEN TopBit(gb) ELSE bcd[d - 1] \div 8

CarryInto(d) == IF d = 0 THEN TopBit(gb) ELSE Dabbled(bcd[d - 1]) \div 8

DabbleRound ==
    /\ round < GK
    /\ bcd' = [d \in Digit |-> ((2 * Dabbled(bcd[d])) % 16) + CarryInto(d)]
    /\ gb' = Advanced(gb)
    /\ round' = round + 1
    /\ UNCHANGED num

DabbleSpec == DabbleInit /\ [][DabbleRound]_bvars

\* The segment i2s returns, most significant digit first, as digits (an
\* ASCII digit is 0x30 plus the digit); its length is always Digits.
\* Mutant of Printed: the order of the nibbles.
OutReversed == [n \in 1 .. Digits |-> bcd[n - 1]]

Printed == [n \in 1 .. Digits |-> bcd[Digits - n]]

-----------------------------------------------------------------------------
(***************************************************************************)
(* Correctness.                                                            *)
(***************************************************************************)
\* Type invariant: bcd holds nibbles.
DabbleTypeOK ==
    /\ num \in 0 .. Pow2[GK] - 1
    /\ gb \in 0 .. Pow2[GK] - 1
    /\ bcd \in [Digit -> 0 .. 15]
    /\ round \in 0 .. GK

\* The bits of num that have been shifted in.
Read == num \div Pow2[GK - round]

\* After every round the nibbles are the decimal digits of the bits read so
\* far: no carry between digits is lost or counted twice.
DigitsRight == \A d \in Digit : bcd[d] = (Read \div Pow10[d]) % 10

\* What is left in gb are the bits not yet read, at the top.
RestRight == gb = Pow2[round] * (num % Pow2[GK - round])

\* The place of the next bit and the bits read make up the width.
PowersFit == Pow2[round] * Pow2[GK - round] = Pow2[GK]

\* The inductive form of DigitsRight.
DabbleInv == DabbleTypeOK /\ DigitsRight /\ RestRight /\ PowersFit

\* i2s returns the decimal form of num, modulo 10^Digits: every position holds
\* the digit of its weight.
DecimalOut ==
    round = GK =>
        \A n \in 1 .. Digits : Printed[n] = (num \div Pow10[Digits - n]) % 10

(***************************************************************************)
(* What i2s promises: a decimal register of Digits digits that is doubled  *)
(* and takes the next bit in every round.  The nibbles are its digits.     *)
(***************************************************************************)
Written ==
    LET below[d \in 0 .. Digits] ==
            IF d = 0 THEN 0 ELSE below[d - 1] + (bcd[d - 1] * Pow10[d - 1])
    IN  below[Digits]

Register == INSTANCE Decimal WITH
    width <- GK, modulus <- Pow10[Digits], pow <- Pow2,
    number <- num, value <- Written, taken <- round

\* i2s implements the register: the nibble-wise rounds add up to doubling
\* the number they stand for.
DoublesRegister == Register!Spec

=============================================================================
