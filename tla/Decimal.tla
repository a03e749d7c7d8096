------------------------------ MODULE Decimal -------------------------------
(***************************************************************************)
(* What the conversion to decimal computes, without digits: the bits of a  *)
(* number are taken from the top, and a register modulo some power of ten  *)
(* is doubled and takes the bit.                                           *)
(***************************************************************************)
EXTENDS Integers

CONSTANTS width, modulus, pow
VARIABLES number, value, taken

Bit(n) == (number \div pow[n]) % 2

Init ==
    /\ number \in 0 .. pow[width] - 1
    /\ value = 0
    /\ taken = 0

Take ==
    /\ taken < width
    /\ value' = (2 * value + Bit(width - taken - 1)) % modulus
    /\ taken' = taken + 1
    /\ UNCHANGED number

Spec == Init /\ [][Take]_<<number, value, taken>>

=============================================================================
