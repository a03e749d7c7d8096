------------------------------ MODULE AndTree -------------------------------
(***************************************************************************)
(* The logarithmic AND of a list of bits: PC.eq_const and PC.eq_const_bits *)
(* of trustedari/twopc.py and _fold_and of billing.py, the same loop three *)
(* times.  One step is one level, a single round of ANDs; an odd last bit  *)
(* is paired with the constant 1.                                          *)
(***************************************************************************)
EXTENDS Integers, Sequences

CONSTANT MaxWidth       \* bound: bits compared

ASSUME WidthAssumption == MaxWidth \in Nat \ {0}

VARIABLES
    a, c,       \* what is compared
    cur         \* the bits of the present level

tvars == <<a, c, cur>>

\* not_(xor(a, const)): 1 where the bits agree.
Agree == [i \in DOMAIN a |-> IF a[i] = c[i] THEN 1 ELSE 0]

TreeInit ==
    /\ \E n \in 1 .. MaxWidth : a \in [1 .. n -> {0, 1}] /\ c \in [1 .. n -> {0, 1}]
    /\ cur = Agree

\* Mutant of Pairs: the odd bit at the end is dropped.
PairsEven(s) == [i \in 1 .. Len(s) \div 2 |-> s[2 * i - 1] * s[2 * i]]

Pairs(s) == [i \in 1 .. (Len(s) + 1) \div 2 |->
                s[2 * i - 1] * (IF 2 * i <= Len(s) THEN s[2 * i] ELSE 1)]

TreeLevel ==
    /\ Len(cur) > 1
    /\ cur' = Pairs(cur)
    /\ UNCHANGED <<a, c>>

TreeSpec == TreeInit /\ [][TreeLevel]_tvars

-----------------------------------------------------------------------------
TreeTypeOK ==
    /\ \E n \in Nat \ {0} : a \in [1 .. n -> {0, 1}] /\ c \in [1 .. n -> {0, 1}]
    /\ \E n \in Nat \ {0} : cur \in [1 .. n -> {0, 1}]

\* Every level says the same of the comparison: all its bits are 1 exactly
\* when the two words are equal.  No width loses the last bit.
LevelsAgree == (\A i \in DOMAIN cur : cur[i] = 1) <=> a = c

\* What the loop returns is the equality of the two words.
EqualExact == Len(cur) = 1 => (cur[1] = 1 <=> a = c)

TreeInv == TreeTypeOK /\ LevelsAgree

=============================================================================
