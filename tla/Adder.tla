------------------------------- MODULE Adder --------------------------------
(***************************************************************************)
(* The Kogge-Stone adder PC.add of trustedari/twopc.py, one round of ANDs  *)
(* per step.  g[i] says that the bits up to i that have been looked at     *)
(* generate a carry, p[i] that they propagate one.  The values are those   *)
(* the shares join to.                                                     *)
(***************************************************************************)
EXTENDS Integers

CONSTANT N      \* width of the operands

ASSUME AdderAssumption == N \in Nat \ {0}

Bit == {0, 1}
Pos == 0 .. N - 1
Number == [Pos -> Bit]

VARIABLES
    x, y,       \* the operands
    g, p,
    l           \* the distance of the next round

avars == <<x, y, g, p, l>>

Xor2(u, w) == IF u = w THEN 0 ELSE 1
Gen(i) == x[i] = 1 /\ y[i] = 1
Prop(i) == x[i] # y[i]

\* shl_bits: what is l places below, and zeros from under place 0.
Below(u, i) == IF i >= l THEN u[i - l] ELSE 0

AdderInit ==
    /\ x \in Number /\ y \in Number
    /\ g = [i \in Pos |-> x[i] * y[i]]
    /\ p = [i \in Pos |-> Xor2(x[i], y[i])]
    /\ l = 1

\* Mutant of AdderRound: the distance grows too fast.
AdderRoundTripled ==
    /\ l < N
    /\ g' = [i \in Pos |-> Xor2(g[i], p[i] * Below(g, i))]
    /\ p' = [i \in Pos |-> p[i] * Below(p, i)]
    /\ l' = 3 * l
    /\ UNCHANGED <<x, y>>

AdderRound ==
    /\ l < N
    /\ g' = [i \in Pos |-> Xor2(g[i], p[i] * Below(g, i))]
    /\ p' = [i \in Pos |-> p[i] * Below(p, i)]
    /\ l' = 2 * l
    /\ UNCHANGED <<x, y>>

AdderSpec == AdderInit /\ [][AdderRound]_avars

\* What add returns after the last round: the carry into each place is the
\* one generated below it.
Carried(i) == IF i = 0 THEN 0 ELSE g[i - 1]
Added == [i \in Pos |-> Xor2(Xor2(x[i], y[i]), Carried(i))]

-----------------------------------------------------------------------------
(***************************************************************************)
(* Correctness.                                                            *)
(***************************************************************************)
AdderTypeOK ==
    /\ x \in Number /\ y \in Number
    /\ g \in Number /\ p \in Number
    /\ l \in Nat \ {0}

\* After a round the l places up to i have been looked at: g[i] is 1 when one
\* of them generates a carry that all above it propagate, and p[i] when there
\* are l of them and all propagate.
Generates(i, n) ==
    \E j \in Pos : /\ i - n < j /\ j <= i /\ Gen(j)
                   /\ \A k \in Pos : j < k /\ k <= i => Prop(k)
Propagates(i, n) ==
    i >= n - 1 /\ \A k \in Pos : i - n < k /\ k <= i => Prop(k)

PrefixesRight ==
    \A i \in Pos : /\ g[i] = 1 <=> Generates(i, l)
                   /\ p[i] = 1 <=> Propagates(i, l)

AdderInv == AdderTypeOK /\ PrefixesRight

\* Written addition: a carry leaves a place when two of its digits and the
\* carry into it are 1.  The rounds, whose number is the logarithm of the
\* width, leave exactly these carries, whatever the width.
WrittenSum ==
    l >= N =>
        \A i \in Pos : i + 1 \in Pos =>
            (Carried(i + 1) = 1 <=> \/ Gen(i)
                                    \/ Prop(i) /\ Carried(i) = 1)

=============================================================================
