------------------------------- MODULE Engine -------------------------------
(***************************************************************************)
(* The shares of the 2PC engine (trustedari/twopc.py) and the operations   *)
(* the circuits are built from.  Both parties run the same program, so one *)
(* action is one operation executed by both; that the interactive ones end *)
(* and exchange matching messages is the subject of OT and Pipeline.  The  *)
(* program is arbitrary: two registers, and any operation on them next.    *)
(*                                                                         *)
(* A shared object has a domain, the share v[p] of each party, and the     *)
(* annotation t[p] of each party, a set of at most one value: {} is None.  *)
(* x is history, the value the object is meant to have.  Bits are words of *)
(* W bits, lowest first; Num[w] is the number a word stands for.  A sum    *)
(* the adder computes is any sharing of it (Adder computes the sum), and a *)
(* pad derived from _split_ctr is any value both parties know.             *)
(***************************************************************************)
EXTENDS Integers, Sequences

CONSTANTS
    W, M,       \* bits of a word, and how many words there are
    Num,
    P, Inv,     \* the prime of the field, its inverses, with Inv[0] = 0
    Poly,       \* x^W modulo the polynomial of GF(2^W), as a word
    MaxDepth    \* bound: with-blocks inside each other

Party == {0, 1}
Reg == {1, 2}
Idx == 0 .. W - 1
Word == [Idx -> {0, 1}]
Zero == [i \in Idx |-> 0]
Xor(u, w) == [i \in Idx |-> (u[i] + w[i]) % 2]
And(u, w) == [i \in Idx |-> u[i] * w[i]]
Not(u) == [i \in Idx |-> 1 - u[i]]
WordOf(n) == CHOOSE w \in Word : Num[w] = n
Sum(u, w) == WordOf((Num[u] + Num[w]) % M)

ASSUME WordAssumption ==
    /\ W \in Nat \ {0} /\ M \in Nat \ {0}
    /\ Num \in [Word -> 0 .. M - 1]
    /\ \A n \in 0 .. M - 1 : \E w \in Word : Num[w] = n
    /\ \A u, w \in Word :
        /\ Num[u] = Num[w] => u = w
        /\ Num[Xor(u, w)] = Num[u] + Num[w] - 2 * Num[And(u, w)]

ASSUME FieldAssumption ==       \* p is prime, and at least half of M
    /\ P \in Nat /\ P < M /\ M <= 2 * P
    /\ Inv \in [0 .. P - 1 -> 0 .. P - 1] /\ Inv[0] = 0
    /\ \A n \in 1 .. P - 1 : (n * Inv[n]) % P = 1

ASSUME DepthAssumption == Poly \in Word /\ MaxDepth \in Nat

\* Products in GF(2^W): xtime is a shift and a conditional xor (_xtime8_local
\* and the v_next of gf128_mul, which has its bits in the other order).
Xtime(u) == LET s == [i \in Idx |-> IF i = 0 THEN 0 ELSE u[i - 1]]
            IN  IF u[W - 1] = 1 THEN Xor(s, Poly) ELSE s
Product == [u \in Word |-> [w \in Word |->
    LET pow[j \in Idx] == IF j = 0 THEN u ELSE Xtime(pow[j - 1])
        acc[j \in 0 .. W] == IF j = 0 THEN Zero
                             ELSE IF w[j - 1] = 1 THEN Xor(acc[j - 1], pow[j - 1])
                             ELSE acc[j - 1]
    IN  acc[W]]]
GMul(u, w) == Product[u][w]
One == [i \in Idx |-> IF i = 0 THEN 1 ELSE 0]

ASSUME GfAssumption ==          \* the polynomial is irreducible
    \A u \in Word \ {Zero} : \E w \in Word : GMul(u, w) = One

GInverse == [u \in Word |-> IF u = Zero THEN Zero
                           ELSE CHOOSE w \in Word : GMul(GMul(u, w), u) = u]

VARIABLES
    mode, stack,    \* the backend, and those the with-blocks return to
    reg,            \* the two objects
    fate,           \* "runs", "raised" or "mixed" (see Unannotated)
    alone           \* history: the mode has been "sim" all along

vars == <<mode, stack, reg, fate, alone>>

-----------------------------------------------------------------------------
(***************************************************************************)
(* Shares.                                                                 *)
(***************************************************************************)
Val(d) == CASE d = "bits" -> Word [] d = "arith" -> 0 .. M - 1
            [] d = "fld" -> 0 .. P - 1
Plus(d, u, w) == CASE d = "bits" -> Xor(u, w) [] d = "arith" -> (u + w) % M
                   [] d = "fld" -> (u + w) % P
Minus(d, u, w) == CASE d = "bits" -> Xor(u, w) [] d = "arith" -> (u - w) % M
                    [] d = "fld" -> (u - w) % P
None(d) == IF d = "bits" THEN Zero ELSE 0      \* "t or 0"

Obj(d, v, t, x) == [dom |-> d, v |-> v, t |-> t, x |-> x]

\* What open and open_to read: own share and the peer's.
Join(o) == Plus(o.dom, o.v[0], o.v[1])

Bare == [p \in Party |-> {}]
Marked(x) == [p \in Party |-> IF mode = "sim" THEN {x} ELSE {}]
Lift(f(_), o) == [p \in Party |-> {f(u) : u \in o.t[p]}]

Lift2(f(_, _), o, k) ==
    [p \in Party |-> {f(u, w) : u \in o.t[p], w \in k.t[p]}]
Lacks(o) == \E p \in Party : o.t[p] = {}

\* _split_int, and every other way to share a value anew: side 0 gets a pad.
Sharing(d, value, t, x) ==
    {Obj(d, [p \in Party |-> IF p = 0 THEN pad ELSE Minus(d, value, pad)], t, x)
        : pad \in Val(d)}

\* The value a simulated gate goes by: side 1 takes it from its annotation.
Noted(d, t) == IF t[1] = {} THEN None(d) ELSE CHOOSE u \in t[1] : TRUE

\* A circuit by what it computes: from the annotations in mode "sim", from
\* the shares in mode "ot", where the result has no annotation.
Circuit(d, f(_, _), o, k) ==
    LET t == Lift2(f, o, k)
    IN  IF mode = "sim" THEN Sharing(d, Noted(d, t), t, f(o.x, k.x))
                        ELSE Sharing(d, f(Join(o), Join(k)), Bare, f(o.x, k.x))

\* and_bits in mode "ot": r masks what a party sends, and what it receives is
\* the peer's mask and the product of its choice with the peer's share.
\* Mutant of AndOt: the received bit carries the party's own share.
AndOtOwn(o, k) ==
    {Obj("bits", [p \in Party |-> Xor(And(o.v[p], k.v[p]),
                    Xor(r[p], Xor(r[1 - p], And(o.v[p], k.v[p]))))],
         Bare, And(o.x, k.x)) : r \in [Party -> Word]}

AndOt(o, k) ==
    {Obj("bits", [p \in Party |-> Xor(And(o.v[p], k.v[p]),
                    Xor(r[p], Xor(r[1 - p], And(o.v[p], k.v[1 - p]))))],
         Bare, And(o.x, k.x)) : r \in [Party -> Word]}
AndOf(o, k) == IF mode = "sim" THEN Circuit("bits", And, o, k) ELSE AndOt(o, k)

XorOf(o, k) == Obj("bits", [p \in Party |-> Xor(o.v[p], k.v[p])],
                   Lift2(Xor, o, k), Xor(o.x, k.x))

\* Shifts, rotations, slices and repetitions pick bits by their place.
Pick(m, u) == [i \in Idx |-> IF m[i] \in Idx THEN u[m[i]] ELSE 0]
Shl(s) == [i \in Idx |-> i - s]
Shr(s) == [i \in Idx |-> i + s]
Rotl(s) == [i \in Idx |-> (i - s) % W]
Slice(lo, n) == [i \in Idx |-> IF i < n THEN lo + i ELSE W]
Rep(b) == [i \in Idx |-> b]
Places == {Shl(s) : s \in Idx} \cup {Shr(s) : s \in Idx}
          \cup {Rotl(s) : s \in Idx} \cup {Rep(b) : b \in Idx}
          \cup {Slice(lo, n) : lo \in Idx, n \in 1 .. W}

\* Mutant of PickOf: the annotation is left behind.
PickOfBare(m, o) == Obj("bits", [p \in Party |-> Pick(m, o.v[p])], Bare, Pick(m, o.x))

PickOf(m, o) == Obj("bits", [p \in Party |-> Pick(m, o.v[p])],
                    Lift(LAMBDA u : Pick(m, u), o), Pick(m, o.x))

Init ==
    /\ mode \in {"ot", "sim"} /\ stack = <<>>
    /\ reg = [i \in Reg |-> Obj("bits", [p \in Party |-> Zero], Marked(Zero), Zero)]
    /\ fate = "runs"
    /\ alone = (mode = "sim")

-----------------------------------------------------------------------------
(***************************************************************************)
(* Operations.  Gets is an operation that cannot fail; Needs one that      *)
(* asserts that its operands are annotated in mode "sim"; Trusts one that  *)
(* computes from the annotations and does not assert that they are there.  *)
(***************************************************************************)
On(i, d) == fate = "runs" /\ reg[i].dom = d
Unannotated(o, k) == mode = "sim" /\ (Lacks(o) \/ Lacks(k))

Becomes(i, o) == reg' = [reg EXCEPT ![i] = o] /\ UNCHANGED <<mode, stack, alone>>
Gets(i, o) == Becomes(i, o) /\ UNCHANGED fate
Needs(i, o, k, results) ==
    IF Unannotated(o, k)
      THEN fate' = "raised" /\ UNCHANGED <<mode, stack, reg, alone>>
      ELSE \E z \in results : Gets(i, z)
Trusts(i, o, k, results) ==
    /\ \E z \in results : Becomes(i, z)
    /\ fate' = IF Unannotated(o, k) THEN "mixed" ELSE fate

\* share_bits, share_arith, share_field: the owner keeps the difference to
\* a random pad, in mode "sim" always side 1.
ShareOf(d) ==
    {Obj(d, [p \in Party |-> IF p = held THEN Minus(d, x, r) ELSE r], Marked(x), x)
        : held \in IF mode = "sim" THEN {1} ELSE Party, x \in Val(d), r \in Val(d)}
ConstOf(d) ==
    {Obj(d, [p \in Party |-> IF p = 0 THEN x ELSE None(d)], Marked(x), x)
        : x \in IF d = "fld" THEN {} ELSE Val(d)}
RandOf(d) ==
    {Obj(d, v, Marked(Plus(d, v[0], v[1])), Plus(d, v[0], v[1]))
        : v \in [Party -> Val(d)]}
Make(i, d) ==
    /\ fate = "runs"
    /\ \E z \in ShareOf(d) \cup ConstOf(d) \cup RandOf(d) : Gets(i, z)

\* xor, _arith_add, fadd; then _arith_sub, fsub.
Add(i, j) ==
    /\ On(i, reg[j].dom)
    /\ LET f(u, w) == Plus(reg[i].dom, u, w)
       IN  Gets(i, Obj(reg[i].dom, [p \in Party |-> f(reg[i].v[p], reg[j].v[p])],
                       Lift2(f, reg[i], reg[j]), f(reg[i].x, reg[j].x)))

Sub(i, j) ==
    /\ On(i, reg[j].dom) /\ reg[i].dom # "bits"
    /\ LET f(u, w) == Minus(reg[i].dom, u, w)
       IN  Gets(i, Obj(reg[i].dom, [p \in Party |-> f(reg[i].v[p], reg[j].v[p])],
                       Lift2(f, reg[i], reg[j]), f(reg[i].x, reg[j].x)))

\* Mutant of NotBits: the annotation keeps the old value.
NotBitsStale(i) ==
    /\ On(i, "bits")
    /\ Gets(i, [reg[i] EXCEPT !.v[0] = Not(@), !.x = Not(@)])

NotBits(i) ==
    /\ On(i, "bits")
    /\ Gets(i, [reg[i] EXCEPT !.v[0] = Not(@), !.t = Lift(Not, reg[i]),
                              !.x = Not(@)])

Place(i) ==
    On(i, "bits") /\ \E z \in {PickOf(m, reg[i]) : m \in Places} : Gets(i, z)

Concat(i, j) ==
    /\ On(i, "bits") /\ On(j, "bits")
    /\ \E n \in 1 .. W - 1 :
         LET f(hi, lo) == [b \in Idx |-> IF b < n THEN lo[b] ELSE hi[b - n]]
         IN  Gets(i, Obj("bits", [p \in Party |-> f(reg[i].v[p], reg[j].v[p])],
                         Lift2(f, reg[i], reg[j]), f(reg[i].x, reg[j].x)))

AndBits(i, j) ==
    /\ On(i, "bits") /\ On(j, "bits")
    /\ Needs(i, reg[i], reg[j], AndOf(reg[i], reg[j]))

\* and_pairs over the pairs (a, b) and (b, b): _pack notes a piece that has
\* no annotation as 0 if another piece has one.
Filled(o) == [o EXCEPT !.t = [p \in Party |-> {Noted("bits", o.t)}]]
AndPairs ==
    /\ On(1, "bits") /\ On(2, "bits")
    /\ IF mode = "sim" /\ Lacks(reg[2])
         THEN fate' = "raised" /\ UNCHANGED <<mode, stack, reg, alone>>
         ELSE LET a == IF mode = "sim" THEN Filled(reg[1]) ELSE reg[1]
              IN  /\ \E y \in AndOf(a, reg[2]), z \in AndOf(reg[2], reg[2]) :
                       reg' = [reg EXCEPT ![1] = y, ![2] = z]
                  /\ fate' = IF Unannotated(reg[1], reg[1]) THEN "mixed" ELSE fate
                  /\ UNCHANGED <<mode, stack, alone>>

\* mux and one level of blind_rotate_left: bit b of reg[i] chooses.
Mux(i, j) ==
    /\ On(i, "bits") /\ On(j, "bits")
    /\ \E b \in Idx :
         LET sel == PickOf(Rep(b), reg[i])
             d   == XorOf(reg[i], reg[j])
         IN  Needs(i, sel, d, {XorOf(reg[i], z) : z \in AndOf(sel, d)})

\* add, over and_pairs of two operands: an operand is there or raises.
AddBits(i, j) ==
    /\ On(i, "bits") /\ On(j, "bits")
    /\ Needs(i, reg[i], reg[j], Circuit("bits", Sum, reg[i], reg[j]))

A2B(i) ==
    /\ On(i, "arith")
    /\ LET f(u, w) == WordOf(u)
       IN  Needs(i, reg[i], reg[i], Circuit("bits", f, reg[i], reg[i]))

\* x0 ^ x1 = x0 + x1 - 2 (x0 & x1): a party receives the peer's masks and
\* the bits both have, with their weights.
B2AOt(o) ==
    {Obj("arith", [p \in Party |->
            (Num[o.v[p]] - (s[1 - p] + Num[And(o.v[p], o.v[1 - p])] - s[p])) % M],
         Bare, Num[o.x]) : s \in [Party -> 0 .. M - 1]}

B2A(i) ==
    /\ On(i, "bits")
    /\ LET o == reg[i]
           t == Lift(LAMBDA u : Num[u], o)
       IN  Trusts(i, o, o, IF mode = "sim"
                             THEN Sharing("arith", Noted("arith", t), t, Num[o.x])
                             ELSE B2AOt(o))

FMulOt(o, k) ==
    {Obj("fld", [p \in Party |->
            (o.v[p] * k.v[p] + (o.v[p] * k.v[1 - p] + s[1 - p]) - s[p]) % P],
         Bare, (o.x * k.x) % P) : s \in [Party -> 0 .. P - 1]}

FMul(i, j) ==
    /\ On(i, "fld") /\ On(j, "fld")
    /\ LET f(u, w) == (u * w) % P
       IN  Trusts(i, reg[i], reg[j], IF mode = "sim"
                                       THEN Circuit("fld", f, reg[i], reg[j])
                                       ELSE FMulOt(reg[i], reg[j]))

FMulPub(i) ==
    /\ On(i, "fld")
    /\ \E c \in 0 .. P - 1 :
         LET f(u) == (u * c) % P
         IN  Gets(i, Obj("fld", [p \in Party |-> f(reg[i].v[p])],
                         Lift(f, reg[i]), f(reg[i].x)))

\* finv opens the product with a joint random r, which is not 0 but with a
\* probability of 2^-256.
FInv(i) ==
    /\ On(i, "fld")
    /\ LET o  == reg[i]
           T(n) == ((IF mode = "sim" THEN Noted("fld", o.t) ELSE Join(o)) * n) % P
       IN  Trusts(i, o, o,
             {Obj("fld", [p \in Party |-> (r[p] * Inv[T((r[0] + r[1]) % P)]) % P],
                  Lift(LAMBDA u : Inv[u], o), Inv[o.x])
                : r \in {s \in [Party -> 0 .. P - 1] : (s[0] + s[1]) % P # 0}})

\* gf8_mul, gf128_mul: the rows b[j] * x^j a in one round of ANDs.
GfMul(i, j) ==
    /\ On(i, "bits") /\ On(j, "bits")
    /\ Needs(i, reg[i], reg[j], Circuit("bits", GMul, reg[i], reg[j]))

\* The inversion in aes_sbox: the first mask whose product opens to non-zero,
\* or the last of eight, which are all 0 with a probability of 2^-64.
GfInv(i) ==
    /\ On(i, "bits")
    /\ LET o == reg[i]
           u(n) == GInverse[GMul(Join(o), n)]
       IN  Needs(i, o, o,
             {Obj("bits", [p \in Party |-> GMul(r[p], u(Xor(r[0], r[1])))],
                  Marked(GMul(Xor(r[0], r[1]), u(Xor(r[0], r[1])))), GInverse[o.x])
                : r \in {s \in [Party -> Word] :
                            o.x # Zero => Xor(s[0], s[1]) # Zero}})

\* fld_to_bits: the sum of the shares with a carry, less p when it is p or
\* more.
Reduced(s, k) ==
    LET low == (s + k) % M
        ge  == (low + M - P) \div M
        sel == ((s + k) \div M + ge) % 2
    IN  IF sel = 1 THEN (low + M - P) % M ELSE low

FldToBits(i) ==
    /\ On(i, "fld")
    /\ LET o    == reg[i]
           peer == IF mode = "sim" THEN (Noted("fld", o.t) - o.v[0]) % P ELSE o.v[1]
           out  == WordOf(Reduced(o.v[0], peer))
       IN  Trusts(i, o, o, IF Unannotated(o, o)
                 THEN {Obj("bits", v, Bare, WordOf(o.x)) : v \in [Party -> Word]}
                 ELSE Sharing("bits", out, Marked(out), WordOf(o.x)))

\* with pc.use(m): the mode is pushed, and popped at the end of the block.
\* Bound: blocks that do not change the mode are left out.
Use ==
    /\ fate = "runs"
    /\ Len(stack) < MaxDepth
    /\ mode' \in {"ot", "sim"} \ {mode}
    /\ stack' = Append(stack, mode)
    /\ alone' = (alone /\ mode' = "sim")
    /\ UNCHANGED <<reg, fate>>

Exit ==
    /\ fate = "runs"
    /\ stack # <<>>
    /\ mode' = stack[Len(stack)]
    /\ stack' = SubSeq(stack, 1, Len(stack) - 1)
    /\ alone' = (alone /\ mode' = "sim")
    /\ UNCHANGED <<reg, fate>>

Unary(i) ==
    \/ \E d \in {"bits", "arith", "fld"} : Make(i, d)
    \/ NotBits(i) \/ Place(i) \/ A2B(i) \/ B2A(i)
    \/ FMulPub(i) \/ FInv(i) \/ GfInv(i) \/ FldToBits(i)
Binary(i, j) ==
    \/ Add(i, j) \/ Sub(i, j) \/ Concat(i, j) \/ AndBits(i, j) \/ Mux(i, j)
    \/ AddBits(i, j) \/ FMul(i, j) \/ GfMul(i, j)

Next ==
    \/ \E i \in Reg : Unary(i) \/ \E j \in Reg : Binary(i, j)
    \/ AndPairs \/ Use \/ Exit

Spec == Init /\ [][Next]_vars

-----------------------------------------------------------------------------
(***************************************************************************)
(* Correctness.                                                            *)
(***************************************************************************)
\* Whatever program the parties run, and however often it changes between
\* the two backends, the shares of an object join to the value the object is
\* meant to have, as long as no operation that computes from annotations has
\* been given an object without one (b2a, fmul, finv, fld_to_bits, _pack).
Rejoins ==
    fate # "mixed" => \A i \in Reg : Join(reg[i]) = reg[i].x

\* The annotations of the two parties are one value, and it is the value the
\* shares join to; also those that were kept across operations in mode "ot".
Annotated ==
    fate # "mixed" =>
        \A i \in Reg : /\ reg[i].t[0] = reg[i].t[1]
                       /\ reg[i].t[0] \subseteq {reg[i].x}

\* A program that stays in mode "sim" never meets an object without an
\* annotation: no operation loses it, and no assertion fails.
SimAlone == alone => fate = "runs" /\ \A i \in Reg : ~ Lacks(reg[i])

=============================================================================
