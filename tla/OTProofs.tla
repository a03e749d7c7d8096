------------------------------ MODULE OTProofs -------------------------------
(***************************************************************************)
(* The secure AND of the 2PC engine, for every group order, every number   *)
(* of base transfers and every number of bits: the two sides never         *)
(* disagree on which message comes next, of two payloads the receiver      *)
(* opens the one it chose and no other, and the output shares join to the  *)
(* AND of what the input shares join to.                                   *)
(***************************************************************************)
EXTENDS OT, SequenceTheorems, TLAPS

(***************************************************************************)
(* Sequences of anything.                                                  *)
(***************************************************************************)
IsSeq(u) == Len(u) \in Nat /\ u = [n \in 1 .. Len(u) |-> u[n]]

LEMMA AnySeq ==
    ASSUME NEW u, IsSeq(u), NEW S, \A n \in 1 .. Len(u) : u[n] \in S
    PROVE  u \in Seq(S)
<1>1. u \in [1 .. Len(u) -> S] /\ Len(u) \in Nat
  BY DEF IsSeq
<1> QED
  BY <1>1, SeqDef

LEMMA SeqAny ==
    ASSUME NEW S, NEW u \in Seq(S)
    PROVE  IsSeq(u)
BY LenProperties DEF IsSeq

LEMMA TwoSeqs ==
    ASSUME NEW u, IsSeq(u), NEW v, IsSeq(v)
    PROVE  \E S : u \in Seq(S) /\ v \in Seq(S)
<1> DEFINE S == {u[n] : n \in 1 .. Len(u)} \cup {v[n] : n \in 1 .. Len(v)}
<1>1. \A n \in 1 .. Len(u) : u[n] \in S
  OBVIOUS
<1>2. \A n \in 1 .. Len(v) : v[n] \in S
  OBVIOUS
<1> HIDE DEF S
<1> QED
  BY <1>1, <1>2, AnySeq

LEMMA JoinAny ==
    ASSUME NEW u, IsSeq(u), NEW v, IsSeq(v)
    PROVE  /\ IsSeq(u \o v) /\ Len(u \o v) = Len(u) + Len(v)
           /\ \A n \in 1 .. Len(u) : (u \o v)[n] = u[n]
           /\ \A n \in 1 .. Len(v) : (u \o v)[Len(u) + n] = v[n]
<1>1. PICK S : u \in Seq(S) /\ v \in Seq(S)
  BY TwoSeqs
<1>2. /\ u \o v \in Seq(S) /\ Len(u \o v) = Len(u) + Len(v)
      /\ \A i \in 1 .. Len(u) + Len(v) :
             (u \o v)[i] = IF i <= Len(u) THEN u[i] ELSE v[i - Len(u)]
  BY <1>1, ConcatProperties
<1>3. Len(u) \in Nat /\ Len(v) \in Nat
  BY DEF IsSeq
<1>4. IsSeq(u \o v)
  BY <1>2, SeqAny
<1>5. \A n \in 1 .. Len(u) : (u \o v)[n] = u[n]
  BY <1>2, <1>3
<1>6. ASSUME NEW n \in 1 .. Len(v) PROVE (u \o v)[Len(u) + n] = v[n]
  <2> DEFINE i == Len(u) + n
  <2>1. i \in 1 .. Len(u) + Len(v) /\ ~ (i <= Len(u)) /\ i - Len(u) = n
    BY <1>3
  <2> HIDE DEF i
  <2>2. (u \o v)[i] = v[n]
    BY <1>2, <2>1
  <2> QED
    BY <2>2 DEF i
<1> QED
  BY <1>2, <1>4, <1>5, <1>6

LEMMA NothingAny == IsSeq(<<>>) /\ Len(<<>>) = 0
BY DEF IsSeq

LEMMA JoinNothing ==
    ASSUME NEW u, IsSeq(u)
    PROVE  u \o <<>> = u /\ <<>> \o u = u
<1>1. \A n \in 1 .. Len(u) : u[n] \in {u[m] : m \in 1 .. Len(u)}
  OBVIOUS
<1>2. \E S : u \in Seq(S)
  BY <1>1, AnySeq
<1> QED
  BY <1>2, ConcatEmptySeq

LEMMA OneAny ==
    ASSUME NEW e
    PROVE  /\ IsSeq(<<e>>) /\ Len(<<e>>) = 1 /\ <<e>>[1] = e
           /\ Head(<<e>>) = e /\ Tail(<<e>>) = <<>> /\ <<e>> # <<>>
BY DEF IsSeq

LEMMA TailAny ==
    ASSUME NEW u, IsSeq(u), u # <<>>
    PROVE  /\ Len(u) \in Nat \ {0} /\ Head(u) = u[1]
           /\ IsSeq(Tail(u)) /\ Len(Tail(u)) = Len(u) - 1
           /\ \A n \in 1 .. Len(Tail(u)) : Tail(u)[n] = u[n + 1]
<1>1. \A n \in 1 .. Len(u) : u[n] \in {u[m] : m \in 1 .. Len(u)}
  OBVIOUS
<1>2. PICK S : u \in Seq(S)
  BY <1>1, AnySeq
<1>3. /\ Tail(u) \in Seq(S) /\ Len(Tail(u)) = Len(u) - 1
      /\ \A i \in 1 .. Len(Tail(u)) : Tail(u)[i] = u[i + 1]
  BY <1>2, HeadTailProperties
<1>4. Len(u) \in Nat \ {0}
  BY <1>2, EmptySeq
<1>5. Head(u) = u[1]
  BY <1>2
<1>6. IsSeq(Tail(u))
  BY <1>3, SeqAny
<1> QED
  BY <1>3, <1>4, <1>5, <1>6

LEMMA EmptyAny ==
    ASSUME NEW u, IsSeq(u)
    PROVE  u = <<>> <=> Len(u) = 0
BY TailAny, NothingAny

LEMMA AppendAny ==
    ASSUME NEW u, IsSeq(u), NEW e
    PROVE  /\ IsSeq(Append(u, e)) /\ Len(Append(u, e)) = Len(u) + 1
           /\ \A n \in 1 .. Len(u) : Append(u, e)[n] = u[n]
           /\ Append(u, e)[Len(u) + 1] = e
<1>1. PICK S : u \in Seq(S) /\ <<e>> \in Seq(S)
  BY OneAny, TwoSeqs
<1>2. e \in S
  BY <1>1, OneAny, ElementOfSeq
<1>3. Append(u, e) \in Seq(S)
  BY <1>1, <1>2
<1>4. /\ Len(Append(u, e)) = Len(u) + 1
      /\ \A n \in 1 .. Len(u) : Append(u, e)[n] = u[n]
      /\ Append(u, e)[Len(u) + 1] = e
  BY <1>1, <1>2, AppendProperties
<1> QED
  BY <1>3, <1>4, SeqAny

-----------------------------------------------------------------------------
(***************************************************************************)
(* The invariant.  Up to the first AND the two sides are in one of the     *)
(* stages of the base phase; from then on each queue holds a slice of the  *)
(* stream that its sender's ANDs make.                                     *)
(***************************************************************************)
OpFields == {"a", "b", "r", "U", "e0"}
Shaped ==
    /\ DOMAIN pc = Side /\ DOMAIN idx = Side /\ DOMAIN q = Side
    /\ DOMAIN base = Side /\ DOMAIN co = Side /\ DOMAIN op = Side
    /\ DOMAIN last = Side /\ ands \in [Side -> Nat]
BaseTyped(s) ==
    /\ {"s", "kc"} \subseteq DOMAIN base[s]
    /\ base[s].s \in [Col -> Bit]
    /\ base[s].kc = [n \in Col |-> base[s].kc[n]]
OpTyped(s) ==
    /\ OpFields \subseteq DOMAIN op[s] /\ IsSeq(op[s].U)
    /\ op[s].a \in Word /\ op[s].b \in Word /\ op[s].r \in Word
LastTyped(s) ==
    last[s].a \in Word /\ last[s].b \in Word /\ last[s].z \in Word
Typed ==
    /\ Shaped
    /\ \A s \in Side :
        /\ IsSeq(q[s]) /\ BaseTyped(s) /\ OpTyped(s) /\ LastTyped(s)
        /\ {"k", "S"} \subseteq DOMAIN co[s]

SeededTo(s, n) ==
    \A m \in Col : base[s].kc[m] =
        IF m < n THEN Seed(Peer(s), m, base[s].s[m]) ELSE NoSeed
Unseeded(s) == SeededTo(s, 1)
Seeded(s) == SeededTo(s, ELL + 1)

Silent(s) == q[s] = <<>>
Fresh == \A s \in Side : ands[s] = 0 /\ op[s].U = <<>>

(***************************************************************************)
(* One half of the base phase: side p sends, side c receives.              *)
(***************************************************************************)
Secret(p) == co[p].k \in Scalar /\ co[p].S = co[p].k
Point(c, n) ==
    IF base[c].s[n] = 1 THEN (co[c].k + co[c].S) % Q ELSE co[c].k

AtS(c, p) ==
    /\ pc[p] = "co.R" /\ idx[p] = 1
    /\ q[p] = <<Msg("co.S", 0, co[p].S)>> /\ Silent(c)
    /\ Secret(p) /\ Unseeded(c)

AtR(c, p) ==
    /\ pc[p] = "co.R" /\ pc[c] = "co.e"
    /\ idx[p] = idx[c] /\ idx[c] \in Col
    /\ q[c] = <<Msg("co.R", idx[c], Point(c, idx[c]))>> /\ Silent(p)
    /\ Secret(p) /\ co[c].S = co[p].S /\ co[c].k \in Scalar
    /\ SeededTo(c, idx[c])

\* The answer that c can open.
Answers(c, p, e) ==
    /\ e.tag = "co.e" /\ e.i = idx[c]
    /\ e.val[base[c].s[idx[c]] + 1]
         = Sealed(Seed(p, idx[c], base[c].s[idx[c]]), CoKey(c))

\* What p does and has sent when its sending half is over.
Handed(p) == IF p = 1 THEN pc[1] = "co.S" /\ idx[1] = 0
                      ELSE pc[0] = "u" /\ idx[0] = 1
More(p) == IF p = 1 THEN <<>> ELSE Columns(0, op[0].a)

AtE(c, p) ==
    /\ pc[c] = "co.e" /\ idx[c] \in Col /\ Silent(c)
    /\ SeededTo(c, idx[c])
    /\ \E e :
        /\ Answers(c, p, e)
        /\ IF idx[c] < ELL
             THEN /\ pc[p] = "co.R" /\ idx[p] = idx[c] + 1
                  /\ Secret(p) /\ co[c].S = co[p].S
                  /\ q[p] = <<e>>
             ELSE Handed(p) /\ q[p] = <<e>> \o More(p)

Start ==
    /\ Fresh /\ Unseeded(0) /\ Unseeded(1) /\ Silent(0) /\ Silent(1)
    /\ \/ pc[0] = "idle"
       \/ pc[0] = "co.S" /\ idx[0] = 0
    /\ pc[1] \in {"idle", "sendS"}

FirstHalf ==
    /\ Fresh /\ Unseeded(1)
    /\ \/ /\ AtS(0, 1)
          /\ \/ pc[0] = "idle"
             \/ pc[0] = "co.S" /\ idx[0] = 0
       \/ AtR(0, 1)
       \/ AtE(0, 1)

Middle ==
    /\ Fresh /\ Seeded(0) /\ Unseeded(1) /\ Silent(0) /\ Silent(1)
    /\ pc[0] = "sendS" /\ pc[1] = "co.S" /\ idx[1] = 0

SecondHalf ==
    /\ Fresh /\ Seeded(0)
    /\ \/ AtS(1, 0) /\ pc[1] = "co.S" /\ idx[1] = 0
       \/ AtR(1, 0)
       \/ AtE(1, 0)

(***************************************************************************)
(* The rounds.  Each AND of a side sends ELL columns and two payloads, and *)
(* receives as many; a side is at most one AND ahead of the other.         *)
(***************************************************************************)
All == ELL + 2
Rcvd(s) == CASE pc[s] = "u" -> idx[s] - 1
             [] pc[s] = "e0" -> ELL
             [] pc[s] = "e1" -> ELL + 1
             [] OTHER -> 0
Put(s) == CASE pc[s] = "u" -> ELL
            [] pc[s] \in {"e0", "e1"} -> All
            [] OTHER -> 0
Ahead(s) == ands[s] > ands[Peer(s)]
Lead(s) == IF Ahead(s) THEN All ELSE 0

\* The masks and the share that a side's payloads carry, recovered from the
\* output of its AND when that one is already over.
MaskOf(s, j) ==
    IF Ahead(s)
      THEN Xor(last[s].z[j],
               Xor(last[s].a[j] * last[s].b[j],
                   Xor(op[Peer(s)].r[j], last[s].a[j] * op[Peer(s)].b[j])))
      ELSE op[s].r[j]
ShareOf(s, j) == IF Ahead(s) THEN last[s].b[j] ELSE op[s].b[j]

\* The row that seals them, as the receiver would write it.
RowFor(s, j, bit) ==
    [n \in Col |-> Sum(TRow(Peer(s), j)[n],
                       Times(base[s].s[n] * bit, {Const}))]
Row0(s, j) == RowFor(s, j, op[Peer(s)].a[j])
Row1(s, j) == RowFor(s, j, 1 - op[Peer(s)].a[j])
Pay0(s) == [j \in Row |-> Sealed(MaskOf(s, j), <<Row0(s, j), j>>)]
Pay1(s) == [j \in Row |-> Sealed(Xor(MaskOf(s, j), ShareOf(s, j)),
                                 <<Row1(s, j), j>>)]

Stream(s, n) ==
    CASE n = ELL + 1 -> Msg("e0", 0, Pay0(s))
      [] n = ELL + 2 -> Msg("e1", 0, Pay1(s))
      [] OTHER -> Msg("u", n - Lead(s), Column(s, n - Lead(s), op[s].a))

Flow(s, p) ==
    /\ Len(q[s]) = (Put(s) + Lead(s)) - (Rcvd(p) + Lead(p))
    /\ \A n \in 1 .. Len(q[s]) : q[s][n] = Stream(s, Rcvd(p) + Lead(p) + n)

Local(s, p) ==
    /\ \/ pc[s] = "idle"
       \/ pc[s] = "u" /\ idx[s] \in Col
       \/ pc[s] \in {"e0", "e1"} /\ idx[s] = 0
    /\ pc[s] = "u" =>
         /\ Len(op[s].U) = idx[s] - 1
         /\ \A n \in 1 .. idx[s] - 1 :
                op[s].U[n] = Column(p, n, op[p].a)
    /\ pc[s] = "e1" => op[s].e0 = Pay0(p)
    /\ ands[s] <= ands[p] + 1

Rounds ==
    /\ Seeded(0) /\ Seeded(1)
    /\ Flow(0, 1) /\ Flow(1, 0) /\ Local(0, 1) /\ Local(1, 0)

OTInv == Typed /\ AndCorrect
         /\ (Start \/ FirstHalf \/ Middle \/ SecondHalf \/ Rounds)

-----------------------------------------------------------------------------
(***************************************************************************)
(* The two sides, bits and sums.                                           *)
(***************************************************************************)
LEMMA Sides ==
    ASSUME NEW s \in Side
    PROVE  /\ Peer(s) \in Side /\ Peer(s) # s /\ Peer(Peer(s)) = s
           /\ \A r \in Side : r = s \/ r = Peer(s)
           /\ Peer(0) = 1 /\ Peer(1) = 0 /\ 0 \in Side /\ 1 \in Side
BY DEF Side, Peer

LEMMA XorTable ==
    /\ Xor(0, 0) = 0 /\ Xor(0, 1) = 1 /\ Xor(1, 0) = 1 /\ Xor(1, 1) = 0
    /\ \A m, n \in Bit : Xor(m, n) \in Bit /\ m * n \in Bit
BY DEF Xor, Bit

LEMMA TimesTable ==
    /\ 0 * 0 = 0 /\ 0 * 1 = 0 /\ 1 * 0 = 0 /\ 1 * 1 = 1
    /\ \A m, n \in Bit : m * n \in Bit
BY DEF Bit

\* The masks of a finished AND, recovered from its output.
LEMMA MaskBack ==
    ASSUME NEW a \in Bit, NEW b \in Bit, NEW r \in Bit, NEW x \in Bit,
           NEW y \in Bit
    PROVE  Xor(Xor(a * b, Xor(r, Xor(x, a * y))), Xor(a * b, Xor(x, a * y)))
             = r
<1>1. a \in {0, 1} /\ b \in {0, 1} /\ r \in {0, 1} /\ x \in {0, 1}
      /\ y \in {0, 1}
  BY DEF Bit
<1> QED
  BY <1>1, XorTable, TimesTable

\* Addition modulo 2 as the group it is.
LEMMA XorGroup ==
    ASSUME NEW m \in Bit, NEW n \in Bit, NEW l \in Bit
    PROVE  /\ Xor(m, n) \in Bit /\ Xor(m, n) = Xor(n, m)
           /\ Xor(Xor(m, n), l) = Xor(m, Xor(n, l))
           /\ Xor(m, Xor(n, l)) = Xor(n, Xor(m, l))
           /\ Xor(m, Xor(m, n)) = n
<1>1. m \in {0, 1} /\ n \in {0, 1} /\ l \in {0, 1}
  BY DEF Bit
<1>2. CASE m = 0
  BY <1>1, <1>2, XorTable
<1>3. CASE m = 1
  BY <1>1, <1>3, XorTable
<1> QED
  BY <1>1, <1>2, <1>3

\* The product of two shared bits is the sum of the four partial products.
LEMMA FourProducts ==
    ASSUME NEW a \in Bit, NEW b \in Bit, NEW x \in Bit, NEW y \in Bit
    PROVE  Xor(a * b, Xor(Xor(x * y, x * b), a * y)) = Xor(a, x) * Xor(b, y)
<1>1. a \in {0, 1} /\ b \in {0, 1} /\ x \in {0, 1} /\ y \in {0, 1}
  BY DEF Bit
<1>2. CASE a = 0 /\ x = 0
  BY <1>1, <1>2, XorTable, TimesTable
<1>3. CASE a = 0 /\ x = 1
  BY <1>1, <1>3, XorTable, TimesTable
<1>4. CASE a = 1 /\ x = 0
  BY <1>1, <1>4, XorTable, TimesTable
<1>5. CASE a = 1 /\ x = 1
  BY <1>1, <1>5, XorTable, TimesTable
<1> QED
  BY <1>1, <1>2, <1>3, <1>4, <1>5

\* Both outputs, the second one made with the masks recovered: the two masks
\* r and z cancel.
LEMMA SharesJoin ==
    ASSUME NEW a \in Bit, NEW b \in Bit, NEW r \in Bit, NEW x \in Bit,
           NEW y \in Bit, NEW z \in Bit
    PROVE  Xor(Xor(a * b,
                   Xor(r, Xor(Xor(z, Xor(x * y, Xor(r, x * b))), a * y))), z)
             = Xor(a, x) * Xor(b, y)
<1>1. PICK p \in Bit : p = a * b
  BY TimesTable
<1>2. PICK g \in Bit : g = a * y
  BY TimesTable
<1>3. PICK s \in Bit : s = x * b
  BY TimesTable
<1>4. PICK t \in Bit : t = x * y
  BY TimesTable
<1>5. PICK u \in Bit : u = Xor(t, s)
  BY XorGroup
<1>6. PICK v \in Bit : v = Xor(z, u)
  BY XorGroup
<1>7. PICK w \in Bit : w = Xor(u, g)
  BY XorGroup
<1>8. PICK e \in Bit : e = Xor(p, w)
  BY XorGroup
<1>9. Xor(z, Xor(t, Xor(r, s))) = Xor(r, v)
  <2>1. Xor(t, Xor(r, s)) = Xor(r, u)
    BY <1>5, XorGroup
  <2> QED
    BY <2>1, <1>6, XorGroup
<1>10. Xor(r, Xor(Xor(r, v), g)) = Xor(v, g)
  <2>1. Xor(Xor(r, v), g) = Xor(r, Xor(v, g)) /\ Xor(v, g) \in Bit
    BY XorGroup
  <2> QED
    BY <2>1, XorGroup
<1>11. Xor(v, g) = Xor(z, w)
  BY <1>6, <1>7, XorGroup
<1>12. Xor(p, Xor(z, w)) = Xor(z, e)
  BY <1>8, XorGroup
<1>13. Xor(Xor(z, e), z) = e
  <2>1. Xor(Xor(z, e), z) = Xor(z, Xor(z, e))
    BY XorGroup
  <2> QED
    BY <2>1, XorGroup
<1>14. e = Xor(a, x) * Xor(b, y)
  BY <1>1, <1>2, <1>3, <1>4, <1>5, <1>7, <1>8, FourProducts
<1> QED
  BY <1>1, <1>2, <1>3, <1>4, <1>9, <1>10, <1>11, <1>12, <1>13, <1>14

LEMMA SumTwice ==
    ASSUME NEW u, NEW v, NEW w
    PROVE  Sum(u, Sum(Sum(v, u), w)) = Sum(v, w)
BY DEF Sum

LEMMA SumEmpty ==
    ASSUME NEW u
    PROVE  Sum(u, {}) = u
BY DEF Sum

LEMMA SumDiffers ==
    ASSUME NEW u, NEW e
    PROVE  Sum(u, {e}) # u
BY DEF Sum

LEMMA SumBack ==
    ASSUME NEW u, NEW v
    PROVE  Sum(Sum(u, v), v) = u
BY DEF Sum

LEMMA Words ==
    ASSUME Typed, NEW s \in Side
    PROVE  /\ \A j \in Row : /\ op[s].a[j] \in Bit /\ op[s].b[j] \in Bit
                             /\ op[s].r[j] \in Bit /\ last[s].a[j] \in Bit
                             /\ last[s].b[j] \in Bit /\ last[s].z[j] \in Bit
           /\ \A n \in Col : base[s].s[n] \in Bit
<1>1. /\ op[s].a \in Word /\ op[s].b \in Word /\ op[s].r \in Word
      /\ last[s].a \in Word /\ last[s].b \in Word /\ last[s].z \in Word
      /\ base[s].s \in [Col -> Bit]
  BY DEF Typed, BaseTyped, OpTyped, LastTyped
<1> QED
  BY <1>1 DEF Word

(***************************************************************************)
(* IKNP: the sender's rows are the receiver's, shifted where it must not   *)
(* be able to open.                                                        *)
(***************************************************************************)
LEMMA RowsMatch ==
    ASSUME Typed, NEW s \in Side, Seeded(s), NEW U, NEW j \in Row,
           \A n \in Col : U[n] = Column(Peer(s), n, op[Peer(s)].a)
    PROVE  /\ QRow(s, U, j) = Row0(s, j)
           /\ Shifted(s, QRow(s, U, j)) = Row1(s, j)
<1> DEFINE p == Peer(s)
           a == op[p].a[j]
           G(n, b) == {Append(Seed(p, n, b), j)}
<1>1. p \in Side /\ a \in Bit
  BY Sides, Words
<1>2. ASSUME NEW n \in Col
      PROVE  /\ base[s].kc[n] = Seed(p, n, base[s].s[n])
             /\ base[s].s[n] \in Bit
  <2>1. n < ELL + 1
    BY OTAssumption DEF Col
  <2> QED
    BY <2>1, Words DEF Seeded, SeededTo
<1>3. ASSUME NEW n \in Col
      PROVE  /\ Prg(base[s].kc[n])[j] = G(n, base[s].s[n])
             /\ U[n][j] = Sum(Sum(G(n, 0), G(n, 1)), Times(a, {Const}))
             /\ TRow(p, j)[n] = G(n, 0)
  BY <1>2, <1>3 DEF Prg, Column, TRow
<1>4. ASSUME NEW n \in Col
      PROVE  Sum(Prg(base[s].kc[n])[j], Times(base[s].s[n], U[n][j]))
               = Sum(TRow(p, j)[n], Times(base[s].s[n] * a, {Const}))
  <2>1. CASE base[s].s[n] = 0
    <3>1. base[s].s[n] * a = 0
      BY <2>1, <1>1, TimesTable DEF Bit
    <3>2. /\ Prg(base[s].kc[n])[j] = G(n, 0)
          /\ TRow(p, j)[n] = G(n, 0)
      BY <1>3, <1>4, <2>1
    <3>3. Times(base[s].s[n], U[n][j]) = {}
      BY <2>1 DEF Times
    <3>4. Times(base[s].s[n] * a, {Const}) = {}
      BY <3>1 DEF Times
    <3> HIDE DEF a, G
    <3> QED
      BY <3>2, <3>3, <3>4
  <2>2. CASE base[s].s[n] = 1
    <3>1. base[s].s[n] * a = a
      BY <2>2, <1>1, TimesTable DEF Bit
    <3> HIDE DEF a, G
    <3>2. Times(base[s].s[n], U[n][j]) = U[n][j]
      BY <2>2 DEF Times
    <3>3. Sum(G(n, 1), Sum(Sum(G(n, 0), G(n, 1)), Times(a, {Const})))
            = Sum(G(n, 0), Times(a, {Const}))
      BY SumTwice
    <3>4. /\ Prg(base[s].kc[n])[j] = G(n, 1)
          /\ U[n][j] = Sum(Sum(G(n, 0), G(n, 1)), Times(a, {Const}))
          /\ TRow(p, j)[n] = G(n, 0)
      BY <1>3, <1>4, <2>2
    <3> QED
      BY <3>1, <3>2, <3>3, <3>4
  <2> QED
    BY <1>2, <1>4, <2>1, <2>2 DEF Bit
<1>5. QRow(s, U, j) = Row0(s, j)
  <2> HIDE DEF G
  <2> QED
    BY <1>4 DEF QRow, Row0, RowFor
<1>6. ASSUME NEW n \in Col
      PROVE  Sum(Row0(s, j)[n], Times(base[s].s[n], {Const}))
               = Sum(TRow(p, j)[n], Times(base[s].s[n] * (1 - a), {Const}))
  <2> DEFINE t == TRow(p, j)[n]
             b == base[s].s[n]
  <2>1. Row0(s, j)[n] = Sum(t, Times(b * a, {Const}))
    BY <1>6 DEF Row0, RowFor
  <2>2. b \in {0, 1} /\ a \in {0, 1}
    BY <1>1, <1>2, <1>6 DEF Bit
  <2> HIDE DEF t, b, a
  <2>3. CASE b = 0
    <3>1. b * a = 0 /\ b * (1 - a) = 0
      BY <2>2, <2>3
    <3> QED
      BY <2>1, <2>3, <3>1, SumEmpty DEF Times, t, b, a
  <2>4. CASE b = 1 /\ a = 0
    <3>1. b * a = 0 /\ b * (1 - a) = 1
      BY <2>4
    <3>2. Row0(s, j)[n] = t
      BY <2>1, <3>1, SumEmpty DEF Times
    <3>3. Times(b, {Const}) = {Const} /\ Times(b * (1 - a), {Const}) = {Const}
      BY <2>4, <3>1 DEF Times
    <3> QED
      BY <3>2, <3>3 DEF t, b, a
  <2>5. CASE b = 1 /\ a = 1
    <3>1. b * a = 1 /\ b * (1 - a) = 0
      BY <2>5
    <3>2. Row0(s, j)[n] = Sum(t, {Const})
      BY <2>1, <3>1 DEF Times
    <3>3. Times(b, {Const}) = {Const} /\ Times(b * (1 - a), {Const}) = {}
      BY <2>5, <3>1 DEF Times
    <3>4. Sum(Sum(t, {Const}), {Const}) = Sum(t, {})
      BY SumBack, SumEmpty
    <3> QED
      BY <3>2, <3>3, <3>4 DEF t, b, a
  <2> QED
    BY <2>2, <2>3, <2>4, <2>5
<1>7. Shifted(s, Row0(s, j)) = Row1(s, j)
  <2> HIDE DEF G
  <2> QED
    BY <1>6 DEF Shifted, Row1, RowFor
<1> QED
  BY <1>5, <1>7

\* The row of the receiver's choice is its own, the other one is not when
\* some bit of the sender's secret is set.
LEMMA RowOpens ==
    ASSUME Typed, NEW s \in Side, NEW j \in Row
    PROVE  /\ RowFor(s, j, 0) = TRow(Peer(s), j)
           /\ (\E n \in Col : base[s].s[n] = 1) =>
                  RowFor(s, j, 1) # TRow(Peer(s), j)
<1>1. \A n \in Col : base[s].s[n] \in Bit
  BY Words
<1>2. ASSUME NEW n \in Col
      PROVE  Sum(TRow(Peer(s), j)[n], Times(base[s].s[n] * 0, {Const}))
               = TRow(Peer(s), j)[n]
  <2>1. base[s].s[n] * 0 = 0
    BY <1>1, <1>2 DEF Bit
  <2> QED
    BY <2>1, SumEmpty DEF Times
<1>3. TRow(Peer(s), j) = [n \in Col |-> TRow(Peer(s), j)[n]]
  BY DEF TRow
<1>4. RowFor(s, j, 0) = TRow(Peer(s), j)
  BY <1>2, <1>3 DEF RowFor
<1>5. ASSUME NEW n \in Col, base[s].s[n] = 1
      PROVE  RowFor(s, j, 1)[n] # TRow(Peer(s), j)[n]
  <2>1. RowFor(s, j, 1)[n] = Sum(TRow(Peer(s), j)[n], Times(1, {Const}))
    BY <1>5, TimesTable DEF RowFor
  <2>2. Times(1, {Const}) = {Const}
    BY DEF Times
  <2> QED
    BY <2>1, <2>2, SumDiffers
<1> QED
  BY <1>4, <1>5

-----------------------------------------------------------------------------
(***************************************************************************)
(* What a step does, side by side.                                         *)
(***************************************************************************)
LEMMA ZeroWord == Zero \in Word /\ 0 \in Bit /\ 1 \in Bit
BY DEF Zero, Word, Bit

LEMMA PassTo ==
    ASSUME Typed, NEW s \in Side, NEW p, p = Peer(s),
           NEW msgs, IsSeq(msgs), q[p] # <<>>, Passes(s, msgs)
    PROVE  /\ DOMAIN q' = Side /\ \A t \in Side : IsSeq(q'[t])
           /\ q'[s] = q[s] \o msgs /\ q'[p] = Tail(q[p])
<1>1. DOMAIN q = Side /\ p \in Side /\ p # s /\ \A t \in Side : t = s \/ t = p
  BY Sides DEF Typed, Shaped
<1>2. DOMAIN q' = Side /\ q'[s] = q[s] \o msgs /\ q'[p] = Tail(q[p])
  BY <1>1 DEF Passes
<1>3. IsSeq(q[s] \o msgs) /\ IsSeq(Tail(q[p]))
  BY <1>1, JoinAny, TailAny DEF Typed
<1> QED
  BY <1>1, <1>2, <1>3

LEMMA GoTo ==
    ASSUME Typed, NEW s \in Side, NEW t, NEW n, Goes(s, t, n)
    PROVE  /\ DOMAIN pc' = Side /\ DOMAIN idx' = Side
           /\ pc'[s] = t /\ idx'[s] = n
           /\ pc'[Peer(s)] = pc[Peer(s)] /\ idx'[Peer(s)] = idx[Peer(s)]
BY Sides DEF Goes, Typed, Shaped

LEMMA ColumnsSeq ==
    ASSUME NEW s, NEW a
    PROVE  /\ IsSeq(Columns(s, a)) /\ Len(Columns(s, a)) = ELL
           /\ \A n \in Col : Columns(s, a)[n] = Msg("u", n, Column(s, n, a))
<1> DEFINE M == {Msg("u", n, Column(s, n, a)) : n \in Col}
<1>1. Columns(s, a) \in [1 .. ELL -> M] /\ ELL \in Nat
  BY OTAssumption DEF Columns, Col
<1>2. Columns(s, a) \in Seq(M) /\ Len(Columns(s, a)) = ELL
  BY <1>1, SeqDef, LenProperties
<1> QED
  BY <1>2, SeqAny DEF Columns

LEMMA BaseKept ==
    ASSUME Typed, UNCHANGED base, NEW s \in Side
    PROVE  /\ BaseTyped(s)'
           /\ \A n : SeededTo(s, n)' <=> SeededTo(s, n)
BY DEF Typed, BaseTyped, SeededTo

LEMMA LastKept ==
    ASSUME Typed, UNCHANGED last, NEW s \in Side
    PROVE  LastTyped(s)'
BY DEF Typed, LastTyped

LEMMA OpKept ==
    ASSUME Typed, NEW s \in Side, op'[s] = op[s]
    PROVE  OpTyped(s)'
BY DEF Typed, OpTyped

LEMMA Retyped ==
    ASSUME Typed, Shaped', NEW s \in Side,
           \A t \in Side : IsSeq(q'[t]),
           BaseTyped(s)', OpTyped(s)', LastTyped(s)',
           {"k", "S"} \subseteq DOMAIN co'[s],
           base'[Peer(s)] = base[Peer(s)], op'[Peer(s)] = op[Peer(s)],
           last'[Peer(s)] = last[Peer(s)], co'[Peer(s)] = co[Peer(s)]
    PROVE  Typed'
<1> DEFINE p == Peer(s)
<1>1. p \in Side /\ \A t \in Side : t = s \/ t = p
  BY Sides
<1>2. BaseTyped(p) /\ OpTyped(p) /\ LastTyped(p)
      /\ {"k", "S"} \subseteq DOMAIN co[p]
  BY <1>1 DEF Typed
<1> HIDE DEF p
<1>3. base'[p] = base[p] /\ op'[p] = op[p] /\ last'[p] = last[p]
      /\ co'[p] = co[p]
  BY DEF p
<1>4. BaseTyped(p)' /\ OpTyped(p)' /\ LastTyped(p)'
      /\ {"k", "S"} \subseteq DOMAIN co'[p]
  BY <1>2, <1>3 DEF BaseTyped, OpTyped, LastTyped
<1>5. \A t \in Side : BaseTyped(t)' /\ OpTyped(t)' /\ LastTyped(t)'
                      /\ {"k", "S"} \subseteq DOMAIN co'[t]
  BY <1>1, <1>4
<1> QED
  BY <1>5 DEF Typed

LEMMA EnterTyped ==
    ASSUME Typed, NEW s \in Side, Enter(s)
    PROVE  /\ Typed' /\ op'[Peer(s)] = op[Peer(s)]
           /\ op'[s].U = <<>> /\ op'[s].a \in Word
           /\ base[s].kc # NoSeeds =>
                /\ q'[s] = q[s] \o Columns(s, op'[s].a)
                /\ q'[Peer(s)] = q[Peer(s)]
<1> DEFINE p == Peer(s)
<1>0. PICK a \in Word, b \in Word, r \in Word :
        /\ op' = [op EXCEPT ![s] = [NoOp EXCEPT !.a = a, !.b = b, !.r = r]]
        /\ IF base[s].kc = NoSeeds
             THEN Goes(s, First(s), 0) /\ UNCHANGED q
             ELSE /\ Goes(s, "u", 1)
                  /\ q' = [q EXCEPT ![s] = @ \o Columns(s, a)]
  BY DEF Enter
<1>1. p \in Side /\ p # s /\ \A t \in Side : t = s \/ t = p
  BY Sides
<1>2. DOMAIN q = Side /\ DOMAIN op = Side /\ \A t \in Side : IsSeq(q[t])
  BY DEF Typed, Shaped
<1>3. DOMAIN q' = Side /\ \A t \in Side : IsSeq(q'[t])
  <2>1. IsSeq(q[s] \o Columns(s, a))
    BY <1>2, ColumnsSeq, JoinAny
  <2> QED
    BY <1>0, <1>1, <1>2, <2>1
<1>4. /\ DOMAIN op' = Side
      /\ op'[s] = [NoOp EXCEPT !.a = a, !.b = b, !.r = r]
      /\ op'[p] = op[p]
  BY <1>0, <1>1, <1>2
<1>5. /\ op'[s].U = <<>> /\ op'[s].a = a /\ op'[s].b = b /\ op'[s].r = r
      /\ OpFields \subseteq DOMAIN op'[s]
  BY <1>4 DEF NoOp, OpFields
<1>6. OpTyped(s)'
  BY <1>5, NothingAny DEF OpTyped
<1>7. DOMAIN pc' = Side /\ DOMAIN idx' = Side
  BY <1>0, GoTo
<1>8. UNCHANGED <<base, co, last, ands>>
  BY DEF Enter
<1>9. Shaped'
  BY <1>3, <1>4, <1>7, <1>8 DEF Typed, Shaped
<1>10. Typed'
  BY <1>3, <1>4, <1>6, <1>8, <1>9, Retyped, BaseKept, LastKept DEF Typed
<1>11. base[s].kc # NoSeeds => /\ q'[s] = q[s] \o Columns(s, op'[s].a)
                               /\ q'[p] = q[p]
  BY <1>0, <1>1, <1>2, <1>5
<1> QED
  BY <1>4, <1>5, <1>10, <1>11

LEMMA SendTyped ==
    ASSUME Typed, NEW s \in Side, SendS(s)
    PROVE  Typed'
<1>0. PICK y \in Scalar :
        /\ co' = [co EXCEPT ![s] = [k |-> y, S |-> y]]
        /\ q' = [q EXCEPT ![s] = Append(@, Msg("co.S", 0, y))]
  BY DEF SendS
<1>1. Peer(s) \in Side /\ Peer(s) # s
      /\ \A t \in Side : t = s \/ t = Peer(s)
  BY Sides
<1>2. DOMAIN q = Side /\ DOMAIN co = Side /\ \A t \in Side : IsSeq(q[t])
  BY DEF Typed, Shaped
<1>3. DOMAIN q' = Side /\ \A t \in Side : IsSeq(q'[t])
  <2>1. IsSeq(Append(q[s], Msg("co.S", 0, y)))
    BY <1>2, AppendAny
  <2> QED
    BY <1>0, <1>1, <1>2, <2>1
<1>4. /\ DOMAIN co' = Side /\ co'[Peer(s)] = co[Peer(s)]
      /\ co'[s] = [k |-> y, S |-> y]
  BY <1>0, <1>1, <1>2
<1>5. {"k", "S"} \subseteq DOMAIN co'[s]
  BY <1>4
<1>6. Goes(s, "co.R", 1) /\ UNCHANGED <<base, op, last, ands>>
  BY DEF SendS
<1>7. Shaped'
  BY <1>3, <1>4, <1>6, GoTo DEF Typed, Shaped
<1> QED
  BY <1>3, <1>4, <1>5, <1>6, <1>7, Retyped, BaseKept, LastKept, OpKept
     DEF Typed

LEMMA AnswerTyped ==
    ASSUME Typed, NEW s \in Side, AnswerR(s)
    PROVE  Typed'
<1> DEFINE n == idx[s]
           k == CoKeys(co[s].k, co[s].S, Got(s))
           e == Msg("co.e", n, <<Sealed(Seed(s, n, 0), k[1]),
                                 Sealed(Seed(s, n, 1), k[2])>>)
<1>0. /\ q[Peer(s)] # <<>>
      /\ IF n < ELL
             THEN Goes(s, "co.R", n + 1) /\ Passes(s, <<e>>) /\ UNCHANGED co
             ELSE /\ After(s, "sendS", <<e>>)
                  /\ co' = [co EXCEPT ![s] = [k |-> 0, S |-> 0]]
      /\ UNCHANGED <<base, op, last, ands>>
  BY DEF AnswerR, Takes
<1> HIDE DEF e
<1>1. IsSeq(<<e>>) /\ IsSeq(<<e>> \o Columns(s, op[s].a))
  BY OneAny, ColumnsSeq, JoinAny
<1>2. \E t, m : Goes(s, t, m)
  BY <1>0 DEF After
<1>3. Passes(s, <<e>>) \/ Passes(s, <<e>> \o Columns(s, op[s].a))
  BY <1>0 DEF After
<1>4. DOMAIN q' = Side /\ \A t \in Side : IsSeq(q'[t])
  BY <1>0, <1>1, <1>3, PassTo
<1>5. DOMAIN pc' = Side /\ DOMAIN idx' = Side
  BY <1>2, GoTo
<1>6. /\ DOMAIN co' = Side /\ co'[Peer(s)] = co[Peer(s)]
      /\ {"k", "S"} \subseteq DOMAIN co'[s]
  BY <1>0, Sides DEF Typed, Shaped
<1>7. Shaped'
  BY <1>0, <1>4, <1>5, <1>6 DEF Typed, Shaped
<1> QED
  BY <1>0, <1>4, <1>6, <1>7, Retyped, BaseKept, LastKept, OpKept DEF Typed

LEMMA TakeSTyped ==
    ASSUME Typed, NEW s \in Side, TakeS(s)
    PROVE  Typed'
<1>0. PICK x \in Scalar, bits \in [Col -> Bit] :
           /\ base' = [base EXCEPT ![s].s = bits]
           /\ co' = [co EXCEPT ![s] = [k |-> x, S |-> Got(s)]]
           /\ Passes(s, <<Blind(s, 1, x, Got(s))>>)
  BY DEF TakeS
<1>1. /\ q[Peer(s)] # <<>> /\ Goes(s, "co.e", 1)
      /\ UNCHANGED <<op, last, ands>>
  BY DEF TakeS, Takes
<1> DEFINE m == Blind(s, 1, x, Got(s))
<1>2. Passes(s, <<m>>)
  BY <1>0
<1> HIDE DEF m
<1>3. DOMAIN q' = Side /\ \A t \in Side : IsSeq(q'[t])
  BY <1>1, <1>2, OneAny, PassTo
<1>4. /\ DOMAIN co' = Side /\ co'[Peer(s)] = co[Peer(s)]
      /\ {"k", "S"} \subseteq DOMAIN co'[s]
  BY <1>0, Sides DEF Typed, Shaped
<1>5. BaseTyped(s)
  BY DEF Typed
<1>6. /\ DOMAIN base' = Side /\ base'[Peer(s)] = base[Peer(s)]
      /\ base'[s] = [base[s] EXCEPT !.s = bits]
  BY <1>0, Sides DEF Typed, Shaped
<1>7. base'[s].s = bits /\ base'[s].kc = base[s].kc
      /\ DOMAIN base'[s] = DOMAIN base[s]
  BY <1>5, <1>6 DEF BaseTyped
<1>8. BaseTyped(s)'
  BY <1>5, <1>7 DEF BaseTyped
<1>9. Shaped'
  BY <1>1, <1>3, <1>4, <1>6, GoTo DEF Typed, Shaped
<1> QED
  BY <1>1, <1>3, <1>4, <1>6, <1>8, <1>9, Retyped, LastKept, OpKept

LEMMA TakeETyped ==
    ASSUME Typed, NEW s \in Side, TakeE(s)
    PROVE  Typed' /\ \A t \in Side : base'[t].s = base[t].s
<1> DEFINE n == idx[s]
<1>0. /\ q[Peer(s)] # <<>>
      /\ \E seed : base' = [base EXCEPT ![s].kc[n] = seed]
      /\ IF n < ELL
                THEN \E x \in Scalar :
                       /\ co' = [co EXCEPT ![s].k = x]
                       /\ Goes(s, "co.e", n + 1)
                       /\ Passes(s, <<Blind(s, n + 1, x, co[s].S)>>)
                ELSE /\ After(s, "co.S", <<>>)
                     /\ co' = [co EXCEPT ![s] = [k |-> 0, S |-> 0]]
      /\ UNCHANGED <<op, last, ands>>
  BY DEF TakeE, Takes
<1> HIDE DEF n
<1>1. \E t, m : Goes(s, t, m)
  BY <1>0 DEF After
<1>2. \E msgs : IsSeq(msgs) /\ Passes(s, msgs)
  <2>1. CASE n < ELL
    BY <1>0, <2>1, OneAny
  <2>2. CASE ~ (n < ELL)
    <3>1. IsSeq(<<>>) /\ IsSeq(<<>> \o Columns(s, op[s].a))
      BY NothingAny, ColumnsSeq, JoinAny
    <3>2. Passes(s, <<>>) \/ Passes(s, <<>> \o Columns(s, op[s].a))
      BY <1>0, <2>2 DEF After
    <3> QED
      BY <3>1, <3>2
  <2> QED
    BY <2>1, <2>2
<1>3. DOMAIN q' = Side /\ \A t \in Side : IsSeq(q'[t])
  BY <1>0, <1>2, PassTo
<1>4. DOMAIN pc' = Side /\ DOMAIN idx' = Side
  BY <1>1, GoTo
<1>5. DOMAIN co = Side /\ {"k", "S"} \subseteq DOMAIN co[s]
  BY DEF Typed, Shaped
<1>6. /\ DOMAIN co' = Side /\ co'[Peer(s)] = co[Peer(s)]
      /\ {"k", "S"} \subseteq DOMAIN co'[s]
  <2>1. CASE n < ELL
    BY <1>0, <1>5, <2>1, Sides
  <2>2. CASE ~ (n < ELL)
    BY <1>0, <1>5, <2>2, Sides
  <2> QED
    BY <2>1, <2>2
<1>7. PICK seed : base' = [base EXCEPT ![s].kc[n] = seed]
  BY <1>0
<1>8. BaseTyped(s)
  BY DEF Typed
<1>9. /\ DOMAIN base' = Side /\ base'[Peer(s)] = base[Peer(s)]
      /\ base'[s] = [base[s] EXCEPT !.kc = [base[s].kc EXCEPT ![n] = seed]]
  BY <1>7, Sides DEF Typed, Shaped
<1>10. /\ base'[s].s = base[s].s
       /\ base'[s].kc = [base[s].kc EXCEPT ![n] = seed]
       /\ DOMAIN base'[s] = DOMAIN base[s]
  BY <1>8, <1>9 DEF BaseTyped
<1>11. base'[s].kc = [m \in Col |-> base'[s].kc[m]]
  BY <1>8, <1>10 DEF BaseTyped
<1>12. BaseTyped(s)'
  BY <1>8, <1>10, <1>11 DEF BaseTyped
<1>13. Shaped'
  BY <1>0, <1>3, <1>4, <1>6, <1>9 DEF Typed, Shaped
<1>14. Typed'
  BY <1>0, <1>3, <1>6, <1>9, <1>12, <1>13, Retyped, LastKept, OpKept
<1> QED
  BY <1>9, <1>10, <1>14, Sides

LEMMA TakeUTyped ==
    ASSUME Typed, NEW s \in Side, TakeU(s)
    PROVE  /\ Typed' /\ op'[Peer(s)] = op[Peer(s)]
           /\ \A f \in {"a", "b", "r", "e0"} : op'[s][f] = op[s][f]
           /\ op'[s].U = IF idx[s] < ELL THEN Append(op[s].U, Got(s)) ELSE <<>>
<1> DEFINE U == Append(op[s].U, Got(s))
           V == IF idx[s] < ELL THEN U ELSE <<>>
<1>0. /\ q[Peer(s)] # <<>>
      /\ op' = [op EXCEPT ![s].U = V]
      /\ UNCHANGED <<base, co, last, ands>>
      /\ \E msgs : IsSeq(msgs) /\ Passes(s, msgs)
      /\ \E t, m : Goes(s, t, m)
  <2>1. \A e, f : IsSeq(<<e, f>>)
    BY DEF IsSeq
  <2>2. CASE idx[s] < ELL
    BY <2>2, NothingAny DEF TakeU, Takes
  <2>3. CASE ~ (idx[s] < ELL)
    BY <2>1, <2>3 DEF TakeU, Takes
  <2> QED
    BY <2>2, <2>3
<1>1. OpTyped(s) /\ DOMAIN op = Side
  BY DEF Typed, Shaped
<1>2. IsSeq(V)
  <2>1. IsSeq(U)
    BY <1>1, AppendAny DEF OpTyped
  <2> QED
    BY <2>1, NothingAny
<1> HIDE DEF V
<1>3. /\ DOMAIN op' = Side /\ op'[Peer(s)] = op[Peer(s)]
      /\ op'[s] = [op[s] EXCEPT !.U = V]
  BY <1>0, <1>1, Sides
<1>4. /\ op'[s].a = op[s].a /\ op'[s].b = op[s].b /\ op'[s].r = op[s].r
      /\ op'[s].e0 = op[s].e0 /\ op'[s].U = V
      /\ DOMAIN op'[s] = DOMAIN op[s]
  BY <1>1, <1>3 DEF OpTyped, OpFields
<1>5. OpTyped(s)'
  BY <1>1, <1>2, <1>4 DEF OpTyped
<1>6. DOMAIN q' = Side /\ \A t \in Side : IsSeq(q'[t])
  BY <1>0, PassTo
<1>7. Shaped'
  BY <1>0, <1>3, <1>6, GoTo DEF Typed, Shaped
<1>8. Typed'
  BY <1>0, <1>3, <1>5, <1>6, <1>7, Retyped, LastKept, BaseKept DEF Typed
<1> QED
  BY <1>3, <1>4, <1>8 DEF V

LEMMA TakeE0Typed ==
    ASSUME Typed, NEW s \in Side, TakeE0(s)
    PROVE  /\ Typed' /\ op'[Peer(s)] = op[Peer(s)]
           /\ \A f \in {"a", "b", "r", "U"} : op'[s][f] = op[s][f]
           /\ op'[s].e0 = Got(s)
<1>0. /\ q[Peer(s)] # <<>>
      /\ op' = [op EXCEPT ![s].e0 = Got(s)]
      /\ UNCHANGED <<base, co, last, ands>>
      /\ Passes(s, <<>>) /\ Goes(s, "e1", 0)
  BY DEF TakeE0, Takes
<1>1. OpTyped(s) /\ DOMAIN op = Side
  BY DEF Typed, Shaped
<1>3. /\ DOMAIN op' = Side /\ op'[Peer(s)] = op[Peer(s)]
      /\ op'[s] = [op[s] EXCEPT !.e0 = Got(s)]
  BY <1>0, <1>1, Sides
<1>4. /\ op'[s].a = op[s].a /\ op'[s].b = op[s].b /\ op'[s].r = op[s].r
      /\ op'[s].e0 = Got(s) /\ op'[s].U = op[s].U
      /\ DOMAIN op'[s] = DOMAIN op[s]
  BY <1>1, <1>3 DEF OpTyped, OpFields
<1>5. OpTyped(s)'
  BY <1>1, <1>4 DEF OpTyped
<1>6. DOMAIN q' = Side /\ \A t \in Side : IsSeq(q'[t])
  BY <1>0, NothingAny, PassTo
<1>7. Shaped'
  BY <1>0, <1>3, <1>6, GoTo DEF Typed, Shaped
<1>8. Typed'
  BY <1>0, <1>3, <1>5, <1>6, <1>7, Retyped, LastKept, BaseKept DEF Typed
<1> QED
  BY <1>3, <1>4, <1>8

LEMMA FinishTyped ==
    ASSUME Typed, NEW s \in Side, Finish(s)
    PROVE  /\ Typed' /\ op'[Peer(s)] = op[Peer(s)] /\ op'[s] = NoOp
           /\ ands'[s] = ands[s] + 1 /\ ands'[Peer(s)] = ands[Peer(s)]
           /\ last'[Peer(s)] = last[Peer(s)]
           /\ \E got \in Word :
                /\ \A j \in Row : got[j] \in Chosen(s, j, Got(s))
                /\ last'[s].a = op[s].a /\ last'[s].b = op[s].b
                /\ last'[s].z =
                     [j \in Row |-> Xor(op[s].a[j] * op[s].b[j],
                                        Xor(op[s].r[j], got[j]))]
<1>0. /\ q[Peer(s)] # <<>>
      /\ op' = [op EXCEPT ![s] = NoOp]
      /\ ands' = [ands EXCEPT ![s] = @ + 1]
      /\ UNCHANGED <<base, co>>
      /\ Passes(s, <<>>) /\ Goes(s, "idle", 0)
  BY DEF Finish, Takes
<1>1. PICK got \in Word :
        /\ \A j \in Row : got[j] \in Chosen(s, j, Got(s))
        /\ last' = [last EXCEPT ![s] =
                      [a |-> op[s].a, b |-> op[s].b,
                       z |-> [j \in Row |-> Xor(op[s].a[j] * op[s].b[j],
                                                Xor(op[s].r[j], got[j]))]]]
  BY DEF Finish
<1>2. OpTyped(s) /\ DOMAIN op = Side /\ DOMAIN last = Side
      /\ ands \in [Side -> Nat]
  BY DEF Typed, Shaped
<1> DEFINE z == [j \in Row |-> Xor(op[s].a[j] * op[s].b[j],
                                   Xor(op[s].r[j], got[j]))]
<1>3. z \in Word
  <2>1. \A j \in Row : got[j] \in Bit
    BY DEF Word
  <2>2. \A j \in Row : op[s].a[j] \in Bit /\ op[s].b[j] \in Bit
                       /\ op[s].r[j] \in Bit
    BY Words
  <2>3. \A j \in Row : Xor(op[s].a[j] * op[s].b[j],
                           Xor(op[s].r[j], got[j])) \in Bit
    BY <2>1, <2>2, XorTable
  <2> QED
    BY <2>3 DEF Word
<1> HIDE DEF z
<1>4. /\ DOMAIN last' = Side /\ last'[Peer(s)] = last[Peer(s)]
      /\ last'[s] = [a |-> op[s].a, b |-> op[s].b, z |-> z]
  BY <1>1, <1>2, Sides DEF z
<1>5. /\ last'[s].a = op[s].a /\ last'[s].b = op[s].b /\ last'[s].z = z
  BY <1>4
<1>6. LastTyped(s)'
  BY <1>2, <1>3, <1>5 DEF LastTyped, OpTyped
<1>7. /\ DOMAIN op' = Side /\ op'[Peer(s)] = op[Peer(s)] /\ op'[s] = NoOp
  BY <1>0, <1>2, Sides
<1>8. OpTyped(s)'
  BY <1>7, ZeroWord, NothingAny DEF OpTyped, NoOp, OpFields
<1>9. /\ ands' \in [Side -> Nat] /\ ands'[s] = ands[s] + 1
      /\ ands'[Peer(s)] = ands[Peer(s)]
  BY <1>0, <1>2, Sides
<1>10. DOMAIN q' = Side /\ \A t \in Side : IsSeq(q'[t])
  BY <1>0, NothingAny, PassTo
<1>11. Shaped'
  BY <1>0, <1>4, <1>7, <1>9, <1>10, GoTo DEF Typed, Shaped
<1>12. Typed'
  BY <1>0, <1>4, <1>6, <1>7, <1>8, <1>10, <1>11, Retyped, BaseKept DEF Typed
<1> QED
  BY <1>1, <1>5, <1>7, <1>9, <1>4, <1>12 DEF z

-----------------------------------------------------------------------------
(***************************************************************************)
(* Chou-Orlandi: the sender's key for the receiver's choice is the key the *)
(* receiver computes.                                                      *)
(***************************************************************************)
LEMMA QuotientOnce ==
    ASSUME NEW u \in Int, NEW w \in Int,
           NEW r \in 0 .. Q - 1, NEW t \in 0 .. Q - 1,
           Q * u + r = Q * w + t
    PROVE  r = t
<1>1. ASSUME NEW m \in Int, NEW n \in Int, m < n
      PROVE  Q * m + Q <= Q * n
  <2>1. n - m >= 1
    BY <1>1
  <2>2. Q * (n - m) >= Q
    BY <2>1, OTAssumption
  <2>3. Q * (n - m) = Q * n - Q * m
    BY OTAssumption
  <2>4. Q * n \in Int /\ Q * m \in Int
    BY OTAssumption
  <2> QED
    BY <2>2, <2>3, <2>4, OTAssumption
<1>2. Q * u \in Int /\ Q * w \in Int
  BY OTAssumption
<1>3. ~ u < w
  BY <1>1, <1>2, OTAssumption
<1>4. ~ w < u
  BY <1>1, <1>2, OTAssumption
<1>5. u = w
  BY <1>3, <1>4
<1> QED
  BY <1>2, <1>5, OTAssumption

LEMMA RestOf ==
    ASSUME NEW m \in Int
    PROVE  /\ m = Q * (m \div Q) + (m % Q)
           /\ m \div Q \in Int /\ m % Q \in 0 .. Q - 1
BY OTAssumption

LEMMA SameRest ==
    ASSUME NEW m \in Int, NEW n \in Int, NEW k \in Int, m = n + Q * k
    PROVE  m % Q = n % Q
<1> DEFINE u == m \div Q
           w == n \div Q
           r == m % Q
           t == n % Q
<1>1. m = Q * u + r /\ u \in Int /\ r \in 0 .. Q - 1
  BY RestOf
<1>2. n = Q * w + t /\ w \in Int /\ t \in 0 .. Q - 1
  BY RestOf
<1> HIDE DEF u, w, r, t
<1>3. Q * (w + k) = Q * w + Q * k /\ Q * w \in Int /\ Q * k \in Int
      /\ Q * u \in Int
  BY <1>1, <1>2, OTAssumption
<1> DEFINE v == w + k
<1>4. v \in Int
  BY <1>2
<1>5. Q * v = Q * w + Q * k
  BY <1>3
<1> HIDE DEF v
<1>6. Q * u + r = Q * v + t
  BY <1>1, <1>2, <1>3, <1>5
<1>7. r = t
  BY <1>1, <1>2, <1>4, <1>6, QuotientOnce
<1> QED
  BY <1>7 DEF r, t

LEMMA KeysMeet ==
    ASSUME NEW x \in Scalar, NEW y \in Scalar
    PROVE  /\ (y * x) % Q = (x * y) % Q
           /\ (y * (((x + y) % Q) - y)) % Q = (x * y) % Q
<1>1. x \in Int /\ y \in Int /\ x + y \in Int
  BY OTAssumption DEF Scalar
<1>2. y * x = x * y
  BY <1>1
<1> DEFINE e == x + y
           d == e \div Q
           r == e % Q
<1>3. e = Q * d + r /\ d \in Int /\ r \in Int
  <2>1. e \in Int
    BY <1>1
  <2> HIDE DEF e
  <2> QED
    BY <2>1, RestOf
<1>4. r - y = x - Q * d
  <2>1. e = x + y
    OBVIOUS
  <2> HIDE DEF e, d, r
  <2>2. Q * d \in Int
    BY <1>3, OTAssumption
  <2> QED
    BY <1>1, <1>3, <2>1, <2>2
<1> HIDE DEF d, r
<1>5. y * (x - Q * d) = y * x + Q * (0 - d * y)
  BY <1>1, <1>3, OTAssumption
<1> DEFINE k == 0 - d * y
           m == y * (r - y)
<1>6. k \in Int /\ m \in Int /\ y * x \in Int
  BY <1>1, <1>3
<1>7. m = y * x + Q * k
  BY <1>4, <1>5
<1> HIDE DEF k, m
<1> DEFINE n == y * x
<1> HIDE DEF n
<1>8. m % Q = n % Q
  BY <1>6, <1>7, SameRest DEF n
<1> QED
  BY <1>2, <1>8 DEF m, n, r

-----------------------------------------------------------------------------
(***************************************************************************)
(* One half of the base phase, message by message.                         *)
(***************************************************************************)
LEMMA OneQueue ==
    ASSUME Typed, NEW s \in Side, NEW e, NEW m,
           q[s] = <<>>, q[Peer(s)] = <<e>>, Passes(s, <<m>>)
    PROVE  q'[s] = <<m>> /\ q'[Peer(s)] = <<>>
<1>1. q[Peer(s)] # <<>> /\ IsSeq(<<m>>)
  BY OneAny
<1>2. q'[s] = <<>> \o <<m>> /\ q'[Peer(s)] = Tail(<<e>>)
  BY <1>1, PassTo
<1> QED
  BY <1>1, <1>2, OneAny, JoinNothing

LEMMA HalfTakeS ==
    ASSUME Typed, NEW c \in Side, AtS(c, Peer(c)), pc[c] = "co.S", TakeS(c)
    PROVE  AtR(c, Peer(c))' /\ base'[Peer(c)] = base[Peer(c)]
<1> DEFINE p == Peer(c)
<1>0. PICK x \in Scalar, bits \in [Col -> Bit] :
           /\ base' = [base EXCEPT ![c].s = bits]
           /\ co' = [co EXCEPT ![c] = [k |-> x, S |-> Got(c)]]
           /\ Passes(c, <<Blind(c, 1, x, Got(c))>>)
  BY DEF TakeS
<1>1. Goes(c, "co.e", 1) /\ UNCHANGED <<op, last, ands>>
  BY DEF TakeS
<1>2. p \in Side /\ p # c
  BY Sides
<1>3. DOMAIN base = Side /\ DOMAIN co = Side /\ BaseTyped(c)
  BY DEF Typed, Shaped
<1>4. /\ base'[c].s = bits /\ base'[c].kc = base[c].kc
      /\ base'[p] = base[p]
  BY <1>0, <1>2, <1>3 DEF BaseTyped
<1>5. /\ q[p] = <<Msg("co.S", 0, co[p].S)>> /\ q[c] = <<>>
      /\ pc[p] = "co.R" /\ idx[p] = 1 /\ Secret(p) /\ Unseeded(c)
  BY DEF AtS, Silent
<1>6. Got(c) = co[p].S
  BY <1>5, OneAny DEF Got, Msg
<1>7. /\ co'[c].k = x /\ co'[c].S = co[p].S /\ co'[p] = co[p]
  BY <1>0, <1>2, <1>3, <1>6
<1> DEFINE m == Blind(c, 1, x, Got(c))
<1>8. Passes(c, <<m>>)
  BY <1>0
<1>9. m = Msg("co.R", 1, Point(c, 1)')
  BY <1>6, <1>7 DEF Blind, Point
<1> HIDE DEF m
<1>10. q'[c] = <<m>> /\ q'[p] = <<>>
  BY <1>5, <1>8, OneQueue
<1>11. pc'[c] = "co.e" /\ idx'[c] = 1 /\ pc'[p] = "co.R" /\ idx'[p] = 1
  BY <1>1, <1>5, GoTo
<1>12. 1 \in Col
  BY OTAssumption DEF Col
<1>13. q'[c] = <<Msg("co.R", idx'[c], Point(c, idx[c])')>>
  BY <1>9, <1>10, <1>11 DEF Point
<1>14. SeededTo(c, 1)'
  <2>1. ASSUME NEW n \in Col PROVE base'[c].kc[n] = NoSeed /\ ~ (n < 1)
    <3>1. ~ (n < 1)
      BY DEF Col
    <3> QED
      BY <1>4, <1>5, <3>1 DEF Unseeded, SeededTo
  <2> QED
    BY <2>1 DEF SeededTo
<1>15. SeededTo(c, idx[c])'
  BY <1>11, <1>14 DEF SeededTo
<1>16. Secret(p)'
  BY <1>5, <1>7 DEF Secret
<1> QED
  BY <1>4, <1>7, <1>10, <1>11, <1>12, <1>13, <1>15, <1>16 DEF AtR, Silent

LEMMA HalfAnswer ==
    ASSUME Typed, NEW c \in Side, AtR(c, Peer(c)), AnswerR(Peer(c))
    PROVE  AtE(c, Peer(c))'
<1> DEFINE p == Peer(c)
<1>0. PICK n : n = idx[c]
  OBVIOUS
<1> DEFINE b == base[c].s[n]
           R == Point(c, n)
           k == CoKeys(co[p].k, co[p].S, R)
           ans == Msg("co.e", n, <<Sealed(Seed(p, n, 0), k[1]),
                                   Sealed(Seed(p, n, 1), k[2])>>)
<1>a. PICK e : e = ans
  OBVIOUS
<1>1. p \in Side /\ p # c /\ Peer(p) = c
  BY Sides
<1>2. /\ pc[p] = "co.R" /\ pc[c] = "co.e" /\ idx[p] = n /\ n \in Col
      /\ q[c] = <<Msg("co.R", n, R)>> /\ q[p] = <<>>
      /\ Secret(p) /\ co[c].S = co[p].S /\ co[c].k \in Scalar
      /\ SeededTo(c, n)
  BY <1>0 DEF AtR, Silent
<1>3. Got(p) = R
  BY <1>1, <1>2, OneAny DEF Got, Msg
<1>4. /\ IF n < ELL
             THEN Goes(p, "co.R", n + 1) /\ Passes(p, <<e>>) /\ UNCHANGED co
             ELSE /\ After(p, "sendS", <<e>>)
                  /\ co' = [co EXCEPT ![p] = [k |-> 0, S |-> 0]]
      /\ UNCHANGED <<base, op, last, ands>>
  BY <1>2, <1>3, <1>a DEF AnswerR
<1>5. b \in Bit
  BY <1>2, Words
<1>6. e.tag = "co.e" /\ e.i = n
      /\ e.val[b + 1] = Sealed(Seed(p, n, b), CoKey(c))
  <2> DEFINE x == co[c].k
             y == co[p].k
  <2>1. x \in Scalar /\ y \in Scalar /\ co[p].S = y /\ co[c].S = y
    BY <1>2 DEF Secret
  <2>2. CASE b = 0
    <3>1. R = x
      BY <2>2 DEF Point
    <3>2. k[1] = <<(y * x) % Q, "co0">>
      BY <3>1 DEF CoKeys
    <3>3. CoKey(c) = <<(x * y) % Q, "co0">>
      BY <1>0, <2>1, <2>2 DEF CoKey
    <3>4. k[1] = CoKey(c)
      BY <2>1, <3>2, <3>3, KeysMeet
    <3> HIDE DEF k
    <3>5. e.val[1] = Sealed(Seed(p, n, 0), k[1])
      BY <1>a DEF Msg
    <3>6. b + 1 = 1
      BY <2>2
    <3> QED
      BY <2>2, <3>4, <3>5, <3>6, <1>a DEF Msg
  <2>3. CASE b = 1
    <3>1. R = (x + y) % Q
      BY <2>1, <2>3 DEF Point
    <3>2. k[2] = <<(y * (((x + y) % Q) - y)) % Q, "co1">>
      BY <2>1, <3>1 DEF CoKeys
    <3>3. CoKey(c) = <<(x * y) % Q, "co1">>
      BY <1>0, <2>1, <2>3 DEF CoKey
    <3>4. k[2] = CoKey(c)
      BY <2>1, <3>2, <3>3, KeysMeet
    <3> HIDE DEF k
    <3>5. e.val[2] = Sealed(Seed(p, n, 1), k[2])
      BY <1>a DEF Msg
    <3>6. b + 1 = 2
      BY <2>3
    <3> QED
      BY <2>3, <3>4, <3>5, <3>6, <1>a DEF Msg
  <2> QED
    BY <1>5, <2>2, <2>3 DEF Bit
<1> HIDE DEF ans
<1>7. q[Peer(p)] # <<>>
  BY <1>1, <1>2, OneAny
<1>8. SeededTo(c, n)'
  BY <1>2, <1>4, BaseKept
<1>9. CASE n < ELL
  <2>1. Goes(p, "co.R", n + 1) /\ Passes(p, <<e>>) /\ UNCHANGED co
    BY <1>4, <1>9
  <2>2. q'[p] = <<e>> /\ q'[c] = <<>>
    BY <1>1, <1>2, <2>1, OneQueue
  <2>3. pc'[p] = "co.R" /\ idx'[p] = n + 1 /\ pc'[c] = "co.e" /\ idx'[c] = n
    BY <1>1, <1>2, <2>1, <1>0, GoTo
  <2>4. Secret(p)' /\ co'[c].S = co'[p].S
    BY <1>2, <2>1 DEF Secret
  <2>5. Answers(c, p, e)'
    BY <1>0, <1>4, <1>6, <2>1, <2>3 DEF Answers, CoKey
  <2>6. SeededTo(c, idx[c])'
    BY <1>8, <2>3 DEF SeededTo
  <2> QED
    BY <1>2, <1>9, <2>2, <2>3, <2>4, <2>5, <2>6 DEF AtE, Silent
<1>10. CASE ~ (n < ELL)
  <2>1. /\ After(p, "sendS", <<e>>)
        /\ co' = [co EXCEPT ![p] = [k |-> 0, S |-> 0]]
    BY <1>4, <1>10
  <2>2. co'[c] = co[c]
    BY <1>1, <2>1 DEF Typed, Shaped
  <2>3. /\ Passes(p, <<e>> \o More(p))
        /\ IF p = 1 THEN Goes(p, "co.S", 0) ELSE Goes(p, "u", 1)
    <3>1. CASE p = 1
      <4>1. Goes(p, "co.S", 0) /\ Passes(p, <<e>>)
        BY <2>1, <3>1 DEF After, First
      <4>2. <<e>> \o More(p) = <<e>>
        BY <3>1, OneAny, JoinNothing DEF More
      <4> QED
        BY <3>1, <4>1, <4>2
    <3>2. CASE p = 0
      BY <2>1, <3>2 DEF After, First, More
    <3> QED
      BY <1>1, <3>1, <3>2 DEF Side
  <2>4. IsSeq(<<e>> \o More(p)) /\ IsSeq(More(p))
    BY OneAny, ColumnsSeq, NothingAny, JoinAny DEF More
  <2>5. q'[p] = <<e>> \o More(p) /\ q'[c] = <<>>
    <3> DEFINE w == <<e>> \o More(p)
    <3> HIDE DEF w
    <3>1. IsSeq(w) /\ Passes(p, w)
      BY <2>3, <2>4 DEF w
    <3>2. q'[p] = <<>> \o w /\ q'[c] = Tail(<<Msg("co.R", n, R)>>)
      BY <1>1, <1>2, <1>7, <3>1, PassTo
    <3> QED
      BY <3>1, <3>2, JoinNothing, OneAny DEF w
  <2>6. Handed(p)' /\ pc'[c] = "co.e" /\ idx'[c] = n
    <3>1. CASE p = 1
      BY <1>1, <1>2, <2>3, <3>1, <1>0, GoTo DEF Handed
    <3>2. CASE p = 0
      BY <1>1, <1>2, <2>3, <3>2, <1>0, GoTo DEF Handed
    <3> QED
      BY <1>1, <3>1, <3>2 DEF Side
  <2>7. Answers(c, p, e)'
    BY <1>0, <1>4, <1>6, <2>2, <2>6 DEF Answers, CoKey
  <2>8. SeededTo(c, idx[c])'
    BY <1>8, <2>6 DEF SeededTo
  <2>9. q'[p] = <<e>> \o More(p)'
    BY <1>4, <2>5 DEF More
  <2> QED
    BY <1>2, <1>10, <2>5, <2>6, <2>7, <2>8, <2>9 DEF AtE, Silent
<1> QED
  BY <1>9, <1>10

\* The seed the receiver opens is the one it chose.
LEMMA SeedOpened ==
    ASSUME Typed, NEW c \in Side, AtE(c, Peer(c)), TakeE(c)
    PROVE  /\ base'[Peer(c)] = base[Peer(c)]
           /\ \A n : n = idx[c] + 1 => SeededTo(c, n)'
<1> DEFINE p == Peer(c)
<1>0. PICK n : n = idx[c]
  OBVIOUS
<1>1. p \in Side /\ p # c
  BY Sides
<1>2. PICK e :
        /\ Answers(c, p, e)
        /\ q[p] = <<e>> \/ q[p] = <<e>> \o More(p)
  BY DEF AtE
<1>3. n \in Col /\ SeededTo(c, n)
  BY <1>0 DEF AtE
<1>4. Got(c) = e.val
  <2>1. IsSeq(More(p)) /\ IsSeq(<<e>>) /\ Len(<<e>>) = 1 /\ <<e>>[1] = e
    BY OneAny, NothingAny, ColumnsSeq DEF More
  <2>2. IsSeq(<<e>> \o More(p)) /\ (<<e>> \o More(p))[1] = e
        /\ Len(<<e>> \o More(p)) = 1 + Len(More(p)) /\ Len(More(p)) \in Nat
    <3>1. Len(More(p)) \in Nat
      BY <2>1 DEF IsSeq
    <3> QED
      BY <2>1, <3>1, JoinAny
  <2>3. IsSeq(q[p]) /\ q[p][1] = e /\ q[p] # <<>>
    <3>1. CASE q[p] = <<e>>
      BY <2>1, <3>1
    <3>2. CASE q[p] = <<e>> \o More(p)
      <4> DEFINE w == <<e>> \o More(p)
      <4>1. IsSeq(w) /\ w[1] = e /\ Len(w) > 0
        BY <2>2
      <4> HIDE DEF w
      <4>2. w # <<>>
        BY <4>1, NothingAny
      <4> QED
        BY <3>2, <4>1, <4>2 DEF w
    <3> QED
      BY <1>2, <3>1, <3>2
  <2>4. Head(q[p]) = e
    BY <2>3, TailAny
  <2> QED
    BY <2>4 DEF Got
<1> DEFINE b == base[c].s[n]
<1>5. b \in Bit
  BY <1>3, Words
<1>6. e.val[b + 1] = Sealed(Seed(p, n, b), CoKey(c))
  BY <1>0, <1>2 DEF Answers
<1>7. Opened(Got(c)[b + 1], CoKey(c), {JunkSeed}) = {Seed(p, n, b)}
  BY <1>4, <1>6 DEF Opened, Sealed
<1>8. base' = [base EXCEPT ![c].kc[n] = Seed(p, n, b)]
  <2>1. \E seed \in Opened(Got(c)[b + 1], CoKey(c), {JunkSeed}) :
           base' = [base EXCEPT ![c].kc[n] = seed]
    BY <1>0 DEF TakeE
  <2> HIDE DEF b
  <2> QED
    BY <1>7, <2>1
<1>9. DOMAIN base = Side /\ BaseTyped(c)
  BY DEF Typed, Shaped
<1>10. /\ base'[p] = base[p]
       /\ base'[c] = [base[c] EXCEPT !.kc = [base[c].kc EXCEPT ![n]
                                                = Seed(p, n, b)]]
  BY <1>1, <1>8, <1>9
<1>11. /\ base'[c].kc = [base[c].kc EXCEPT ![n] = Seed(p, n, b)]
       /\ base'[c].s = base[c].s
  BY <1>9, <1>10 DEF BaseTyped
<1>12. DOMAIN base[c].kc = Col
  BY <1>9 DEF BaseTyped
<1>13. \A m \in Col : base'[c].kc[m] =
            IF m = n THEN Seed(p, n, b) ELSE base[c].kc[m]
  BY <1>11, <1>12
<1>14. \A m \in Col : base[c].kc[m] =
            IF m < n THEN Seed(p, m, base[c].s[m]) ELSE NoSeed
  BY <1>3 DEF SeededTo
<1>15. ASSUME NEW m \in Col
       PROVE  base'[c].kc[m] =
                IF m < n + 1 THEN Seed(p, m, base'[c].s[m]) ELSE NoSeed
  <2>1. m \in Int /\ n \in Int
    BY <1>3 DEF Col
  <2>2. m < n + 1 <=> m < n \/ m = n
    BY <2>1
  <2> QED
    BY <1>11, <1>13, <1>14, <2>1, <2>2
<1>16. SeededTo(c, n + 1)'
  BY <1>15 DEF SeededTo
<1> QED
  BY <1>0, <1>10, <1>16

LEMMA HalfTakeE ==
    ASSUME Typed, NEW c \in Side, AtE(c, Peer(c)), TakeE(c), idx[c] < ELL
    PROVE  AtR(c, Peer(c))'
<1> DEFINE p == Peer(c)
<1>0. PICK n : n = idx[c]
  OBVIOUS
<1>1. p \in Side /\ p # c
  BY Sides
<1>2. PICK e : q[p] = <<e>>
  BY DEF AtE
<1>3. /\ n \in Col /\ q[c] = <<>> /\ n < ELL
      /\ pc[p] = "co.R" /\ idx[p] = n + 1
      /\ Secret(p) /\ co[c].S = co[p].S
  BY <1>0 DEF AtE, Silent
<1>4. PICK x \in Scalar :
        /\ co' = [co EXCEPT ![c].k = x]
        /\ Goes(c, "co.e", n + 1)
        /\ Passes(c, <<Blind(c, n + 1, x, co[c].S)>>)
  BY <1>0, <1>3 DEF TakeE
<1>5. /\ co'[c].k = x /\ co'[c].S = co[c].S /\ co'[p] = co[p]
  <2>1. DOMAIN co = Side /\ {"k", "S"} \subseteq DOMAIN co[c]
    BY DEF Typed, Shaped
  <2>2. co'[p] = co[p] /\ co'[c] = [co[c] EXCEPT !.k = x]
    BY <1>1, <1>4, <2>1
  <2> QED
    BY <2>1, <2>2
<1> DEFINE m == Blind(c, n + 1, x, co[c].S)
<1>6. Passes(c, <<m>>)
  BY <1>4
<1>7. pc'[c] = "co.e" /\ idx'[c] = n + 1 /\ pc'[p] = "co.R"
      /\ idx'[p] = n + 1
  BY <1>3, <1>4, GoTo
<1>8. m = Msg("co.R", n + 1, Point(c, idx[c])')
  BY <1>5, <1>7 DEF Blind, Point
<1> HIDE DEF m
<1>9. q'[c] = <<m>> /\ q'[p] = <<>>
  BY <1>2, <1>3, <1>6, OneQueue
<1>10. n + 1 \in Col
  BY <1>3, OTAssumption DEF Col
<1>11. SeededTo(c, idx[c])'
  <2>1. SeededTo(c, n + 1)'
    BY <1>0, SeedOpened
  <2> QED
    BY <1>7, <2>1 DEF SeededTo
<1>12. Secret(p)' /\ co'[c].S = co'[p].S /\ co'[c].k \in Scalar
  BY <1>3, <1>5 DEF Secret
<1>13. q'[c] = <<Msg("co.R", idx'[c], Point(c, idx[c])')>>
  BY <1>7, <1>8, <1>9
<1> QED
  BY <1>7, <1>9, <1>10, <1>11, <1>12, <1>13 DEF AtR, Silent

LEMMA HalfOver ==
    ASSUME Typed, NEW c \in Side, AtE(c, Peer(c)), TakeE(c), ~ (idx[c] < ELL)
    PROVE  /\ Seeded(c)' /\ Handed(Peer(c))'
           /\ q'[Peer(c)] = More(Peer(c)) /\ UNCHANGED <<op, last, ands>>
           /\ c = 0 => q'[c] = <<>> /\ pc'[c] = "sendS" /\ idx'[c] = 0
           /\ c = 1 => q'[c] = Columns(c, op[c].a) /\ pc'[c] = "u"
                       /\ idx'[c] = 1
<1> DEFINE p == Peer(c)
<1>1. p \in Side /\ p # c
  BY Sides
<1>2. PICK e : q[p] = <<e>> \o More(p)
  BY DEF AtE
<1>3. Handed(p) /\ q[c] = <<>> /\ idx[c] = ELL
  <2>1. idx[c] \in Col /\ Handed(p) /\ q[c] = <<>>
    BY DEF AtE, Silent
  <2> QED
    BY <2>1, OTAssumption DEF Col
<1>4. After(c, "co.S", <<>>) /\ UNCHANGED <<op, last, ands>>
  BY DEF TakeE
<1>5. IsSeq(More(p)) /\ IsSeq(<<e>>) /\ Len(<<e>>) = 1
      /\ IsSeq(Columns(c, op[c].a))
  BY OneAny, NothingAny, ColumnsSeq DEF More
<1>6. q[p] # <<>> /\ Tail(q[p]) = More(p)
  <2> DEFINE M == More(p)
             w == <<e>> \o M
  <2>1. IsSeq(w) /\ Len(w) = 1 + Len(M) /\ IsSeq(M) /\ Len(M) \in Nat
        /\ \A m \in 1 .. Len(M) : w[1 + m] = M[m]
    <3>1. IsSeq(M) /\ Len(M) \in Nat
      BY <1>5 DEF IsSeq
    <3> HIDE DEF M
    <3> QED
      BY <1>5, <3>1, JoinAny
  <2> HIDE DEF M, w
  <2>2. w # <<>>
    BY <2>1, NothingAny
  <2>3. IsSeq(Tail(w)) /\ Len(Tail(w)) = Len(M)
        /\ \A m \in 1 .. Len(Tail(w)) : Tail(w)[m] = w[m + 1]
    BY <2>1, <2>2, TailAny
  <2>4. \A m \in 1 .. Len(M) : Tail(w)[m] = M[m]
    <3>1. \A m \in 1 .. Len(M) : m + 1 = 1 + m
      OBVIOUS
    <3> QED
      BY <2>1, <2>3, <3>1
  <2>5. Tail(w) = M
    BY <2>1, <2>3, <2>4 DEF IsSeq
  <2> QED
    BY <1>2, <2>2, <2>5 DEF w, M
<1>7. Seeded(c)'
  <2>1. SeededTo(c, ELL + 1)'
    BY <1>3, SeedOpened
  <2> QED
    BY <2>1 DEF Seeded
<1>8. \A t, n : Goes(c, t, n) =>
         /\ pc'[c] = t /\ idx'[c] = n /\ Handed(p)'
  <2>1. \A t, n : Goes(c, t, n) =>
           /\ pc'[c] = t /\ idx'[c] = n /\ pc'[p] = pc[p] /\ idx'[p] = idx[p]
    BY GoTo
  <2> QED
    BY <1>1, <1>3, <2>1 DEF Handed, Side
<1>9. CASE c = 0
  <2>1. Goes(c, "sendS", 0) /\ Passes(c, <<>>)
    BY <1>4, <1>9 DEF After, First
  <2>2. q'[c] = <<>> \o <<>> /\ q'[p] = Tail(q[p])
    BY <1>3, <1>6, <2>1, NothingAny, PassTo
  <2> QED
    BY <1>4, <1>6, <1>7, <1>8, <1>9, <2>1, <2>2, NothingAny, JoinNothing
<1>10. CASE c = 1
  <2> DEFINE C == Columns(c, op[c].a)
  <2>1. Goes(c, "u", 1) /\ Passes(c, <<>> \o C)
    BY <1>4, <1>10 DEF After, First
  <2>2. Passes(c, C) /\ IsSeq(C) /\ <<>> \o C = C
    BY <1>5, <2>1, JoinNothing
  <2> HIDE DEF C
  <2>3. q'[c] = C /\ q'[p] = Tail(q[p])
    BY <1>3, <1>6, <2>2, PassTo
  <2> QED
    BY <1>4, <1>6, <1>7, <1>8, <1>10, <2>1, <2>3 DEF C
<1> QED
  BY <1>9, <1>10 DEF Side

-----------------------------------------------------------------------------
(***************************************************************************)
(* The stages up to the first AND.                                         *)
(***************************************************************************)
LEMMA StepWhere ==
    ASSUME NEW s \in Side, Step(s)
    PROVE  \/ pc[s] = "idle" /\ Enter(s)
           \/ pc[s] = "sendS" /\ SendS(s)
           \/ pc[s] = "co.R" /\ q[Peer(s)] # <<>> /\ AnswerR(s)
           \/ pc[s] = "co.S" /\ q[Peer(s)] # <<>> /\ TakeS(s)
           \/ pc[s] = "co.e" /\ q[Peer(s)] # <<>> /\ TakeE(s)
           \/ pc[s] = "u" /\ q[Peer(s)] # <<>> /\ TakeU(s)
           \/ pc[s] = "e0" /\ q[Peer(s)] # <<>> /\ TakeE0(s)
           \/ pc[s] = "e1" /\ q[Peer(s)] # <<>> /\ Finish(s)
<1>1. CASE Enter(s)
  BY <1>1 DEF Enter
<1>2. CASE SendS(s)
  BY <1>2 DEF SendS
<1>3. CASE AnswerR(s)
  BY <1>3 DEF AnswerR, Takes
<1>4. CASE TakeS(s)
  BY <1>4 DEF TakeS, Takes
<1>5. CASE TakeE(s)
  BY <1>5 DEF TakeE, Takes
<1>6. CASE TakeU(s)
  BY <1>6 DEF TakeU, Takes
<1>7. CASE TakeE0(s)
  BY <1>7 DEF TakeE0, Takes
<1>8. CASE Finish(s)
  BY <1>8 DEF Finish, Takes
<1> QED
  BY <1>1, <1>2, <1>3, <1>4, <1>5, <1>6, <1>7, <1>8 DEF Step

LEMMA StepTyped ==
    ASSUME Typed, NEW s \in Side, Step(s)
    PROVE  Typed' /\ (~ Finish(s) => UNCHANGED <<last, ands>>)
<1>1. CASE Enter(s)
  BY <1>1, EnterTyped DEF Enter
<1>2. CASE SendS(s)
  BY <1>2, SendTyped DEF SendS
<1>3. CASE AnswerR(s)
  BY <1>3, AnswerTyped DEF AnswerR
<1>4. CASE TakeS(s)
  BY <1>4, TakeSTyped DEF TakeS
<1>5. CASE TakeE(s)
  BY <1>5, TakeETyped DEF TakeE
<1>6. CASE TakeU(s)
  BY <1>6, TakeUTyped DEF TakeU
<1>7. CASE TakeE0(s)
  BY <1>7, TakeE0Typed DEF TakeE0
<1>8. CASE Finish(s)
  BY <1>8, FinishTyped
<1> QED
  BY <1>1, <1>2, <1>3, <1>4, <1>5, <1>6, <1>7, <1>8 DEF Step

LEMMA AndKept ==
    ASSUME AndCorrect, UNCHANGED <<last, ands>>
    PROVE  AndCorrect'
BY DEF AndCorrect

LEMMA FreshKept ==
    ASSUME Fresh, UNCHANGED <<op, ands>>
    PROVE  Fresh'
BY DEF Fresh

LEMMA SeedsKept ==
    ASSUME NEW s \in Side, base'[s] = base[s]
    PROVE  (Unseeded(s)' <=> Unseeded(s)) /\ (Seeded(s)' <=> Seeded(s))
BY DEF Unseeded, Seeded, SeededTo

LEMMA UnseededIs ==
    ASSUME Typed, NEW s \in Side
    PROVE  /\ Unseeded(s) => base[s].kc = NoSeeds
           /\ Seeded(s) => base[s].kc # NoSeeds
<1>1. base[s].kc = [n \in Col |-> base[s].kc[n]]
  BY DEF Typed, BaseTyped
<1>2. ASSUME Unseeded(s), NEW n \in Col PROVE base[s].kc[n] = NoSeed
  <2>1. ~ (n < 1)
    BY DEF Col
  <2> QED
    BY <1>2, <2>1 DEF Unseeded, SeededTo
<1>3. 1 \in Col /\ 1 < ELL + 1
  BY OTAssumption DEF Col
<1>4. ASSUME Seeded(s) PROVE base[s].kc[1] # NoSeed
  <2>1. base[s].kc[1] = Seed(Peer(s), 1, base[s].s[1])
    BY <1>3, <1>4 DEF Seeded, SeededTo
  <2> QED
    BY <2>1, Sides DEF Seed, NoSeed, Side
<1>5. NoSeeds[1] = NoSeed
  BY <1>3 DEF NoSeeds
<1> QED
  BY <1>1, <1>2, <1>4, <1>5 DEF NoSeeds

LEMMA EnterEarly ==
    ASSUME Typed, Fresh, NEW s \in Side, Unseeded(s), Enter(s)
    PROVE  /\ Fresh' /\ UNCHANGED <<q, base, co>>
           /\ pc'[s] = First(s) /\ idx'[s] = 0
           /\ pc'[Peer(s)] = pc[Peer(s)] /\ idx'[Peer(s)] = idx[Peer(s)]
<1>1. base[s].kc = NoSeeds
  BY UnseededIs
<1>2. Goes(s, First(s), 0) /\ UNCHANGED <<q, base, co, last, ands>>
  BY <1>1 DEF Enter
<1>3. op'[s].U = <<>> /\ op'[Peer(s)] = op[Peer(s)]
  BY EnterTyped
<1>4. Fresh'
  BY <1>2, <1>3, Sides DEF Fresh
<1> QED
  BY <1>2, <1>4, GoTo

LEMMA StartStep ==
    ASSUME Typed, Start, NEW s \in Side, Step(s)
    PROVE  Start' \/ FirstHalf'
<1>1. Fresh /\ Unseeded(0) /\ Unseeded(1) /\ q[0] = <<>> /\ q[1] = <<>>
  BY DEF Start, Silent
<1>2. s = 0 \/ s = 1
  BY DEF Side
<1>3. q[Peer(s)] = <<>>
  BY <1>1, <1>2, Sides
<1>4. CASE s = 0
  <2>1. pc[0] = "idle" /\ Enter(0)
    BY <1>3, <1>4, StepWhere DEF Start
  <2>2. /\ Fresh' /\ UNCHANGED <<q, base, co>>
        /\ pc'[0] = "co.S" /\ idx'[0] = 0 /\ pc'[1] = pc[1]
    BY <1>1, <1>4, <2>1, EnterEarly, Sides DEF First
  <2>3. Unseeded(0)' /\ Unseeded(1)'
    BY <1>1, <2>2, Sides, SeedsKept
  <2> QED
    BY <1>1, <2>2, <2>3 DEF Start, Silent
<1>5. CASE s = 1 /\ Enter(1)
  <2>2. /\ Fresh' /\ UNCHANGED <<q, base, co>>
        /\ pc'[1] = "sendS" /\ pc'[0] = pc[0] /\ idx'[0] = idx[0]
    BY <1>1, <1>5, EnterEarly, Sides DEF First
  <2>3. Unseeded(0)' /\ Unseeded(1)'
    BY <1>1, <2>2, Sides, SeedsKept
  <2> QED
    BY <1>1, <2>2, <2>3 DEF Start, Silent
<1>6. CASE s = 1 /\ SendS(1)
  <2>1. PICK y \in Scalar :
          /\ co' = [co EXCEPT ![1] = [k |-> y, S |-> y]]
          /\ q' = [q EXCEPT ![1] = Append(@, Msg("co.S", 0, y))]
    BY <1>6 DEF SendS
  <2>2. DOMAIN co = Side /\ DOMAIN q = Side
    BY DEF Typed, Shaped
  <2>3. co'[1].k = y /\ co'[1].S = y
    BY <2>1, <2>2, Sides
  <2>4. q'[1] = <<Msg("co.S", 0, y)>> /\ q'[0] = <<>>
    <3>1. q'[1] = Append(q[1], Msg("co.S", 0, y)) /\ q'[0] = q[0]
      BY <2>1, <2>2, Sides
    <3> QED
      BY <1>1, <3>1
  <2>5. UNCHANGED <<base, op, last, ands>> /\ Goes(1, "co.R", 1)
    BY <1>6 DEF SendS
  <2>6. Fresh' /\ Unseeded(0)' /\ Unseeded(1)'
    BY <1>1, <2>5, FreshKept, Sides, SeedsKept
  <2>7. pc'[1] = "co.R" /\ idx'[1] = 1 /\ pc'[0] = pc[0] /\ idx'[0] = idx[0]
    BY <1>6, <2>5, Sides, GoTo
  <2>8. AtS(0, 1)'
    BY <2>3, <2>4, <2>6, <2>7 DEF AtS, Silent, Secret
  <2> QED
    BY <2>6, <2>7, <2>8 DEF Start, FirstHalf
<1>7. s = 1 => Enter(1) \/ SendS(1)
  BY <1>3, StepWhere DEF Start
<1> QED
  BY <1>2, <1>4, <1>5, <1>6, <1>7

LEMMA FirstHalfStep ==
    ASSUME Typed, FirstHalf, NEW s \in Side, Step(s)
    PROVE  FirstHalf' \/ Middle'
<1>1. Fresh /\ Unseeded(1)
  BY DEF FirstHalf
<1>2. s = 0 \/ s = 1
  BY DEF Side
<1>3. CASE /\ AtS(0, 1)
           /\ \/ pc[0] = "idle"
              \/ pc[0] = "co.S" /\ idx[0] = 0
  <2>1. pc[1] = "co.R" /\ q[0] = <<>> /\ Unseeded(0)
    BY <1>3 DEF AtS, Silent
  <2>2. s = 0
    BY <1>2, <2>1, Sides, StepWhere
  <2>3. CASE pc[0] = "idle"
    <3>1. Enter(0)
      BY <2>2, <2>3, StepWhere
    <3>2. /\ Fresh' /\ UNCHANGED <<q, base, co>>
          /\ pc'[0] = "co.S" /\ idx'[0] = 0
          /\ pc'[1] = pc[1] /\ idx'[1] = idx[1]
      BY <1>1, <2>1, <2>2, <3>1, EnterEarly, Sides DEF First
    <3>3. Unseeded(0)' /\ Unseeded(1)'
      BY <1>1, <2>1, <3>2, Sides, SeedsKept
    <3>4. AtS(0, 1)'
      BY <1>3, <3>2, <3>3 DEF AtS, Silent, Secret
    <3> QED
      BY <3>2, <3>3, <3>4 DEF FirstHalf
  <2>4. CASE pc[0] = "co.S"
    <3>1. TakeS(0)
      BY <2>2, <2>4, StepWhere
    <3>2. AtR(0, 1)' /\ base'[1] = base[1]
      BY <1>3, <2>4, <3>1, HalfTakeS, Sides
    <3>3. UNCHANGED <<op, ands>>
      BY <3>1 DEF TakeS
    <3>4. Fresh' /\ Unseeded(1)'
      BY <1>1, <3>2, <3>3, FreshKept, Sides, SeedsKept
    <3> QED
      BY <3>2, <3>4 DEF FirstHalf
  <2> QED
    BY <1>3, <2>3, <2>4
<1>4. CASE AtR(0, 1)
  <2>1. pc[1] = "co.R" /\ pc[0] = "co.e" /\ q[1] = <<>>
    BY <1>4 DEF AtR, Silent
  <2>2. s = 1 /\ AnswerR(1)
    BY <1>2, <2>1, Sides, StepWhere
  <2>3. AtE(0, 1)'
    BY <1>4, <2>2, HalfAnswer, Sides
  <2>4. UNCHANGED <<op, ands, base>>
    BY <2>2 DEF AnswerR
  <2>5. Fresh' /\ Unseeded(1)'
    BY <1>1, <2>4, FreshKept, Sides, SeedsKept
  <2> QED
    BY <2>3, <2>5 DEF FirstHalf
<1>5. CASE AtE(0, 1)
  <2>1. pc[0] = "co.e" /\ q[0] = <<>>
    BY <1>5 DEF AtE, Silent
  <2>2. pc[1] = "co.R" \/ pc[1] = "co.S"
    BY <1>5 DEF AtE, Handed
  <2>3. s = 0 /\ TakeE(0)
    BY <1>2, <2>1, <2>2, Sides, StepWhere
  <2>4. UNCHANGED <<op, ands>> /\ base'[1] = base[1]
    BY <1>5, <2>3, SeedOpened, Sides DEF TakeE
  <2>5. Fresh' /\ Unseeded(1)'
    BY <1>1, <2>4, FreshKept, Sides, SeedsKept
  <2>6. CASE idx[0] < ELL
    <3>1. AtR(0, 1)'
      BY <1>5, <2>3, <2>6, HalfTakeE, Sides
    <3> QED
      BY <2>5, <3>1 DEF FirstHalf
  <2>7. CASE ~ (idx[0] < ELL)
    <3>1. /\ Seeded(0)' /\ Handed(1)' /\ q'[1] = More(1)
          /\ q'[0] = <<>> /\ pc'[0] = "sendS"
      BY <1>5, <2>3, <2>7, HalfOver, Sides
    <3> QED
      BY <2>5, <3>1 DEF Middle, Silent, Handed, More
  <2> QED
    BY <2>6, <2>7
<1> QED
  BY <1>3, <1>4, <1>5 DEF FirstHalf

LEMMA MiddleStep ==
    ASSUME Typed, Middle, NEW s \in Side, Step(s)
    PROVE  SecondHalf'
<1>1. /\ Fresh /\ Seeded(0) /\ Unseeded(1) /\ q[0] = <<>> /\ q[1] = <<>>
      /\ pc[0] = "sendS" /\ pc[1] = "co.S" /\ idx[1] = 0
  BY DEF Middle, Silent
<1>2. s = 0 /\ SendS(0)
  BY <1>1, Sides, StepWhere DEF Side
<1>3. PICK y \in Scalar :
        /\ co' = [co EXCEPT ![0] = [k |-> y, S |-> y]]
        /\ q' = [q EXCEPT ![0] = Append(@, Msg("co.S", 0, y))]
  BY <1>2 DEF SendS
<1>4. DOMAIN co = Side /\ DOMAIN q = Side
  BY DEF Typed, Shaped
<1>5. co'[0].k = y /\ co'[0].S = y
  BY <1>3, <1>4, Sides
<1>6. q'[0] = <<Msg("co.S", 0, y)>> /\ q'[1] = <<>>
  BY <1>1, <1>2, <1>3, <1>4, Sides
<1>7. UNCHANGED <<base, op, last, ands>> /\ Goes(0, "co.R", 1)
  BY <1>2 DEF SendS
<1>8. Fresh' /\ Seeded(0)' /\ Unseeded(1)'
  BY <1>1, <1>7, FreshKept, Sides, SeedsKept
<1>9. pc'[0] = "co.R" /\ idx'[0] = 1 /\ pc'[1] = pc[1] /\ idx'[1] = idx[1]
  BY <1>2, <1>7, Sides, GoTo
<1>10. AtS(1, 0)'
  BY <1>5, <1>6, <1>8, <1>9 DEF AtS, Silent, Secret
<1> QED
  BY <1>1, <1>8, <1>9, <1>10 DEF SecondHalf

FirstRound ==
    /\ Typed /\ Fresh /\ Seeded(0) /\ Seeded(1)
    /\ \A s \in Side : /\ pc[s] = "u" /\ idx[s] = 1
                       /\ q[s] = Columns(s, op[s].a)

LEMMA RoundsBegin == FirstRound => Rounds
<1> SUFFICES ASSUME FirstRound PROVE Rounds
  OBVIOUS
<1>0. /\ Typed /\ Fresh /\ Seeded(0) /\ Seeded(1)
      /\ \A s \in Side : /\ pc[s] = "u" /\ idx[s] = 1
                         /\ q[s] = Columns(s, op[s].a)
  BY DEF FirstRound
<1>1. \A s \in Side : ands[s] = 0 /\ op[s].U = <<>>
  BY <1>0 DEF Fresh
<1>2. ELL \in Nat \ {0} /\ 1 \in Col
  BY OTAssumption DEF Col
<1>3. \A s \in Side : Lead(s) = 0 /\ Rcvd(s) = 0 /\ Put(s) = ELL
  <2>1. \A s \in Side : ~ Ahead(s)
    BY <1>1, Sides DEF Ahead
  <2> QED
    BY <1>0, <2>1 DEF Lead, Rcvd, Put
<1>4. ASSUME NEW s \in Side, NEW p \in Side, p = Peer(s)
      PROVE  Flow(s, p) /\ Local(s, p)
  <2>1. /\ Len(q[s]) = ELL
        /\ \A n \in Col : q[s][n] = Msg("u", n, Column(s, n, op[s].a))
    BY <1>0, ColumnsSeq
  <2>2. ASSUME NEW n \in Col PROVE Stream(s, 0 + 0 + n) = q[s][n]
    <3>1. n - 0 = n /\ 0 + 0 + n = n /\ n # ELL + 1 /\ n # ELL + 2
      BY <1>2 DEF Col
    <3> QED
      BY <1>3, <2>1, <3>1 DEF Stream
  <2>3. Flow(s, p)
    <3>1. Len(q[s]) = (Put(s) + Lead(s)) - (Rcvd(p) + Lead(p))
      BY <1>2, <1>3, <2>1
    <3>2. \A n \in 1 .. Len(q[s]) :
              q[s][n] = Stream(s, Rcvd(p) + Lead(p) + n)
      BY <1>3, <2>1, <2>2 DEF Col
    <3> QED
      BY <3>1, <3>2 DEF Flow
  <2>4. Local(s, p)
    BY <1>0, <1>1, <1>2, NothingAny DEF Local
  <2> QED
    BY <2>3, <2>4
<1> QED
  BY <1>0, <1>4 DEF Rounds, Side, Peer

LEMMA RoundsBeginNext == FirstRound' => Rounds'
BY RoundsBegin, PTL

LEMMA SecondHalfStep ==
    ASSUME Typed, SecondHalf, NEW s \in Side, Step(s)
    PROVE  SecondHalf' \/ Rounds'
<1>1. Fresh /\ Seeded(0)
  BY DEF SecondHalf
<1>2. s = 0 \/ s = 1
  BY DEF Side
<1>3. CASE AtS(1, 0) /\ pc[1] = "co.S" /\ idx[1] = 0
  <2>1. pc[0] = "co.R" /\ q[1] = <<>>
    BY <1>3 DEF AtS, Silent
  <2>2. s = 1 /\ TakeS(1)
    BY <1>2, <1>3, <2>1, Sides, StepWhere
  <2>3. AtR(1, 0)' /\ base'[0] = base[0]
    BY <1>3, <2>2, HalfTakeS, Sides
  <2>4. UNCHANGED <<op, ands>>
    BY <2>2 DEF TakeS
  <2>5. Fresh' /\ Seeded(0)'
    BY <1>1, <2>3, <2>4, FreshKept, Sides, SeedsKept
  <2> QED
    BY <2>3, <2>5 DEF SecondHalf
<1>4. CASE AtR(1, 0)
  <2>1. pc[0] = "co.R" /\ pc[1] = "co.e" /\ q[0] = <<>>
    BY <1>4 DEF AtR, Silent
  <2>2. s = 0 /\ AnswerR(0)
    BY <1>2, <2>1, Sides, StepWhere
  <2>3. AtE(1, 0)'
    BY <1>4, <2>2, HalfAnswer, Sides
  <2>4. UNCHANGED <<op, ands, base>>
    BY <2>2 DEF AnswerR
  <2>5. Fresh' /\ Seeded(0)'
    BY <1>1, <2>4, FreshKept, Sides, SeedsKept
  <2> QED
    BY <2>3, <2>5 DEF SecondHalf
<1>5. CASE AtE(1, 0)
  <2>1. pc[1] = "co.e" /\ q[1] = <<>>
    BY <1>5 DEF AtE, Silent
  <2>2. pc[0] = "co.R" \/ pc[0] = "u"
    BY <1>5 DEF AtE, Handed
  <2>3. s = 1 /\ TakeE(1)
    BY <1>2, <2>1, <2>2, Sides, StepWhere
  <2>4. UNCHANGED <<op, ands>> /\ base'[0] = base[0]
    BY <1>5, <2>3, SeedOpened, Sides DEF TakeE
  <2>5. Fresh' /\ Seeded(0)'
    BY <1>1, <2>4, FreshKept, Sides, SeedsKept
  <2>6. CASE idx[1] < ELL
    <3>1. AtR(1, 0)'
      BY <1>5, <2>3, <2>6, HalfTakeE, Sides
    <3> QED
      BY <2>5, <3>1 DEF SecondHalf
  <2>7. CASE ~ (idx[1] < ELL)
    <3>1. /\ Seeded(1)' /\ Handed(0)' /\ q'[0] = More(0)
          /\ q'[1] = Columns(1, op[1].a) /\ pc'[1] = "u" /\ idx'[1] = 1
      BY <1>5, <2>3, <2>7, HalfOver, Sides
    <3>2. \A r \in Side : /\ pc'[r] = "u" /\ idx'[r] = 1
                          /\ q'[r] = Columns(r, op'[r].a)
      BY <2>4, <3>1 DEF Handed, More, Side
    <3>3. Typed'
      BY StepTyped
    <3>4. Rounds'
      BY <2>5, <3>1, <3>2, <3>3, RoundsBeginNext DEF FirstRound
    <3> QED
      BY <3>4
  <2> QED
    BY <2>6, <2>7
<1> QED
  BY <1>3, <1>4, <1>5 DEF SecondHalf

-----------------------------------------------------------------------------
(***************************************************************************)
(* The rounds.                                                             *)
(***************************************************************************)
LEMMA RoundsAt ==
    ASSUME NEW s \in Side
    PROVE  Rounds <=> /\ Seeded(s) /\ Seeded(Peer(s))
                      /\ Flow(s, Peer(s)) /\ Flow(Peer(s), s)
                      /\ Local(s, Peer(s)) /\ Local(Peer(s), s)
<1>1. CASE s = 0
  BY <1>1, Sides DEF Rounds
<1>2. CASE s = 1
  BY <1>2, Sides DEF Rounds
<1> QED
  BY <1>1, <1>2 DEF Side

LEMMA RoundsMake ==
    ASSUME NEW s \in Side, NEW p \in Side, p = Peer(s),
           Seeded(s)', Seeded(p)', Flow(s, p)', Flow(p, s)',
           Local(s, p)', Local(p, s)'
    PROVE  Rounds'
<1>1. CASE s = 0
  BY <1>1, Sides DEF Rounds
<1>2. CASE s = 1
  BY <1>2, Sides DEF Rounds
<1> QED
  BY <1>1, <1>2 DEF Side

\* How far a side is in its AND.
Progress(s) ==
    \/ pc[s] = "idle" /\ Rcvd(s) = 0 /\ Put(s) = 0
    \/ pc[s] = "u" /\ idx[s] \in Col /\ Rcvd(s) = idx[s] - 1 /\ Put(s) = ELL
    \/ pc[s] = "e0" /\ Rcvd(s) = ELL /\ Put(s) = All
    \/ pc[s] = "e1" /\ Rcvd(s) = ELL + 1 /\ Put(s) = All

LEMMA LocalProgress ==
    ASSUME NEW s, NEW p, Local(s, p)
    PROVE  Progress(s)
<1>1. CASE pc[s] = "idle"
  BY <1>1 DEF Progress, Rcvd, Put
<1>2. CASE pc[s] = "u" /\ idx[s] \in Col
  BY <1>2 DEF Progress, Rcvd, Put
<1>3. CASE pc[s] = "e0"
  BY <1>3 DEF Progress, Rcvd, Put
<1>4. CASE pc[s] = "e1"
  BY <1>4 DEF Progress, Rcvd, Put
<1> QED
  BY <1>1, <1>2, <1>3, <1>4 DEF Local

LEMMA Numbers ==
    /\ ELL \in Nat \ {0} /\ All \in Nat /\ All = ELL + 2
    /\ \A s : Lead(s) = (IF Ahead(s) THEN All ELSE 0)
BY OTAssumption DEF All, Lead

\* A side that is ahead has received nothing yet; the other one has all its
\* columns and waits for its payloads.
LEMMA AheadOf ==
    ASSUME Typed, Rounds, NEW s \in Side, NEW p \in Side, p = Peer(s)
    PROVE  /\ Progress(s) /\ Progress(p) /\ Len(q[s]) \in Nat
           /\ Len(q[s]) = (Put(s) + Lead(s)) - (Rcvd(p) + Lead(p))
           /\ ~ (Ahead(s) /\ Ahead(p))
           /\ Ahead(s) => /\ pc[p] \in {"e0", "e1"} /\ Rcvd(s) = 0
                          /\ q[p] = <<>> /\ ands[s] = ands[p] + 1
           /\ ~ Ahead(s) /\ ~ Ahead(p) => ands[s] = ands[p]
<1>1. Flow(s, p) /\ Flow(p, s) /\ Local(s, p) /\ Local(p, s)
  BY RoundsAt
<1>2. Progress(s) /\ Progress(p)
  BY <1>1, LocalProgress
<1>3. Len(q[s]) \in Nat /\ Len(q[p]) \in Nat /\ IsSeq(q[p])
  BY DEF Typed, IsSeq
<1>4. ands[s] \in Nat /\ ands[p] \in Nat /\ ands[s] <= ands[p] + 1
      /\ ands[p] <= ands[s] + 1
  BY <1>1 DEF Typed, Shaped, Local
<1>5. (Ahead(s) <=> ands[s] > ands[p]) /\ (Ahead(p) <=> ands[p] > ands[s])
  BY Sides DEF Ahead
<1>6. /\ Len(q[s]) = (Put(s) + Lead(s)) - (Rcvd(p) + Lead(p))
      /\ Len(q[p]) = (Put(p) + Lead(p)) - (Rcvd(s) + Lead(s))
  BY <1>1 DEF Flow
<1>7. ~ (Ahead(s) /\ Ahead(p))
      /\ (~ Ahead(s) /\ ~ Ahead(p) => ands[s] = ands[p])
  BY <1>4, <1>5
<1>8. ASSUME Ahead(s)
      PROVE  /\ pc[p] \in {"e0", "e1"} /\ Rcvd(s) = 0
             /\ q[p] = <<>> /\ ands[s] = ands[p] + 1
  <2>1. Lead(s) = All /\ Lead(p) = 0
    BY <1>7, <1>8, Numbers
  <2>2. Len(q[p]) = Put(p) - (Rcvd(s) + All)
    <3>1. Len(q[p]) = (Put(p) + 0) - (Rcvd(s) + All)
      BY <1>6, <2>1
    <3>2. Put(p) \in Int
      BY <1>2, Numbers DEF Progress
    <3> QED
      BY <3>1, <3>2
  <2>3. Put(p) = All /\ Rcvd(s) = 0
    <3>1. Put(p) \in {0, ELL, All} /\ Rcvd(s) \in Nat
      BY <1>2, Numbers DEF Progress, Col
    <3> QED
      BY <1>3, <2>2, <3>1, Numbers
  <2>4. pc[p] \in {"e0", "e1"}
    BY <1>2, <2>3, Numbers DEF Progress
  <2>5. Len(q[p]) = 0
    BY <2>2, <2>3, Numbers
  <2> QED
    BY <1>3, <1>4, <1>5, <1>8, <2>3, <2>4, <2>5, EmptyAny
<1> QED
  BY <1>2, <1>3, <1>6, <1>7, <1>8

\* The streams do not change with what a side receives.
LEMMA StreamKept ==
    ASSUME UNCHANGED <<base, last, ands>>,
           \A t \in Side : \A f \in {"a", "b", "r"} : op'[t][f] = op[t][f],
           NEW s \in Side
    PROVE  /\ \A n : Stream(s, n)' = Stream(s, n)
           /\ Pay0(s)' = Pay0(s) /\ Lead(s)' = Lead(s)
<1>1. Peer(s) \in Side
  BY Sides
<1>2. /\ op'[s].a = op[s].a /\ op'[s].b = op[s].b /\ op'[s].r = op[s].r
      /\ op'[Peer(s)].a = op[Peer(s)].a /\ op'[Peer(s)].b = op[Peer(s)].b
      /\ op'[Peer(s)].r = op[Peer(s)].r
  BY <1>1
<1>3. (Ahead(s)' <=> Ahead(s)) /\ Lead(s)' = Lead(s)
  BY DEF Ahead, Lead
<1>4. \A j : MaskOf(s, j)' = MaskOf(s, j) /\ ShareOf(s, j)' = ShareOf(s, j)
  BY <1>2, <1>3 DEF MaskOf, ShareOf
<1>5. \A j : Row0(s, j)' = Row0(s, j) /\ Row1(s, j)' = Row1(s, j)
  BY <1>2 DEF Row0, Row1, RowFor
<1>6. Pay0(s)' = Pay0(s) /\ Pay1(s)' = Pay1(s)
  BY <1>4, <1>5 DEF Pay0, Pay1
<1> QED
  BY <1>2, <1>3, <1>6 DEF Stream

\* Receiving moves a slice on by one, sending extends it.
LEMMA FlowTail ==
    ASSUME NEW s \in Side, NEW p \in Side, IsSeq(q[p]), q[p] # <<>>,
           Flow(p, s), q'[p] = Tail(q[p]),
           NEW from \in Nat, from = Rcvd(s) + Lead(s),
           Rcvd(s)' + Lead(s)' = from + 1,
           NEW to \in Nat, to = Put(p) + Lead(p),
           Put(p)' + Lead(p)' = to,
           \A n \in from + 1 .. to : Stream(p, n)' = Stream(p, n)
    PROVE  Flow(p, s)' /\ from + 1 <= to /\ Head(q[p]) = Stream(p, from + 1)
<1>1. /\ Len(q[p]) = to - from
      /\ \A n \in 1 .. Len(q[p]) : q[p][n] = Stream(p, from + n)
  BY DEF Flow
<1>2. /\ Len(q[p]) \in Nat \ {0} /\ Head(q[p]) = q[p][1]
      /\ Len(Tail(q[p])) = Len(q[p]) - 1
      /\ \A n \in 1 .. Len(Tail(q[p])) : Tail(q[p])[n] = q[p][n + 1]
  BY TailAny
<1>3. Len(q'[p]) = to - (from + 1)
  BY <1>1, <1>2
<1>4. ASSUME NEW n \in 1 .. Len(q'[p])
      PROVE  q'[p][n] = Stream(p, from + 1 + n)'
  <2> DEFINE m == n + 1
             k == from + 1 + n
  <2> PICK l \in Nat : l = Len(q[p])
    BY <1>2
  <2>0. /\ l = to - from /\ n \in 1 .. l - 1
        /\ from \in Nat /\ to \in Nat /\ l \in Nat
    BY <1>1, <1>2, <1>3
  <2>a. n + 1 \in 1 .. l /\ from + 1 + n = from + (n + 1)
        /\ from + 1 + n \in from + 1 .. to
    BY ONLY <2>0
  <2>b. m = n + 1 /\ k = from + 1 + n
    OBVIOUS
  <2>2. q'[p][n] = q[p][m]
    BY <1>2
  <2> HIDE DEF m, k
  <2>1. m \in 1 .. l /\ k = from + m /\ k \in from + 1 .. to
    BY ONLY <2>0, <2>a, <2>b
  <2>3. q[p][m] = Stream(p, k)
    BY <1>1, <2>1
  <2>4. Stream(p, k)' = Stream(p, k)
    BY <2>1
  <2> QED
    BY <2>2, <2>3, <2>4 DEF k
<1>5. Flow(p, s)'
  BY <1>3, <1>4 DEF Flow
<1>6. Head(q[p]) = Stream(p, from + 1) /\ from + 1 <= to
  <2>1. PICK l \in Nat : l = Len(q[p])
    BY <1>2
  <2>2. l # 0 /\ l = to - from
    BY <1>1, <1>2, <2>1
  <2>3. 1 \in 1 .. l /\ from + 1 <= to
    BY ONLY <2>1, <2>2
  <2> QED
    BY <1>1, <1>2, <2>1, <2>3
<1> QED
  BY <1>5, <1>6

Kept(s, a, b) == \A n \in a + 1 .. b : Stream(s, n)' = Stream(s, n)
Sends(s, b, msgs) == \A n \in 1 .. Len(msgs) : msgs[n] = Stream(s, b + n)'

LEMMA FlowGrows ==
    ASSUME NEW s \in Side, NEW p \in Side, IsSeq(q[s]),
           Flow(s, p), NEW msgs, IsSeq(msgs), q'[s] = q[s] \o msgs,
           NEW from \in Nat, from = Rcvd(p) + Lead(p),
           Rcvd(p)' + Lead(p)' = from,
           NEW to \in Nat, to = Put(s) + Lead(s),
           Put(s)' + Lead(s)' = to + Len(msgs),
           Kept(s, from, to), Sends(s, to, msgs)
    PROVE  Flow(s, p)'
<1>1. /\ Len(q[s]) = to - from /\ Len(q[s]) \in Nat /\ Len(msgs) \in Nat
      /\ \A n \in 1 .. Len(q[s]) : q[s][n] = Stream(s, from + n)
  BY DEF Flow, IsSeq
<1>2. /\ Len(q[s] \o msgs) = Len(q[s]) + Len(msgs)
      /\ \A n \in 1 .. Len(q[s]) : (q[s] \o msgs)[n] = q[s][n]
      /\ \A n \in 1 .. Len(msgs) : (q[s] \o msgs)[Len(q[s]) + n] = msgs[n]
  BY JoinAny
<1>3. Len(q'[s]) = (to + Len(msgs)) - from
  BY <1>1, <1>2
<1>4. ASSUME NEW n \in 1 .. Len(q'[s])
      PROVE  q'[s][n] = Stream(s, from + n)'
  <2>1. CASE n <= Len(q[s])
    <3> DEFINE k == from + n
    <3>1. n \in 1 .. Len(q[s]) /\ k \in from + 1 .. to
      BY <1>1, <2>1
    <3>2. q'[s][n] = q[s][n]
      BY <1>2, <3>1
    <3>3. q[s][n] = Stream(s, k)
      BY <1>1, <3>1
    <3> HIDE DEF k
    <3>4. Stream(s, k)' = Stream(s, k)
      BY <3>1 DEF Kept
    <3> QED
      BY <3>2, <3>3, <3>4 DEF k
  <2>2. CASE ~ (n <= Len(q[s]))
    <3>1. n - Len(q[s]) \in 1 .. Len(msgs)
      BY <1>1, <1>3, <2>2
    <3>2. PICK m \in 1 .. Len(msgs) : m = n - Len(q[s])
      BY <3>1
    <3>3. n = Len(q[s]) + m /\ from + n = to + m
      <4>1. PICK l \in Nat : l = Len(q[s])
        BY <1>1
      <4>2. n \in Int /\ m \in Int /\ from \in Int /\ to \in Int
        BY <1>1, <1>3, <3>2
      <4>3. l = to - from /\ m = n - l
        BY <1>1, <3>2, <4>1
      <4>4. n = l + m /\ from + n = to + m
        BY ONLY <4>1, <4>2, <4>3
      <4> QED
        BY <4>1, <4>4
    <3>4. (q[s] \o msgs)[n] = msgs[m]
      BY <1>2, <3>3
    <3>5. msgs[m] = Stream(s, to + m)'
      BY DEF Sends
    <3> QED
      BY <3>3, <3>4, <3>5
  <2> QED
    BY <2>1, <2>2
<1> QED
  BY <1>3, <1>4 DEF Flow

LEMMA HeadTags ==
    ASSUME NEW s, NEW n
    PROVE  /\ n = ELL + 1 => Stream(s, n) = Msg("e0", 0, Pay0(s))
           /\ n = ELL + 2 => Stream(s, n) = Msg("e1", 0, Pay1(s))
           /\ n # ELL + 1 /\ n # ELL + 2 =>
                Stream(s, n) = Msg("u", n - Lead(s),
                                   Column(s, n - Lead(s), op[s].a))
BY OTAssumption DEF Stream

LEMMA TakeUStep ==
    ASSUME Typed, Rounds, NEW s \in Side, TakeU(s)
    PROVE  Rounds'
<1> DEFINE p == Peer(s)
<1>0. PICK n : n = idx[s]
  OBVIOUS
<1>1. p \in Side /\ p # s /\ Peer(p) = s /\ \A t \in Side : t = s \/ t = p
  BY Sides
<1>2. /\ Seeded(s) /\ Seeded(p) /\ Flow(s, p) /\ Flow(p, s)
      /\ Local(s, p) /\ Local(p, s)
  BY RoundsAt
<1>3. /\ pc[s] = "u" /\ q[p] # <<>>
      /\ UNCHANGED <<base, co, last, ands>>
  BY DEF TakeU, Takes
<1>4. n \in Col /\ Rcvd(s) = n - 1 /\ Put(s) = ELL /\ Progress(p)
  BY <1>0, <1>1, <1>2, <1>3, AheadOf DEF Progress
<1>5. ~ Ahead(s) /\ ~ Ahead(p) /\ Lead(s) = 0 /\ Lead(p) = 0
  <2>1. ~ Ahead(s)
    BY <1>1, <1>3, AheadOf
  <2>2. ~ Ahead(p)
    BY <1>1, <1>3, AheadOf
  <2> QED
    BY <2>1, <2>2, Numbers
<1>6. IsSeq(q[s]) /\ IsSeq(q[p]) /\ IsSeq(op[s].U)
  BY <1>1 DEF Typed, OpTyped
<1>7. /\ op'[p] = op[p]
      /\ \A f \in {"a", "b", "r", "e0"} : op'[s][f] = op[s][f]
      /\ op'[s].U = IF n < ELL THEN Append(op[s].U, Got(s)) ELSE <<>>
  BY <1>0, TakeUTyped
<1>8. \A t \in Side : \A f \in {"a", "b", "r"} : op'[t][f] = op[t][f]
  BY <1>1, <1>7
<1>9. \A t \in Side : /\ \A m : Stream(t, m)' = Stream(t, m)
                      /\ Pay0(t)' = Pay0(t) /\ Lead(t)' = Lead(t)
  BY <1>3, <1>8, StreamKept
<1>10. Seeded(s)' /\ Seeded(p)'
  BY <1>1, <1>2, <1>3, SeedsKept
<1>11. PICK msgs : /\ IsSeq(msgs) /\ Passes(s, msgs)
                   /\ n < ELL => msgs = <<>> /\ Goes(s, "u", n + 1)
                   /\ ~ (n < ELL) =>
                        /\ Goes(s, "e0", 0)
                        /\ msgs = <<Msg("e0", 0, Payload0(s, Append(op[s].U, Got(s)))),
                                    Msg("e1", 0, Payload1(s, Append(op[s].U, Got(s))))>>
  <2>1. CASE n < ELL
    BY <1>0, <2>1, NothingAny DEF TakeU
  <2>2. CASE ~ (n < ELL)
    <3>1. \A e, f : IsSeq(<<e, f>>)
      BY DEF IsSeq
    <3> QED
      BY <1>0, <2>2, <3>1 DEF TakeU
  <2> QED
    BY <2>1, <2>2
<1>12. q'[s] = q[s] \o msgs /\ q'[p] = Tail(q[p])
  BY <1>3, <1>11, PassTo
<1>13. PICK t, next : Goes(s, t, next) /\ pc'[s] = t /\ idx'[s] = next
                      /\ pc'[p] = pc[p] /\ idx'[p] = idx[p]
                      /\ IF n < ELL THEN t = "u" /\ next = n + 1
                                    ELSE t = "e0" /\ next = 0
  <2>1. CASE n < ELL
    BY <1>11, <2>1, GoTo
  <2>2. CASE ~ (n < ELL)
    BY <1>11, <2>2, GoTo
  <2> QED
    BY <2>1, <2>2
<1>14. Rcvd(p)' = Rcvd(p) /\ Put(p)' = Put(p)
  BY <1>13 DEF Rcvd, Put
<1>15. Rcvd(s)' = n /\ Put(s)' = IF n < ELL THEN ELL ELSE All
  <2>1. CASE n < ELL
    BY <1>4, <1>13, <2>1 DEF Rcvd, Put, Col
  <2>2. CASE ~ (n < ELL)
    <3>1. n = ELL
      BY <1>4, <2>2, Numbers DEF Col
    <3> QED
      BY <1>13, <2>2, <3>1 DEF Rcvd, Put
  <2> QED
    BY <2>1, <2>2
<1>16. Put(p) \in Nat /\ Rcvd(p) \in Nat /\ n \in Nat
  BY <1>4, Numbers DEF Progress, Col
<1>17. Flow(p, s)' /\ Head(q[p]) = Stream(p, n)
  <2>1. Rcvd(s) + Lead(s) = n - 1 /\ n - 1 \in Nat /\ Put(p) + Lead(p) = Put(p)
    BY <1>4, <1>5, <1>16 DEF Col
  <2>2. Rcvd(s)' + Lead(s)' = (n - 1) + 1 /\ Put(p)' + Lead(p)' = Put(p)
    BY <1>5, <1>9, <1>1, <1>14, <1>15, <1>16
  <2>3. PICK from \in Nat : from = n - 1
    BY <2>1
  <2>4. PICK to \in Nat : to = Put(p)
    BY <1>16
  <2>5. Flow(p, s)' /\ Head(q[p]) = Stream(p, from + 1)
    BY <1>1, <1>2, <1>3, <1>6, <1>9, <1>12, <2>1, <2>2, <2>3, <2>4, FlowTail
  <2>6. from + 1 = n
    BY <1>16, <2>3
  <2> QED
    BY <2>5, <2>6
<1>18. Got(s) = Column(p, n, op[p].a)
  <2>1. n # ELL + 1 /\ n # ELL + 2 /\ n - Lead(p) = n
    BY <1>4, <1>5, Numbers DEF Col
  <2>2. Stream(p, n) = Msg("u", n, Column(p, n, op[p].a))
    BY <2>1, HeadTags
  <2> QED
    BY <1>17, <2>2 DEF Got, Msg
<1> DEFINE U == Append(op[s].U, Got(s))
<1>19. Len(U) = n /\ \A m \in 1 .. n : U[m] = Column(p, m, op[p].a)
  <2>1. /\ Len(op[s].U) = n - 1
        /\ \A m \in 1 .. n - 1 : op[s].U[m] = Column(p, m, op[p].a)
    BY <1>0, <1>2, <1>3 DEF Local
  <2>2. /\ Len(U) = (n - 1) + 1
        /\ \A m \in 1 .. n - 1 : U[m] = op[s].U[m]
        /\ U[(n - 1) + 1] = Got(s)
    BY <1>6, <2>1, AppendAny
  <2>3. (n - 1) + 1 = n /\ \A m \in 1 .. n : m \in 1 .. n - 1 \/ m = n
    BY <1>16
  <2> HIDE DEF U
  <2> QED
    BY <1>18, <2>1, <2>2, <2>3
<1> HIDE DEF U
<1>20. Flow(s, p)'
  <2>1. Put(s) + Lead(s) = ELL /\ Rcvd(p) + Lead(p) = Rcvd(p)
    BY <1>4, <1>5, <1>16, Numbers
  <2>2. Rcvd(p)' + Lead(p)' = Rcvd(p)
    BY <1>1, <1>5, <1>9, <1>14, <1>16
  <2>3. Put(s)' + Lead(s)' = ELL + Len(msgs)
        /\ \A m \in 1 .. Len(msgs) : msgs[m] = Stream(s, ELL + m)'
    <3>1. CASE n < ELL
      BY <1>5, <1>9, <1>11, <1>15, <3>1, NothingAny, Numbers
    <3>2. CASE ~ (n < ELL)
      <4>1. Put(s)' + Lead(s)' = ELL + 2
        BY <1>5, <1>9, <1>15, <3>2, Numbers
      <4>2. \A m \in Col : U[m] = Column(p, m, op[p].a)
        <5>1. n = ELL
          BY <1>4, <3>2, Numbers DEF Col
        <5> QED
          BY <1>19, <5>1 DEF Col
      <4>3. \A j \in Row : /\ QRow(s, U, j) = Row0(s, j)
                           /\ Shifted(s, QRow(s, U, j)) = Row1(s, j)
        BY <1>2, <4>2, RowsMatch
      <4>4. \A j : MaskOf(s, j) = op[s].r[j] /\ ShareOf(s, j) = op[s].b[j]
        BY <1>5 DEF MaskOf, ShareOf
      <4>5. Payload0(s, U) = Pay0(s)
        BY <4>3, <4>4 DEF Payload0, Pay0
      <4>6. Payload1(s, U) = Pay1(s)
        BY <4>3, <4>4 DEF Payload1, Pay1
      <4>7. msgs = <<Msg("e0", 0, Pay0(s)), Msg("e1", 0, Pay1(s))>>
        BY <1>11, <3>2, <4>5, <4>6 DEF U
      <4>8. Len(msgs) = 2 /\ msgs[1] = Stream(s, ELL + 1)
            /\ msgs[2] = Stream(s, ELL + 2)
        BY <4>7, HeadTags
      <4>9. \A m \in 1 .. 2 : m = 1 \/ m = 2
        OBVIOUS
      <4>10. \A m \in 1 .. 2 : msgs[m] = Stream(s, ELL + m)
        BY <4>8, <4>9
      <4> QED
        BY <1>9, <4>1, <4>8, <4>10
    <3> QED
      BY <3>1, <3>2
  <2>4. PICK from \in Nat : from = Rcvd(p)
    BY <1>16
  <2>5. PICK to \in Nat : to = ELL
    BY Numbers
  <2>6. /\ from = Rcvd(p) + Lead(p) /\ Rcvd(p)' + Lead(p)' = from
        /\ to = Put(s) + Lead(s) /\ Put(s)' + Lead(s)' = to + Len(msgs)
        /\ Kept(s, from, to) /\ Sends(s, to, msgs)
    BY <1>9, <2>1, <2>2, <2>3, <2>4, <2>5 DEF Kept, Sends
  <2>7. IsSeq(msgs) /\ q'[s] = q[s] \o msgs /\ Flow(s, p)
    BY <1>2, <1>11, <1>12
  <2> QED
    BY <1>1, <1>6, <2>6, <2>7, FlowGrows
<1>21. Local(s, p)'
  <2>1. CASE n < ELL
    <3>1. op'[s].U = U /\ pc'[s] = "u" /\ idx'[s] = n + 1
      BY <1>7, <1>13, <2>1 DEF U
    <3>2. n + 1 \in Col /\ (n + 1) - 1 = n
      BY <1>4, <2>1, Numbers DEF Col
    <3>3. op'[p].a = op[p].a
      BY <1>7
    <3>4. Len(op'[s].U) = idx'[s] - 1
          /\ \A m \in 1 .. idx'[s] - 1 : op'[s].U[m] = Column(p, m, op'[p].a)
      BY <1>19, <3>1, <3>2, <3>3
    <3> QED
      BY <1>2, <1>3, <3>1, <3>2, <3>4 DEF Local, Column
  <2>2. CASE ~ (n < ELL)
    BY <1>2, <1>3, <1>13, <2>2 DEF Local
  <2> QED
    BY <2>1, <2>2
<1>22. Local(p, s)'
  <2>1. op'[s].a = op[s].a /\ Pay0(s)' = Pay0(s)
    BY <1>8, <1>9
  <2> QED
    BY <1>2, <1>3, <1>7, <1>13, <2>1 DEF Local
<1> QED
  BY <1>1, <1>10, <1>17, <1>20, <1>21, <1>22, RoundsMake

LEMMA FlowSame ==
    ASSUME NEW s \in Side, NEW p \in Side, IsSeq(q[s]),
           Flow(s, p), q'[s] = q[s],
           NEW from \in Nat, from = Rcvd(p) + Lead(p),
           Rcvd(p)' + Lead(p)' = from,
           NEW to \in Nat, to = Put(s) + Lead(s), Put(s)' + Lead(s)' = to,
           Kept(s, from, to)
    PROVE  Flow(s, p)'
<1>1. Sends(s, to, <<>>) /\ to + Len(<<>>) = to
  BY NothingAny DEF Sends
<1>2. q'[s] = q[s] \o <<>> /\ IsSeq(<<>>)
  BY JoinNothing, NothingAny
<1>3. Put(s)' + Lead(s)' = to + Len(<<>>)
  BY <1>1
<1> QED
  BY <1>1, <1>2, <1>3, FlowGrows

LEMMA TakeE0Step ==
    ASSUME Typed, Rounds, NEW s \in Side, TakeE0(s)
    PROVE  Rounds'
<1> DEFINE p == Peer(s)
<1>1. p \in Side /\ p # s /\ Peer(p) = s /\ \A t \in Side : t = s \/ t = p
  BY Sides
<1>2. /\ Seeded(s) /\ Seeded(p) /\ Flow(s, p) /\ Flow(p, s)
      /\ Local(s, p) /\ Local(p, s)
  BY RoundsAt
<1>3. /\ pc[s] = "e0" /\ q[p] # <<>>
      /\ UNCHANGED <<base, co, last, ands>>
      /\ Goes(s, "e1", 0) /\ Passes(s, <<>>)
  BY DEF TakeE0, Takes
<1>4. Rcvd(s) = ELL /\ Put(s) = All /\ Progress(p)
  BY <1>1, <1>3, AheadOf DEF Progress
<1>5. ~ Ahead(s) /\ Lead(s) = 0 /\ Lead(p) \in Nat
  <2>1. ~ Ahead(s)
    BY <1>1, <1>3, AheadOf
  <2> QED
    BY <2>1, Numbers
<1>6. IsSeq(q[s]) /\ IsSeq(q[p])
  BY <1>1 DEF Typed
<1>7. /\ op'[p] = op[p]
      /\ \A f \in {"a", "b", "r", "U"} : op'[s][f] = op[s][f]
      /\ op'[s].e0 = Got(s)
  BY TakeE0Typed
<1>8. \A t \in Side : \A f \in {"a", "b", "r"} : op'[t][f] = op[t][f]
  BY <1>1, <1>7
<1>9. \A t \in Side : /\ \A m : Stream(t, m)' = Stream(t, m)
                      /\ Pay0(t)' = Pay0(t) /\ Lead(t)' = Lead(t)
  BY <1>3, <1>8, StreamKept
<1>10. Seeded(s)' /\ Seeded(p)'
  BY <1>1, <1>2, <1>3, SeedsKept
<1>11. q'[s] = q[s] /\ q'[p] = Tail(q[p])
  <2>1. q'[s] = q[s] \o <<>> /\ q'[p] = Tail(q[p])
    BY <1>3, NothingAny, PassTo
  <2> QED
    BY <1>6, <2>1, JoinNothing
<1>12. pc'[s] = "e1" /\ idx'[s] = 0 /\ pc'[p] = pc[p] /\ idx'[p] = idx[p]
  BY <1>3, GoTo
<1>13. /\ Rcvd(p)' = Rcvd(p) /\ Put(p)' = Put(p)
       /\ Rcvd(s)' = ELL + 1 /\ Put(s)' = All
  BY <1>12 DEF Rcvd, Put
<1>14. Put(p) \in Nat /\ Rcvd(p) \in Nat
  BY <1>4, Numbers DEF Progress, Col
<1>15. Flow(p, s)' /\ Head(q[p]) = Stream(p, ELL + 1)
  <2>1. PICK from \in Nat : from = ELL
    BY Numbers
  <2>2. PICK to \in Nat : to = Put(p) + Lead(p)
    BY <1>5, <1>14
  <2>3. from = Rcvd(s) + Lead(s) /\ Rcvd(s)' + Lead(s)' = from + 1
        /\ Put(p)' + Lead(p)' = to
    BY <1>1, <1>4, <1>5, <1>9, <1>13, <2>1, <2>2, Numbers
  <2> QED
    BY <1>1, <1>2, <1>3, <1>6, <1>9, <1>11, <2>1, <2>2, <2>3, FlowTail
<1>16. Got(s) = Pay0(p)
  <2>1. Stream(p, ELL + 1) = Msg("e0", 0, Pay0(p))
    BY HeadTags
  <2> QED
    BY <1>15, <2>1 DEF Got, Msg
<1>17. Flow(s, p)'
  <2>1. PICK from \in Nat : from = Rcvd(p) + Lead(p)
    BY <1>5, <1>14
  <2>2. PICK to \in Nat : to = All
    BY Numbers
  <2>3. Rcvd(p)' + Lead(p)' = from /\ to = Put(s) + Lead(s)
        /\ Put(s)' + Lead(s)' = to /\ Kept(s, from, to)
    BY <1>1, <1>4, <1>5, <1>9, <1>13, <2>1, <2>2, Numbers DEF Kept
  <2> QED
    BY <1>1, <1>2, <1>6, <1>11, <2>1, <2>2, <2>3, FlowSame
<1>18. Local(s, p)'
  BY <1>1, <1>2, <1>3, <1>7, <1>9, <1>12, <1>16 DEF Local
<1>19. Local(p, s)'
  <2>1. op'[s].a = op[s].a /\ Pay0(s)' = Pay0(s)
    BY <1>8, <1>9
  <2> QED
    BY <1>2, <1>3, <1>7, <1>12, <2>1 DEF Local
<1> QED
  BY <1>1, <1>10, <1>15, <1>17, <1>18, <1>19, RoundsMake

\* What is still under way to a slower side is not touched by a new AND of
\* the faster one, nor are columns by the AND they were made for.
LEMMA StreamPast ==
    ASSUME UNCHANGED <<base, last, ands>>, NEW s \in Side, Ahead(s),
           op'[Peer(s)] = op[Peer(s)]
    PROVE  /\ \A n \in ELL + 1 .. All : Stream(s, n)' = Stream(s, n)
           /\ Pay0(s)' = Pay0(s)
<1>1. Ahead(s)' /\ Lead(s)' = Lead(s)
  BY DEF Ahead, Lead
<1>2. \A j : MaskOf(s, j)' = MaskOf(s, j) /\ ShareOf(s, j)' = ShareOf(s, j)
  BY <1>1 DEF MaskOf, ShareOf
<1>3. \A j : Row0(s, j)' = Row0(s, j) /\ Row1(s, j)' = Row1(s, j)
  BY DEF Row0, Row1, RowFor
<1>4. Pay0(s)' = Pay0(s) /\ Pay1(s)' = Pay1(s)
  BY <1>2, <1>3 DEF Pay0, Pay1
<1>5. \A n \in ELL + 1 .. All : n = ELL + 1 \/ n = ELL + 2
  BY Numbers
<1>6. \A n \in ELL + 1 .. All : Stream(s, n)' = Stream(s, n)
  BY <1>4, <1>5 DEF Stream
<1> QED
  BY <1>4, <1>6

LEMMA EnterStep ==
    ASSUME Typed, Rounds, NEW s \in Side, Enter(s)
    PROVE  Rounds'
<1> DEFINE p == Peer(s)
<1>1. p \in Side /\ p # s /\ Peer(p) = s /\ \A t \in Side : t = s \/ t = p
  BY Sides
<1>2. /\ Seeded(s) /\ Seeded(p) /\ Flow(s, p) /\ Flow(p, s)
      /\ Local(s, p) /\ Local(p, s)
  BY RoundsAt
<1>3. base[s].kc # NoSeeds
  BY <1>2, UnseededIs
<1>4. pc[s] = "idle" /\ UNCHANGED <<base, co, last, ands>>
      /\ Goes(s, "u", 1)
  BY <1>3 DEF Enter
<1>5. /\ q'[s] = q[s] \o Columns(s, op'[s].a) /\ q'[p] = q[p]
      /\ op'[p] = op[p] /\ op'[s].U = <<>>
  BY <1>3, EnterTyped
<1>6. IsSeq(q[s]) /\ IsSeq(q[p])
  BY <1>1 DEF Typed
<1>7. pc'[s] = "u" /\ idx'[s] = 1 /\ pc'[p] = pc[p] /\ idx'[p] = idx[p]
  BY <1>4, GoTo
<1>8. Rcvd(s) = 0 /\ Put(s) = 0 /\ Progress(p)
  BY <1>1, <1>4, AheadOf DEF Progress
<1>9. /\ Rcvd(p)' = Rcvd(p) /\ Put(p)' = Put(p)
      /\ Rcvd(s)' = 0 /\ Put(s)' = ELL
  BY <1>7 DEF Rcvd, Put
<1>10. /\ Put(p) \in Nat /\ Rcvd(p) \in Nat
       /\ Lead(p) \in Nat /\ Lead(s) \in Nat
  BY <1>8, Numbers DEF Progress, Col
<1>11. \A t \in Side : Lead(t)' = Lead(t)
  BY <1>4 DEF Lead, Ahead
<1>12. Seeded(s)' /\ Seeded(p)'
  BY <1>1, <1>2, <1>4, SeedsKept
<1>13. ~ Ahead(p) /\ Lead(p) = 0
  <2>1. ~ Ahead(p)
    BY <1>1, <1>4, AheadOf
  <2> QED
    BY <2>1, Numbers
<1>14. /\ Len(q[s]) \in Nat
       /\ Len(q[s]) = (Put(s) + Lead(s)) - (Rcvd(p) + Lead(p))
  BY <1>1, AheadOf
<1>15. Rcvd(p) <= Lead(s)
  BY <1>8, <1>10, <1>13, <1>14
<1>16. Kept(s, Rcvd(p), Lead(s)) /\ (Ahead(s) => Rcvd(p) >= ELL)
       /\ (~ Ahead(s) => Rcvd(p) = 0)
  <2>1. CASE Ahead(s)
    <3>1. pc[p] \in {"e0", "e1"}
      BY <1>1, <2>1, AheadOf
    <3>2. Rcvd(p) \in Nat /\ Rcvd(p) >= ELL
      BY <1>8, <1>10, <3>1, Numbers DEF Progress
    <3>3. Lead(s) = All
      BY <2>1, Numbers
    <3>4. \A n \in Rcvd(p) + 1 .. All : n \in ELL + 1 .. All
      BY <3>2, Numbers
    <3>5. \A n \in ELL + 1 .. All : Stream(s, n)' = Stream(s, n)
      BY <1>4, <1>5, <2>1, StreamPast
    <3> QED
      BY <2>1, <3>2, <3>3, <3>4, <3>5 DEF Kept
  <2>2. CASE ~ Ahead(s)
    <3>1. Lead(s) = 0 /\ Rcvd(p) = 0
      BY <1>10, <1>15, <2>2, Numbers
    <3> QED
      BY <2>2, <3>1 DEF Kept
  <2> QED
    BY <2>1, <2>2
<1>17. Flow(s, p)'
  <2>1. PICK from \in Nat : from = Rcvd(p)
    BY <1>10
  <2>2. PICK to \in Nat : to = Lead(s)
    BY <1>10
  <2>3. PICK msgs : msgs = Columns(s, op'[s].a)
    OBVIOUS
  <2>4. /\ IsSeq(msgs) /\ Len(msgs) = ELL
        /\ \A n \in Col : msgs[n] = Msg("u", n, Column(s, n, op'[s].a))
    BY <2>3, ColumnsSeq
  <2>5. /\ from = Rcvd(p) + Lead(p) /\ Rcvd(p)' + Lead(p)' = from
        /\ to = Put(s) + Lead(s) /\ Put(s)' + Lead(s)' = to + Len(msgs)
    BY <1>1, <1>8, <1>9, <1>10, <1>11, <1>13, <2>1, <2>2, <2>4, Numbers
  <2>6. Kept(s, from, to)
    BY <1>16, <2>1, <2>2 DEF Kept
  <2>7. ASSUME NEW n \in 1 .. Len(msgs) PROVE msgs[n] = Stream(s, to + n)'
    <3>1. to = 0 \/ to = All
      BY <2>2, Numbers
    <3>2. n \in Col
      BY <2>4 DEF Col
    <3>3. to + n # ELL + 1 /\ to + n # ELL + 2 /\ (to + n) - to = n
      BY <3>1, <3>2, Numbers DEF Col
    <3>4. Lead(s)' = to
      BY <1>11, <2>2
    <3>5. Stream(s, to + n)' = Msg("u", n, Column(s, n, op'[s].a))
      BY <3>3, <3>4 DEF Stream, Column
    <3> QED
      BY <2>4, <3>2, <3>5
  <2>8. Sends(s, to, msgs)
    BY <2>7 DEF Sends
  <2>9. q'[s] = q[s] \o msgs
    BY <1>5, <2>3
  <2> QED
    BY <1>1, <1>2, <1>6, <2>4, <2>5, <2>6, <2>8, <2>9, FlowGrows
<1>18. Flow(p, s)'
  <2>1. PICK from \in Nat : from = Lead(s)
    BY <1>10
  <2>2. PICK to \in Nat : to = Put(p)
    BY <1>10
  <2>3. /\ from = Rcvd(s) + Lead(s) /\ Rcvd(s)' + Lead(s)' = from
        /\ to = Put(p) + Lead(p) /\ Put(p)' + Lead(p)' = to
    BY <1>1, <1>8, <1>9, <1>10, <1>11, <1>13, <2>1, <2>2
  <2>4. Kept(p, from, to)
    <3>1. CASE Ahead(s)
      <4>1. from = All /\ to \in {0, ELL, All}
        BY <1>8, <2>1, <2>2, <3>1, Numbers DEF Progress
      <4>2. \A n \in from + 1 .. to : FALSE
        BY <4>1, Numbers
      <4> QED
        BY <4>2 DEF Kept
    <3>2. CASE ~ Ahead(s)
      <4>1. Put(p) = 0 \/ Put(p) = ELL
        BY <1>8, <1>16, <3>2, Numbers DEF Progress
      <4>2. \A n \in from + 1 .. to : n # ELL + 1 /\ n # ELL + 2
        BY <2>2, <4>1, Numbers
      <4>3. Lead(p)' = Lead(p) /\ op'[p] = op[p]
        BY <1>1, <1>5, <1>11
      <4> QED
        BY <4>2, <4>3 DEF Kept, Stream, Column
    <3> QED
      BY <3>1, <3>2
  <2> QED
    BY <1>1, <1>2, <1>5, <1>6, <2>1, <2>2, <2>3, <2>4, FlowSame
<1>19. Local(s, p)'
  <2>1. Len(op'[s].U) = 0 /\ 1 \in Col
    BY <1>5, NothingAny, Numbers DEF Col
  <2> QED
    BY <1>2, <1>4, <1>7, <2>1 DEF Local
<1>20. Local(p, s)'
  <2>1. CASE Ahead(s)
    <3>1. pc[p] \in {"e0", "e1"} /\ Pay0(s)' = Pay0(s)
      BY <1>1, <1>4, <1>5, <2>1, AheadOf, StreamPast
    <3> QED
      BY <1>2, <1>4, <1>5, <1>7, <3>1 DEF Local
  <2>2. CASE ~ Ahead(s)
    <3>1. \/ pc[p] = "idle"
          \/ pc[p] = "u" /\ idx[p] = 1
      BY <1>8, <1>16, <2>2, Numbers DEF Progress, Col
    <3>2. CASE pc[p] = "idle"
      BY <1>2, <1>4, <1>7, <3>2 DEF Local
    <3>3. CASE pc[p] = "u" /\ idx[p] = 1
      <4>1. Len(op[p].U) = 0 /\ 1 - 1 = 0
        BY <1>2, <3>3 DEF Local
      <4> QED
        BY <1>2, <1>4, <1>5, <1>7, <3>3, <4>1 DEF Local
    <3> QED
      BY <3>1, <3>2, <3>3
  <2> QED
    BY <2>1, <2>2
<1> QED
  BY <1>1, <1>12, <1>17, <1>18, <1>19, <1>20, RoundsMake

\* What a side opens: the peer's masks, plus the peer's share where its own
\* input is set.
LEMMA GotIs ==
    ASSUME Typed, Rounds, NEW s \in Side, NEW p \in Side, p = Peer(s),
           Finish(s), Got(s) = Pay1(p), NEW j \in Row,
           NEW g, g \in Chosen(s, j, Got(s))
    PROVE  g = Xor(MaskOf(p, j), op[s].a[j] * ShareOf(p, j))
           /\ MaskOf(p, j) \in Bit /\ ShareOf(p, j) \in Bit
<1>1. pc[s] = "e1" /\ op[s].e0 = Pay0(p)
  <2>1. pc[s] = "e1" /\ Local(s, p)
    BY RoundsAt DEF Finish, Takes
  <2> QED
    BY <2>1 DEF Local
<1>2. op[s].a[j] \in Bit /\ Peer(p) = s
  BY Words, Sides
<1>3. MaskOf(p, j) \in Bit /\ ShareOf(p, j) \in Bit
  <2>1. /\ op[s].r[j] \in Bit /\ op[s].b[j] \in Bit
        /\ op[p].r[j] \in Bit /\ op[p].b[j] \in Bit /\ last[p].z[j] \in Bit
        /\ last[p].a[j] \in Bit /\ last[p].b[j] \in Bit
    BY Words
  <2>2. \A m, n \in Bit : Xor(m, n) \in Bit /\ m * n \in Bit
    BY XorTable
  <2>3. Xor(op[s].r[j], last[p].a[j] * op[s].b[j]) \in Bit
    BY <2>1, <2>2
  <2>4. Xor(last[p].a[j] * last[p].b[j],
            Xor(op[s].r[j], last[p].a[j] * op[s].b[j])) \in Bit
    BY <2>1, <2>2, <2>3
  <2>5. Xor(last[p].z[j],
            Xor(last[p].a[j] * last[p].b[j],
                Xor(op[s].r[j], last[p].a[j] * op[s].b[j]))) \in Bit
    BY <2>1, <2>2, <2>4
  <2> QED
    BY <1>2, <2>1, <2>5 DEF MaskOf, ShareOf
<1>4. RowFor(p, j, 0) = TRow(s, j)
  BY <1>2, RowOpens
<1> DEFINE a == op[s].a[j]
<1>5. CASE a = 0
  <2>1. Row0(p, j) = TRow(s, j)
    BY <1>2, <1>4, <1>5 DEF Row0
  <2>2. Chosen(s, j, Got(s)) = Opened(Pay0(p)[j], <<TRow(s, j), j>>, Bit)
    BY <1>1, <1>5 DEF Chosen
  <2>3. Pay0(p)[j] = Sealed(MaskOf(p, j), <<TRow(s, j), j>>)
    BY <2>1 DEF Pay0
  <2>4. g = MaskOf(p, j)
    BY <2>2, <2>3 DEF Opened, Sealed
  <2>5. a * ShareOf(p, j) = 0
    BY <1>3, <1>5, TimesTable DEF Bit
  <2>6. Xor(MaskOf(p, j), 0) = MaskOf(p, j)
    BY <1>3, XorTable DEF Bit
  <2> QED
    BY <1>3, <2>4, <2>5, <2>6
<1>6. CASE a = 1
  <2>1. Row1(p, j) = TRow(s, j)
    BY <1>2, <1>4, <1>6 DEF Row1
  <2>2. Chosen(s, j, Got(s)) = Opened(Pay1(p)[j], <<TRow(s, j), j>>, Bit)
    BY <1>6 DEF Chosen
  <2>3. Pay1(p)[j] = Sealed(Xor(MaskOf(p, j), ShareOf(p, j)),
                            <<TRow(s, j), j>>)
    BY <2>1 DEF Pay1
  <2>4. g = Xor(MaskOf(p, j), ShareOf(p, j))
    BY <2>2, <2>3 DEF Opened, Sealed
  <2>5. a * ShareOf(p, j) = ShareOf(p, j)
    BY <1>3, <1>6, TimesTable DEF Bit
  <2> QED
    BY <1>3, <2>4, <2>5
<1> QED
  BY <1>2, <1>5, <1>6 DEF Bit

\* The first of the two to finish an AND: its masks can be read off its
\* output from now on.
LEMMA FinishFirst ==
    ASSUME Typed, Rounds, NEW s \in Side, NEW p \in Side, p = Peer(s),
           Finish(s), ~ Ahead(p), ~ Ahead(s), Got(s) = Pay1(p)
    PROVE  /\ \A n \in ELL + 1 .. All : Stream(s, n)' = Stream(s, n)
           /\ Pay0(s)' = Pay0(s)
           /\ Ahead(s)' /\ ~ Ahead(p)'
<1>1. PICK got \in Word :
        /\ \A j \in Row : got[j] \in Chosen(s, j, Got(s))
        /\ last'[s].a = op[s].a /\ last'[s].b = op[s].b
        /\ last'[s].z = [j \in Row |-> Xor(op[s].a[j] * op[s].b[j],
                                           Xor(op[s].r[j], got[j]))]
  BY FinishTyped
<1>2. /\ op'[p] = op[p] /\ base' = base
      /\ ands'[s] = ands[s] + 1 /\ ands'[p] = ands[p]
  BY FinishTyped DEF Finish
<1>3. Peer(p) = s /\ ands[s] = ands[p] /\ ands[p] \in Nat
  BY AheadOf, Sides DEF Typed, Shaped
<1>4. Ahead(s)' /\ ~ Ahead(p)'
  BY <1>2, <1>3 DEF Ahead
<1>5. ASSUME NEW j \in Row
      PROVE  MaskOf(s, j)' = MaskOf(s, j) /\ ShareOf(s, j)' = ShareOf(s, j)
  <2>1. MaskOf(s, j) = op[s].r[j] /\ MaskOf(p, j) = op[p].r[j]
        /\ ShareOf(s, j) = op[s].b[j] /\ ShareOf(p, j) = op[p].b[j]
    BY DEF MaskOf, ShareOf
  <2>2. got[j] = Xor(op[p].r[j], op[s].a[j] * op[p].b[j])
    BY <1>1, <2>1, GotIs
  <2>3. MaskOf(s, j)' =
          Xor(last'[s].z[j], Xor(op[s].a[j] * op[s].b[j],
              Xor(op[p].r[j], op[s].a[j] * op[p].b[j])))
    BY <1>1, <1>2, <1>4 DEF MaskOf
  <2>4. last'[s].z[j] =
          Xor(op[s].a[j] * op[s].b[j],
              Xor(op[s].r[j], Xor(op[p].r[j], op[s].a[j] * op[p].b[j])))
    BY <1>1, <2>2
  <2>5. /\ op[s].a[j] \in Bit /\ op[s].b[j] \in Bit /\ op[s].r[j] \in Bit
        /\ op[p].r[j] \in Bit /\ op[p].b[j] \in Bit
    BY Words
  <2>6. MaskOf(s, j)' = op[s].r[j]
    BY <2>3, <2>4, <2>5, MaskBack
  <2>7. ShareOf(s, j)' = op[s].b[j]
    BY <1>1, <1>4 DEF ShareOf
  <2> QED
    BY <2>1, <2>6, <2>7
<1>6. \A j \in Row : Row0(s, j)' = Row0(s, j) /\ Row1(s, j)' = Row1(s, j)
  BY <1>2 DEF Row0, Row1, RowFor
<1>7. Pay0(s)' = Pay0(s) /\ Pay1(s)' = Pay1(s)
  BY <1>5, <1>6 DEF Pay0, Pay1
<1>8. \A n \in ELL + 1 .. All : n = ELL + 1 \/ n = ELL + 2
  BY Numbers
<1>9. \A n \in ELL + 1 .. All : Stream(s, n)' = Stream(s, n)
  BY <1>7, <1>8 DEF Stream
<1> QED
  BY <1>4, <1>7, <1>9

\* The second one: the two outputs join to the AND.
LEMMA FinishSecond ==
    ASSUME Typed, Rounds, NEW s \in Side, NEW p \in Side, p = Peer(s),
           Finish(s), Ahead(p), Got(s) = Pay1(p)
    PROVE  AndCorrect' /\ ~ Ahead(s)' /\ ~ Ahead(p)'
<1>1. PICK got \in Word :
        /\ \A j \in Row : got[j] \in Chosen(s, j, Got(s))
        /\ last'[s].a = op[s].a /\ last'[s].b = op[s].b
        /\ last'[s].z = [j \in Row |-> Xor(op[s].a[j] * op[s].b[j],
                                           Xor(op[s].r[j], got[j]))]
  BY FinishTyped
<1>2. /\ last'[p] = last[p]
      /\ ands'[s] = ands[s] + 1 /\ ands'[p] = ands[p]
  BY FinishTyped
<1>3. Peer(p) = s /\ ands[p] = ands[s] + 1 /\ ands[s] \in Nat
  BY AheadOf, Sides DEF Typed, Shaped
<1>4. ~ Ahead(s)' /\ ~ Ahead(p)'
  BY <1>2, <1>3 DEF Ahead
<1>5. ASSUME NEW j \in Row
      PROVE  Xor(last'[s].z[j], last'[p].z[j]) =
                Xor(last'[s].a[j], last'[p].a[j])
                  * Xor(last'[s].b[j], last'[p].b[j])
  <2>1. MaskOf(p, j) =
          Xor(last[p].z[j], Xor(last[p].a[j] * last[p].b[j],
              Xor(op[s].r[j], last[p].a[j] * op[s].b[j])))
        /\ ShareOf(p, j) = last[p].b[j]
    BY <1>3 DEF MaskOf, ShareOf
  <2>2. got[j] = Xor(MaskOf(p, j), op[s].a[j] * ShareOf(p, j))
    BY <1>1, GotIs
  <2>3. last'[s].z[j] =
          Xor(op[s].a[j] * op[s].b[j], Xor(op[s].r[j], got[j]))
    BY <1>1
  <2>4. /\ op[s].a[j] \in Bit /\ op[s].b[j] \in Bit /\ op[s].r[j] \in Bit
        /\ last[p].a[j] \in Bit /\ last[p].b[j] \in Bit
        /\ last[p].z[j] \in Bit
    BY Words
  <2>5. Xor(last'[s].z[j], last[p].z[j]) =
          Xor(op[s].a[j], last[p].a[j]) * Xor(op[s].b[j], last[p].b[j])
    <3> DEFINE a == op[s].a[j]
               b == op[s].b[j]
               r == op[s].r[j]
               x == last[p].a[j]
               y == last[p].b[j]
               z == last[p].z[j]
    <3>1. last'[s].z[j] =
            Xor(a * b,
                Xor(r, Xor(Xor(z, Xor(x * y, Xor(r, x * b))), a * y)))
      BY <2>1, <2>2, <2>3
    <3>2. a \in Bit /\ b \in Bit /\ r \in Bit /\ x \in Bit /\ y \in Bit
          /\ z \in Bit
      BY <2>4
    <3> HIDE DEF a, b, r, x, y, z
    <3>3. Xor(last'[s].z[j], z) = Xor(a, x) * Xor(b, y)
      BY <3>1, <3>2, SharesJoin
    <3> QED
      BY <3>3 DEF a, b, x, y, z
  <2> QED
    BY <1>1, <1>2, <2>5
<1>6. \A m, n \in Bit : Xor(m, n) = Xor(n, m)
  BY DEF Xor, Bit
<1>7. ASSUME NEW j \in Row
      PROVE  Xor(last'[p].z[j], last'[s].z[j]) =
                Xor(last'[p].a[j], last'[s].a[j])
                  * Xor(last'[p].b[j], last'[s].b[j])
  <2>1. Typed'
    BY FinishTyped
  <2>2. /\ last'[s].z[j] \in Bit /\ last'[s].a[j] \in Bit
        /\ last'[s].b[j] \in Bit /\ last'[p].z[j] \in Bit
        /\ last'[p].a[j] \in Bit /\ last'[p].b[j] \in Bit
    BY <2>1 DEF Typed, LastTyped, Word
  <2> QED
    BY <1>5, <1>6, <2>2
<1>8. \/ s = 0 /\ p = 1
      \/ s = 1 /\ p = 0
  BY Sides DEF Side
<1> QED
  BY <1>4, <1>5, <1>7, <1>8 DEF AndCorrect

LEMMA FinishStep ==
    ASSUME Typed, Rounds, NEW s \in Side, Finish(s)
    PROVE  Rounds' /\ AndCorrect'
<1> DEFINE p == Peer(s)
<1>1. p \in Side /\ p # s /\ Peer(p) = s /\ \A t \in Side : t = s \/ t = p
  BY Sides
<1>2. /\ Seeded(s) /\ Seeded(p) /\ Flow(s, p) /\ Flow(p, s)
      /\ Local(s, p) /\ Local(p, s)
  BY RoundsAt
<1>3. /\ pc[s] = "e1" /\ q[p] # <<>> /\ UNCHANGED <<base, co>>
      /\ Goes(s, "idle", 0) /\ Passes(s, <<>>)
  BY DEF Finish, Takes
<1>4. Rcvd(s) = ELL + 1 /\ Put(s) = All /\ Progress(p)
  BY <1>1, <1>3, AheadOf DEF Progress
<1>5. ~ Ahead(s) /\ Lead(s) = 0 /\ Lead(p) \in Nat
  <2>1. ~ Ahead(s)
    BY <1>1, <1>3, AheadOf
  <2> QED
    BY <2>1, Numbers
<1>6. IsSeq(q[s]) /\ IsSeq(q[p])
  BY <1>1 DEF Typed
<1>7. /\ op'[p] = op[p] /\ ands'[s] = ands[s] + 1 /\ ands'[p] = ands[p]
  BY FinishTyped
<1>8. Seeded(s)' /\ Seeded(p)'
  BY <1>1, <1>2, <1>3, SeedsKept
<1>9. q'[s] = q[s] /\ q'[p] = Tail(q[p])
  <2>1. q'[s] = q[s] \o <<>> /\ q'[p] = Tail(q[p])
    BY <1>3, NothingAny, PassTo
  <2> QED
    BY <1>6, <2>1, JoinNothing
<1>10. pc'[s] = "idle" /\ idx'[s] = 0 /\ pc'[p] = pc[p] /\ idx'[p] = idx[p]
  BY <1>3, GoTo
<1>11. /\ Rcvd(p)' = Rcvd(p) /\ Put(p)' = Put(p)
       /\ Rcvd(s)' = 0 /\ Put(s)' = 0
  BY <1>10 DEF Rcvd, Put
<1>12. Put(p) \in Nat /\ Rcvd(p) \in Nat
  BY <1>4, Numbers DEF Progress, Col
<1>13. /\ Len(q[p]) = (Put(p) + Lead(p)) - (ELL + 1)
       /\ Len(q[p]) \in Nat \ {0} /\ Head(q[p]) = q[p][1]
       /\ Len(Tail(q[p])) = Len(q[p]) - 1
       /\ \A n \in 1 .. Len(Tail(q[p])) : Tail(q[p])[n] = q[p][n + 1]
       /\ \A n \in 1 .. Len(q[p]) : q[p][n] = Stream(p, ELL + 1 + n)
  <2>1. Rcvd(s) + Lead(s) = ELL + 1
    BY <1>4, <1>5, Numbers
  <2>2. Len(q[p]) = (Put(p) + Lead(p)) - (ELL + 1)
        /\ \A n \in 1 .. Len(q[p]) : q[p][n] = Stream(p, ELL + 1 + n)
    BY <1>2, <2>1 DEF Flow
  <2> QED
    BY <1>3, <1>6, <2>2, TailAny
<1>14. Got(s) = Pay1(p)
  <2>1. ELL + 1 + 1 = ELL + 2 /\ 1 \in 1 .. Len(q[p])
    BY <1>13, Numbers
  <2>2. Head(q[p]) = Stream(p, ELL + 2)
    BY <1>13, <2>1
  <2>3. Stream(p, ELL + 2) = Msg("e1", 0, Pay1(p))
    BY HeadTags
  <2> QED
    BY <2>2, <2>3 DEF Got, Msg
<1>15. ands[s] \in Nat /\ ands[p] \in Nat
  BY <1>1 DEF Typed, Shaped
<1>16. CASE ~ Ahead(p)
  <2>1. ands[s] = ands[p]
    BY <1>1, <1>5, <1>16, AheadOf
  <2>2. /\ \A n \in ELL + 1 .. All : Stream(s, n)' = Stream(s, n)
        /\ Pay0(s)' = Pay0(s) /\ Ahead(s)' /\ ~ Ahead(p)'
    BY <1>1, <1>5, <1>14, <1>16, FinishFirst
  <2>3. Lead(s)' = All /\ Lead(p)' = 0 /\ Lead(p) = 0
    BY <1>16, <2>2, Numbers DEF Lead
  <2>4. Put(p) = All /\ pc[p] \in {"e0", "e1"} /\ Rcvd(p) >= ELL
    <3>1. Put(p) > ELL + 1
      BY <1>12, <1>13, <2>3, Numbers
    <3>2. Put(p) = All /\ pc[p] \in {"e0", "e1"}
      BY <1>4, <3>1, Numbers DEF Progress
    <3> QED
      BY <1>4, <3>2, Numbers DEF Progress
  <2>5. Flow(s, p)'
    <3>1. PICK from \in Nat : from = Rcvd(p)
      BY <1>12
    <3>2. PICK to \in Nat : to = All
      BY Numbers
    <3>3. /\ from = Rcvd(p) + Lead(p) /\ Rcvd(p)' + Lead(p)' = from
          /\ to = Put(s) + Lead(s) /\ Put(s)' + Lead(s)' = to
      BY <1>4, <1>5, <1>11, <1>12, <2>3, <3>1, <3>2, Numbers
    <3>4. Kept(s, from, to)
      <4>1. \A n \in from + 1 .. to : n \in ELL + 1 .. All
        BY <2>4, <3>1, <3>2, Numbers
      <4> QED
        BY <2>2, <4>1 DEF Kept
    <3> QED
      BY <1>1, <1>2, <1>6, <1>9, <3>1, <3>2, <3>3, <3>4, FlowSame
  <2>6. Flow(p, s)'
    <3>1. Len(q'[p]) = 0
      BY <1>9, <1>13, <2>3, <2>4, Numbers
    <3>2. (Put(p)' + Lead(p)') - (Rcvd(s)' + Lead(s)') = 0
      BY <1>11, <2>3, <2>4, Numbers
    <3> QED
      BY <3>1, <3>2 DEF Flow
  <2>7. Local(s, p)'
    BY <1>7, <1>10, <1>15, <2>1 DEF Local
  <2>8. Local(p, s)'
    <3>1. ands'[p] <= ands'[s] + 1
      BY <1>7, <1>15, <2>1
    <3> QED
      BY <1>2, <1>7, <1>10, <2>2, <2>4, <3>1 DEF Local
  <2>9. AndCorrect'
    <3>1. ands'[0] # ands'[1]
      BY <1>1, <1>7, <1>15, <2>1 DEF Side
    <3> QED
      BY <3>1 DEF AndCorrect
  <2> QED
    BY <1>1, <1>8, <2>5, <2>6, <2>7, <2>8, <2>9, RoundsMake
<1>17. CASE Ahead(p)
  <2>1. AndCorrect' /\ ~ Ahead(s)' /\ ~ Ahead(p)'
    BY <1>1, <1>14, <1>17, FinishSecond
  <2>2. Rcvd(p) = 0 /\ q[s] = <<>> /\ ands[p] = ands[s] + 1
    BY <1>1, <1>17, AheadOf
  <2>3. Lead(p) = All /\ Lead(p)' = 0 /\ Lead(s)' = 0
    BY <1>17, <2>1, Numbers DEF Lead
  <2>4. Put(p) = 0 \/ Put(p) = ELL
    BY <1>4, <2>2, Numbers DEF Progress
  <2>5. Flow(s, p)'
    <3>1. Len(q'[s]) = 0
      BY <1>9, <2>2, NothingAny
    <3>2. (Put(s)' + Lead(s)') - (Rcvd(p)' + Lead(p)') = 0
      BY <1>11, <2>2, <2>3
    <3> QED
      BY <3>1, <3>2 DEF Flow
  <2>6. Flow(p, s)'
    <3>1. Len(q'[p]) = Put(p)
      BY <1>9, <1>12, <1>13, <2>3, Numbers
    <3>2. Len(q'[p]) = (Put(p)' + Lead(p)') - (Rcvd(s)' + Lead(s)')
      BY <1>11, <1>12, <2>3, <3>1
    <3>3. ASSUME NEW n \in 1 .. Len(q'[p])
          PROVE  q'[p][n] = Stream(p, n)'
      <4>1. n \in Col
        BY <2>4, <3>1, Numbers DEF Col
      <4>2. n + 1 \in 1 .. Len(q[p])
        BY <1>9, <1>13
      <4>3. ELL + 1 + (n + 1) = All + n /\ (All + n) - All = n
            /\ All + n # ELL + 1 /\ All + n # ELL + 2
            /\ n # ELL + 1 /\ n # ELL + 2 /\ n - 0 = n
        BY <4>1, Numbers DEF Col
      <4>4. q'[p][n] = q[p][n + 1]
        BY <1>9, <1>13
      <4>5. q[p][n + 1] = Stream(p, ELL + 1 + (n + 1))
        BY <1>13, <4>2
      <4>6. Stream(p, All + n) = Msg("u", n, Column(p, n, op[p].a))
        BY <2>3, <4>3, HeadTags
      <4>7. Stream(p, n)' = Msg("u", n, Column(p, n, op'[p].a))
        BY <2>3, <4>3 DEF Stream, Column
      <4> QED
        BY <1>7, <4>3, <4>4, <4>5, <4>6, <4>7
    <3>4. Rcvd(s)' + Lead(s)' = 0 /\ \A n \in 1 .. Len(q'[p]) : 0 + n = n
      BY <1>11, <2>3
    <3>5. \A n \in 1 .. Len(q'[p]) :
             q'[p][n] = Stream(p, Rcvd(s) + Lead(s) + n)'
      BY <3>3, <3>4
    <3> QED
      BY <3>2, <3>5 DEF Flow
  <2>7. Local(s, p)'
    BY <1>7, <1>10, <1>15, <2>2 DEF Local
  <2>8. Local(p, s)'
    <3>1. ands'[p] <= ands'[s] + 1
      BY <1>7, <1>15, <2>2
    <3>2. \/ pc[p] = "idle"
          \/ pc[p] = "u" /\ idx[p] = 1
      BY <1>4, <2>2, Numbers DEF Progress, Col
    <3>3. CASE pc[p] = "idle"
      BY <1>2, <1>10, <3>1, <3>3 DEF Local
    <3>4. CASE pc[p] = "u" /\ idx[p] = 1
      <4>1. Len(op[p].U) = 0 /\ 1 - 1 = 0 /\ 1 \in Col
        BY <1>2, <3>4, Numbers DEF Local, Col
      <4> QED
        BY <1>7, <1>10, <3>1, <3>4, <4>1 DEF Local
    <3> QED
      BY <3>2, <3>3, <3>4
  <2> QED
    BY <1>1, <1>8, <2>1, <2>5, <2>6, <2>7, <2>8, RoundsMake
<1> QED
  BY <1>16, <1>17

LEMMA RoundsStep ==
    ASSUME Typed, Rounds, AndCorrect, NEW s \in Side, Step(s)
    PROVE  Rounds' /\ AndCorrect'
<1>1. /\ pc[s] # "sendS" /\ pc[s] # "co.R" /\ pc[s] # "co.S"
      /\ pc[s] # "co.e"
  <2>1. Local(s, Peer(s))
    BY RoundsAt
  <2> QED
    BY <2>1 DEF Local
<1>2. Enter(s) \/ TakeU(s) \/ TakeE0(s) \/ Finish(s)
  BY <1>1, StepWhere
<1>3. ~ Finish(s) => AndCorrect'
  BY StepTyped, AndKept
<1> QED
  BY <1>2, <1>3, EnterStep, TakeUStep, TakeE0Step, FinishStep

-----------------------------------------------------------------------------
(***************************************************************************)
(* The theorems.                                                           *)
(***************************************************************************)
LEMMA OTInit == Init => OTInv
<1> SUFFICES ASSUME Init PROVE OTInv
  OBVIOUS
<1>1. /\ pc = [s \in Side |-> "idle"] /\ idx = [s \in Side |-> 0]
      /\ q = [s \in Side |-> <<>>]
      /\ base = [s \in Side |-> [s |-> [n \in Col |-> 0], kc |-> NoSeeds]]
      /\ co = [s \in Side |-> [k |-> 0, S |-> 0]]
      /\ op = [s \in Side |-> NoOp]
      /\ last = [s \in Side |-> [a |-> Zero, b |-> Zero, z |-> Zero]]
      /\ ands = [s \in Side |-> 0]
  BY DEF Init
<1>2. ASSUME NEW s \in Side
      PROVE  /\ base[s].s = [n \in Col |-> 0] /\ base[s].kc = NoSeeds
             /\ DOMAIN base[s] = {"s", "kc"} /\ DOMAIN co[s] = {"k", "S"}
             /\ last[s].a = Zero /\ last[s].b = Zero /\ last[s].z = Zero
             /\ ands[s] = 0 /\ q[s] = <<>>
  BY <1>1
<1>3. ASSUME NEW s \in Side
      PROVE  /\ OpFields \subseteq DOMAIN op[s] /\ op[s].U = <<>>
             /\ op[s].a = Zero /\ op[s].b = Zero /\ op[s].r = Zero
  BY <1>1 DEF NoOp, OpFields
<1>4. Shaped
  BY <1>1 DEF Shaped
<1>5. ASSUME NEW s \in Side
      PROVE  BaseTyped(s) /\ OpTyped(s) /\ LastTyped(s) /\ Unseeded(s)
  <2>1. BaseTyped(s)
    BY <1>2, ZeroWord DEF BaseTyped, NoSeeds
  <2>2. OpTyped(s)
    BY <1>3, ZeroWord, NothingAny DEF OpTyped
  <2>3. LastTyped(s)
    BY <1>2, ZeroWord DEF LastTyped
  <2>4. \A n \in Col : NoSeeds[n] = NoSeed /\ ~ (n < 1)
    BY DEF NoSeeds, Col
  <2>5. Unseeded(s)
    BY <1>2, <2>4 DEF Unseeded, SeededTo
  <2> QED
    BY <2>1, <2>2, <2>3, <2>5
<1>6. Typed
  BY <1>2, <1>4, <1>5, NothingAny DEF Typed
<1>7. AndCorrect
  <2>1. ASSUME NEW s \in Side, NEW j \in Row
        PROVE  last[s].a[j] = 0 /\ last[s].b[j] = 0 /\ last[s].z[j] = 0
    BY <1>2 DEF Zero
  <2>2. Xor(0, 0) = 0 /\ 0 * 0 = 0
    BY XorTable, TimesTable
  <2> QED
    BY <2>1, <2>2, Sides DEF AndCorrect, Side
<1>8. Start
  <2>1. pc[0] = "idle" /\ pc[1] = "idle" /\ Silent(0) /\ Silent(1)
        /\ Unseeded(0) /\ Unseeded(1)
    BY <1>1, <1>2, <1>5 DEF Side, Silent
  <2>2. Fresh
    BY <1>2, <1>3 DEF Fresh
  <2> QED
    BY <2>1, <2>2 DEF Start
<1> QED
  BY <1>6, <1>7, <1>8 DEF OTInv

LEMMA OTNext == OTInv /\ [Next]_vars => OTInv'
<1> SUFFICES ASSUME OTInv, [Next]_vars PROVE OTInv'
  OBVIOUS
<1>1. CASE UNCHANGED vars
  <2>1. /\ pc' = pc /\ idx' = idx /\ q' = q /\ base' = base /\ co' = co
        /\ op' = op /\ last' = last /\ ands' = ands
    BY <1>1 DEF vars
  <2>2. Typed' <=> Typed
    BY <2>1 DEF Typed, Shaped, BaseTyped, OpTyped, LastTyped
  <2>3. (\A s \in Side : \A n : SeededTo(s, n)' <=> SeededTo(s, n))
        /\ (Fresh' <=> Fresh) /\ \A s : Silent(s)' <=> Silent(s)
    BY <2>1 DEF SeededTo, Fresh, Silent
  <2>4. AndCorrect' <=> AndCorrect
    BY <2>1 DEF AndCorrect
  <2>5. \A s : (Unseeded(s)' <=> Unseeded(s)) /\ (Seeded(s)' <=> Seeded(s))
    BY <2>1 DEF Unseeded, Seeded, SeededTo
  <2>6. Start' <=> Start
    BY <2>1, <2>3, <2>5 DEF Start
  <2>7. Middle' <=> Middle
    BY <2>1, <2>3, <2>5 DEF Middle
  <2>8. \A c, p : /\ AtS(c, p)' <=> AtS(c, p)
                  /\ AtR(c, p)' <=> AtR(c, p)
                  /\ AtE(c, p)' <=> AtE(c, p)
    <3>1. \A c, p, n : (Secret(p)' <=> Secret(p))
                       /\ (SeededTo(c, n)' <=> SeededTo(c, n))
                       /\ Point(c, n)' = Point(c, n)
                       /\ (Handed(p)' <=> Handed(p)) /\ More(p)' = More(p)
      BY <2>1 DEF Secret, SeededTo, Point, Handed, More, Columns
    <3>2. \A c, p, e : Answers(c, p, e)' <=> Answers(c, p, e)
      BY <2>1 DEF Answers, CoKey
    <3>3. ASSUME NEW c, NEW p PROVE AtS(c, p)' <=> AtS(c, p)
      BY <2>1, <2>5, <3>1 DEF AtS, Silent
    <3>4. ASSUME NEW c, NEW p PROVE AtR(c, p)' <=> AtR(c, p)
      <4> DEFINE n == idx[c]
      <4>1. n' = n /\ Point(c, n)' = Point(c, n)
            /\ (SeededTo(c, n)' <=> SeededTo(c, n))
        BY <2>1 DEF Point, SeededTo
      <4> QED
        BY <2>1, <3>1, <4>1 DEF AtR, Silent
    <3>5. ASSUME NEW c, NEW p PROVE AtE(c, p)' <=> AtE(c, p)
      <4>1. SeededTo(c, idx[c])' <=> SeededTo(c, idx[c])
        BY <2>1 DEF SeededTo
      <4> QED
        BY <2>1, <3>1, <3>2, <4>1 DEF AtE, Silent
    <3> QED
      BY <3>3, <3>4, <3>5
  <2>9. FirstHalf' <=> FirstHalf
    BY <2>1, <2>3, <2>5, <2>8 DEF FirstHalf
  <2>10. SecondHalf' <=> SecondHalf
    BY <2>1, <2>3, <2>5, <2>8 DEF SecondHalf
  <2>11. Rounds' <=> Rounds
    <3>1. \A s : Rcvd(s)' = Rcvd(s) /\ Put(s)' = Put(s)
      BY <2>1 DEF Rcvd, Put
    <3>2. \A s \in Side : /\ \A n : Stream(s, n)' = Stream(s, n)
                          /\ Pay0(s)' = Pay0(s) /\ Lead(s)' = Lead(s)
      BY <2>1, StreamKept
    <3>3. \A s, p \in Side : Flow(s, p)' <=> Flow(s, p)
      BY <2>1, <3>1, <3>2 DEF Flow
    <3>4. \A s, p \in Side : Local(s, p)' <=> Local(s, p)
      BY <2>1, <3>2 DEF Local
    <3> QED
      BY <2>5, <3>3, <3>4 DEF Rounds, Side
  <2> QED
    BY <2>2, <2>4, <2>6, <2>7, <2>9, <2>10, <2>11 DEF OTInv
<1>2. ASSUME NEW s \in Side, Step(s) PROVE OTInv'
  <2>1. Typed' /\ (~ Finish(s) => AndCorrect')
    BY <1>2, StepTyped, AndKept DEF OTInv
  <2>2. CASE Rounds
    BY <1>2, <2>1, <2>2, RoundsStep DEF OTInv
  <2>3. CASE ~ Rounds
    <3>1. Start \/ FirstHalf \/ Middle \/ SecondHalf
      BY <2>3 DEF OTInv
    <3>2. pc[s] # "e1"
      <4>1. CASE Start \/ Middle
        BY <4>1 DEF Start, Middle, Side
      <4>2. CASE FirstHalf
        BY <4>2 DEF FirstHalf, AtS, AtR, AtE, Handed, Side
      <4>3. CASE SecondHalf
        BY <4>3 DEF SecondHalf, AtS, AtR, AtE, Handed, Side
      <4> QED
        BY <3>1, <4>1, <4>2, <4>3
    <3>3. AndCorrect'
      BY <2>1, <3>2 DEF Finish, Takes
    <3>4. Start' \/ FirstHalf' \/ Middle' \/ SecondHalf' \/ Rounds'
      BY <1>2, <3>1, StartStep, FirstHalfStep, MiddleStep, SecondHalfStep
         DEF OTInv
    <3> QED
      BY <2>1, <3>3, <3>4 DEF OTInv
  <2> QED
    BY <2>2, <2>3
<1> QED
  BY <1>1, <1>2, Sides DEF Next, Side

THEOREM OTInvariant == Spec => []OTInv
BY OTInit, OTNext, PTL DEF Spec

\* The output shares of a completed AND join to the AND of what the input
\* shares join to (and_bits), on every schedule.
THEOREM SecureAnd == Spec => []AndCorrect
<1>1. OTInv => AndCorrect
  BY DEF OTInv
<1> QED
  BY <1>1, OTInvariant, PTL

\* Of two payloads under way the receiver's row opens the chosen one and not
\* the other (IKNP in ot.py).
THEOREM Oblivious == Spec => []OneOpens
<1>1. OTInv => OneOpens
  <2> SUFFICES ASSUME OTInv, NEW s \in Side,
                      \E n \in Col : base[Peer(s)].s[n] = 1, pc[s] = "e1",
                      q[Peer(s)] # <<>>, NEW j \in Row
               PROVE  LET e == <<op[s].e0[j], Got(s)[j]>>
                          k == <<TRow(s, j), j>>
                      IN  /\ Opened(e[op[s].a[j] + 1], k, {}) # {}
                          /\ Opened(e[2 - op[s].a[j]], k, {}) = {}
    BY DEF OneOpens
  <2> DEFINE p == Peer(s)
  <2>1. Typed /\ Rounds
    <3>1. ~ Start /\ ~ Middle
      BY DEF Start, Middle, Side
    <3>2. ~ FirstHalf
      BY DEF FirstHalf, AtS, AtR, AtE, Handed, Side
    <3>3. ~ SecondHalf
      BY DEF SecondHalf, AtS, AtR, AtE, Handed, Side
    <3> QED
      BY <3>1, <3>2, <3>3 DEF OTInv
  <2>2. p \in Side /\ Peer(p) = s
    BY Sides
  <2>3. Flow(p, s) /\ Local(s, p)
    BY <2>1, RoundsAt
  <2>4. op[s].e0 = Pay0(p) /\ Rcvd(s) = ELL + 1
    BY <2>3 DEF Local, Rcvd
  <2>5. ~ Ahead(s) /\ Lead(s) = 0
    <3>1. ~ Ahead(s)
      BY <2>1, <2>2, AheadOf
    <3> QED
      BY <3>1, Numbers
  <2>6. IsSeq(q[p])
    BY <2>1, <2>2 DEF Typed
  <2>7. Head(q[p]) = Stream(p, ELL + 2)
    <3>1. Head(q[p]) = q[p][1] /\ 1 \in 1 .. Len(q[p])
      BY <2>6, TailAny
    <3>2. Rcvd(s) + Lead(s) + 1 = ELL + 2
      BY <2>4, <2>5, Numbers
    <3> QED
      BY <2>3, <3>1, <3>2 DEF Flow
  <2>8. Got(s) = Pay1(p)
    BY <2>7, HeadTags DEF Got, Msg
  <2>9. /\ RowFor(p, j, 0) = TRow(s, j)
        /\ RowFor(p, j, 1) # TRow(s, j)
    BY <2>1, <2>2, RowOpens
  <2>10. /\ Pay0(p)[j] = Sealed(MaskOf(p, j), <<RowFor(p, j, op[s].a[j]), j>>)
         /\ Pay1(p)[j] = Sealed(Xor(MaskOf(p, j), ShareOf(p, j)),
                                <<RowFor(p, j, 1 - op[s].a[j]), j>>)
    BY <2>2 DEF Pay0, Pay1, Row0, Row1
  <2>11. op[s].a[j] \in Bit
    BY <2>1, Words
  <2> DEFINE k == <<TRow(s, j), j>>
             x == Pay0(p)[j]
             y == Pay1(p)[j]
  <2>12. CASE op[s].a[j] = 0
    <3>1. x.k = k /\ y.k # k
      BY <2>9, <2>10, <2>12 DEF Sealed
    <3> HIDE DEF x, y, k
    <3>2. Opened(x, k, {}) # {} /\ Opened(y, k, {}) = {}
      BY <3>1 DEF Opened
    <3>3. <<x, y>>[0 + 1] = x /\ <<x, y>>[2 - 0] = y
      OBVIOUS
    <3> QED
      BY <2>4, <2>8, <2>12, <3>2, <3>3 DEF x, y, k
  <2>13. CASE op[s].a[j] = 1
    <3>1. x.k # k /\ y.k = k
      BY <2>9, <2>10, <2>13 DEF Sealed
    <3> HIDE DEF x, y, k
    <3>2. Opened(y, k, {}) # {} /\ Opened(x, k, {}) = {}
      BY <3>1 DEF Opened
    <3>3. <<x, y>>[1 + 1] = y /\ <<x, y>>[2 - 1] = x
      OBVIOUS
    <3> QED
      BY <2>4, <2>8, <2>13, <3>2, <3>3 DEF x, y, k
  <2> QED
    BY <2>11, <2>12, <2>13 DEF Bit
<1> QED
  BY <1>1, OTInvariant, PTL

\* A side that waits for a message never meets another one: the order of the
\* base phase, the step from it to the first batch and the batches agree on
\* both sides (the tags of channel.py would refuse anything else).
THEOREM OneOrder == Spec => []TagsFit
<1>1. OTInv => TagsFit
  <2> SUFFICES ASSUME OTInv, NEW s \in Side, pc[s] \in Waits,
                      q[Peer(s)] # <<>>
               PROVE  /\ Head(q[Peer(s)]).tag = pc[s]
                      /\ Head(q[Peer(s)]).i = idx[s]
    BY DEF TagsFit
  <2> DEFINE p == Peer(s)
  <2>1. s = 0 \/ s = 1
    BY DEF Side
  <2>2. p \in Side /\ Peer(p) = s /\ (s = 0 => p = 1) /\ (s = 1 => p = 0)
    BY <2>1, Sides
  <2>3. ~ Start /\ ~ Middle
    BY <2>1, <2>2 DEF Start, Middle, Silent
  <2>4. ASSUME NEW c \in Side, NEW d \in Side, d = Peer(c),
               AtS(c, d), pc[c] = "co.S" => idx[c] = 0,
               pc[c] = "idle" \/ pc[c] = "co.S"
        PROVE  Head(q[p]).tag = pc[s] /\ Head(q[p]).i = idx[s]
    <3>1. q[c] = <<>> /\ q[d] = <<Msg("co.S", 0, co[d].S)>>
      BY <2>4 DEF AtS, Silent
    <3>2. s = c /\ p = d
      BY <2>4, <3>1, Sides
    <3>3. Head(q[d]).tag = "co.S" /\ Head(q[d]).i = 0
      BY <3>1, OneAny DEF Msg
    <3> QED
      BY <2>4, <3>2, <3>3 DEF Waits
  <2>5. ASSUME NEW c \in Side, NEW d \in Side, d = Peer(c), AtR(c, d)
        PROVE  Head(q[p]).tag = pc[s] /\ Head(q[p]).i = idx[s]
    <3>1. /\ q[d] = <<>> /\ pc[d] = "co.R" /\ idx[d] = idx[c]
          /\ q[c] = <<Msg("co.R", idx[c], Point(c, idx[c]))>>
      BY <2>5 DEF AtR, Silent
    <3>2. s = d /\ p = c
      BY <2>5, <3>1, Sides
    <3>3. Head(q[c]).tag = "co.R" /\ Head(q[c]).i = idx[c]
      BY <3>1, OneAny DEF Msg
    <3> QED
      BY <3>1, <3>2, <3>3
  <2>6. ASSUME NEW c \in Side, NEW d \in Side, d = Peer(c), AtE(c, d)
        PROVE  Head(q[p]).tag = pc[s] /\ Head(q[p]).i = idx[s]
    <3>1. q[c] = <<>> /\ pc[c] = "co.e"
      BY <2>6 DEF AtE, Silent
    <3>2. s = c /\ p = d
      BY <2>6, <3>1, Sides
    <3>3. PICK e : /\ e.tag = "co.e" /\ e.i = idx[c]
                   /\ q[d] = <<e>> \/ q[d] = <<e>> \o More(d)
      BY <2>6 DEF AtE, Answers
    <3>4. Head(q[d]) = e
      <4>1. IsSeq(More(d)) /\ IsSeq(<<e>>) /\ Len(<<e>>) = 1 /\ <<e>>[1] = e
        BY OneAny, NothingAny, ColumnsSeq DEF More
      <4>2. (<<e>> \o More(d))[1] = e
        BY <4>1, JoinAny
      <4>3. q[d][1] = e /\ IsSeq(q[d]) /\ q[d] # <<>>
        BY <3>2, <3>3, <4>1, <4>2 DEF OTInv, Typed
      <4> QED
        BY <4>3, TailAny
    <3> QED
      BY <3>1, <3>2, <3>3, <3>4
  <2>7. CASE FirstHalf
    BY <2>4, <2>5, <2>6, <2>7, Sides DEF FirstHalf
  <2>8. CASE SecondHalf
    BY <2>4, <2>5, <2>6, <2>8, Sides DEF SecondHalf
  <2>9. CASE Rounds
    <3>1. Typed /\ Flow(p, s) /\ Local(s, p) /\ IsSeq(q[p])
      BY <2>2, <2>9, RoundsAt DEF OTInv, Typed
    <3>2. ~ Ahead(s) /\ Lead(s) = 0 /\ Progress(s)
      <4>1. ~ Ahead(s) /\ Progress(s)
        BY <2>2, <2>9, <3>1, AheadOf
      <4> QED
        BY <4>1, Numbers
    <3>3. Head(q[p]) = q[p][1] /\ 1 \in 1 .. Len(q[p])
      BY <3>1, TailAny
    <3>4. \A n : n = Rcvd(s) + 1 => Head(q[p]) = Stream(p, n)
      <4>1. Rcvd(s) + 0 = Rcvd(s)
        BY <3>2, Numbers DEF Progress, Col
      <4> QED
        BY <3>1, <3>2, <3>3, <4>1 DEF Flow
    <3>5. CASE pc[s] = "u" /\ idx[s] \in Col /\ Rcvd(s) = idx[s] - 1
      <4>1. ~ Ahead(p) /\ Lead(p) = 0
        <5>1. ~ Ahead(p)
          BY <2>2, <2>9, <3>1, <3>5, AheadOf
        <5> QED
          BY <5>1, Numbers
      <4>2. idx[s] = Rcvd(s) + 1 /\ idx[s] # ELL + 1 /\ idx[s] # ELL + 2
            /\ idx[s] - 0 = idx[s]
        BY <3>5, Numbers DEF Col
      <4>3. Head(q[p]) = Msg("u", idx[s], Column(p, idx[s], op[p].a))
        BY <3>4, <4>1, <4>2, HeadTags
      <4> QED
        BY <3>5, <4>3 DEF Msg
    <3>6. CASE pc[s] = "e0" /\ Rcvd(s) = ELL
      <4>1. Head(q[p]) = Msg("e0", 0, Pay0(p)) /\ idx[s] = 0
        BY <3>1, <3>4, <3>6, HeadTags DEF Local
      <4> QED
        BY <3>6, <4>1 DEF Msg
    <3>7. CASE pc[s] = "e1" /\ Rcvd(s) = ELL + 1
      <4>1. Rcvd(s) + 1 = ELL + 2
        BY <3>7, Numbers
      <4>2. Head(q[p]) = Msg("e1", 0, Pay1(p)) /\ idx[s] = 0
        BY <3>1, <3>4, <3>7, <4>1, HeadTags DEF Local
      <4> QED
        BY <3>7, <4>2 DEF Msg
    <3> QED
      BY <3>2, <3>5, <3>6, <3>7 DEF Progress, Waits
  <2> QED
    BY <2>3, <2>7, <2>8, <2>9 DEF OTInv
<1> QED
  BY <1>1, OTInvariant, PTL

-----------------------------------------------------------------------------
(***************************************************************************)
(* No schedule gets stuck.                                                 *)
(***************************************************************************)
\* Side s has a step: it starts an AND, sends its point, or the message that
\* it waits for (see TagsFit) is there.
GoesOn(s) ==
    \/ pc[s] = "idle" /\ ands[s] < MaxAnds
    \/ pc[s] = "sendS"
    \/ pc[s] \in Waits /\ q[Peer(s)] # <<>>

\* The two sides never wait for each other, and when both have computed all
\* ANDs no message is left over.
NeverStuck ==
    \/ \A s \in Side : pc[s] = "idle" /\ ands[s] = MaxAnds /\ q[s] = <<>>
    \/ \E s \in Side : GoesOn(s)

\* A side that is in an AND has one to compute.
Counted ==
    \A s \in Side : ands[s] <= MaxAnds /\ (pc[s] # "idle" => ands[s] < MaxAnds)

LEMMA CountedStep ==
    ASSUME Typed, Counted, NEW s \in Side, Step(s)
    PROVE  Counted'
<1>1. PICK p \in Side : p = Peer(s) /\ \A t \in Side : t = s \/ t = p
  BY Sides
<1>2. ands[s] \in Nat /\ ands[p] \in Nat /\ MaxAnds \in Nat
  BY OTAssumption DEF Typed, Shaped
<1>3. CASE Finish(s)
  <2>1. ands'[s] = ands[s] + 1 /\ ands'[p] = ands[p]
    BY <1>1, <1>3, FinishTyped
  <2>2. pc'[s] = "idle" /\ pc'[p] = pc[p] /\ pc[s] = "e1"
    BY <1>1, <1>3, GoTo DEF Finish, Takes
  <2>3. ands[s] + 1 <= MaxAnds
    BY <1>2, <2>2 DEF Counted
  <2> QED
    BY <1>1, <2>1, <2>2, <2>3 DEF Counted
<1>4. CASE ~ Finish(s)
  <2>1. UNCHANGED ands
    BY <1>4, StepTyped
  <2>2. \E x, n : Goes(s, x, n) /\ (pc[s] # "idle" \/ ands[s] < MaxAnds)
    <3>1. CASE Enter(s)
      BY <3>1 DEF Enter
    <3>2. CASE SendS(s)
      BY <3>2 DEF SendS
    <3>3. CASE AnswerR(s)
      BY <3>3 DEF AnswerR, Takes, After
    <3>4. CASE TakeS(s)
      BY <3>4 DEF TakeS, Takes
    <3>5. CASE TakeE(s)
      BY <3>5 DEF TakeE, Takes, After
    <3>6. CASE TakeU(s)
      BY <3>6 DEF TakeU, Takes
    <3>7. CASE TakeE0(s)
      BY <3>7 DEF TakeE0, Takes
    <3> QED
      BY <1>4, <3>1, <3>2, <3>3, <3>4, <3>5, <3>6, <3>7 DEF Step
  <2>3. pc'[p] = pc[p]
    BY <1>1, <2>2, GoTo
  <2>4. ands[s] < MaxAnds
    BY <2>2 DEF Counted
  <2> QED
    BY <1>1, <2>1, <2>3, <2>4 DEF Counted
<1> QED
  BY <1>3, <1>4

\* In the base phase.
LEMMA StartGoesOn ==
    ASSUME Typed, Counted, Start \/ FirstHalf \/ Middle \/ SecondHalf
    PROVE  NeverStuck
<1>1. Peer(0) = 1 /\ Peer(1) = 0 /\ 0 \in Side /\ 1 \in Side /\ Side = {0, 1}
  BY DEF Peer, Side
<1>2. Fresh /\ \A s \in Side : ands[s] = 0
  BY DEF Start, FirstHalf, Middle, SecondHalf, Fresh
<1>3. MaxAnds \in Nat
  BY OTAssumption
<1>4. CASE Start
  <2>1. CASE \A s \in Side : pc[s] = "idle"
    <3>1. CASE MaxAnds = 0
      BY <1>1, <1>2, <1>4, <2>1, <3>1 DEF NeverStuck, Start, Silent
    <3>2. CASE MaxAnds > 0
      BY <1>1, <1>2, <2>1, <3>2 DEF NeverStuck, GoesOn
    <3> QED
      BY <1>3, <3>1, <3>2
  <2>2. CASE pc[1] = "sendS"
    BY <1>1, <2>2 DEF NeverStuck, GoesOn
  <2>3. CASE pc[1] = "idle" /\ pc[0] # "idle"
    <3>1. ands[1] < MaxAnds
      BY <1>1, <1>2, <2>3 DEF Counted
    <3> QED
      BY <1>1, <2>3, <3>1 DEF NeverStuck, GoesOn
  <2> QED
    BY <1>1, <1>4, <2>1, <2>2, <2>3 DEF Start
<1>5. ASSUME NEW c \in Side, NEW p \in Side, p = Peer(c), AtS(c, p),
             pc[c] \in {"idle", "co.S"}
      PROVE  NeverStuck
  <2>1. pc[p] = "co.R" /\ q[p] # <<>>
    BY <1>5, OneAny DEF AtS
  <2>2. 0 < MaxAnds
    BY <1>2, <2>1 DEF Counted
  <2> QED
    BY <1>2, <1>5, <2>1, <2>2 DEF NeverStuck, GoesOn, Waits
<1>6. ASSUME NEW c \in Side, NEW p \in Side, p = Peer(c), AtR(c, p)
      PROVE  NeverStuck
  <2>1. pc[p] = "co.R" /\ q[c] # <<>> /\ c = Peer(p)
    BY <1>6, OneAny, Sides DEF AtR
  <2> QED
    BY <2>1 DEF NeverStuck, GoesOn, Waits
<1>7. ASSUME NEW c \in Side, NEW p \in Side, p = Peer(c), AtE(c, p)
      PROVE  NeverStuck
  <2>1. pc[c] = "co.e"
    BY <1>7 DEF AtE
  <2>2. PICK e : q[p] = <<e>> \/ q[p] = <<e>> \o More(p)
    BY <1>7 DEF AtE
  <2>3. q[p] # <<>>
    <3>1. PICK M : M = More(p)
      OBVIOUS
    <3>2. IsSeq(M) /\ IsSeq(<<e>>) /\ Len(<<e>>) = 1
      BY <3>1, OneAny, NothingAny, ColumnsSeq DEF More
    <3>3. Len(<<e>> \o M) = 1 + Len(M) /\ Len(M) \in Nat
      BY <3>2, JoinAny DEF IsSeq
    <3>4. Len(<<e>> \o M) # 0
      BY <3>3
    <3>5. <<e>> \o M # <<>> /\ <<e>> # <<>>
      BY <3>4, OneAny, NothingAny
    <3> QED
      BY <2>2, <3>1, <3>5
  <2> QED
    BY <1>7, <2>1, <2>3 DEF NeverStuck, GoesOn, Waits
<1>8. CASE FirstHalf
  BY <1>1, <1>5, <1>6, <1>7, <1>8 DEF FirstHalf
<1>9. CASE Middle
  BY <1>1, <1>9 DEF Middle, NeverStuck, GoesOn
<1>10. CASE SecondHalf
  BY <1>1, <1>5, <1>6, <1>7, <1>10 DEF SecondHalf
<1> QED
  BY <1>4, <1>8, <1>9, <1>10

LEMMA ProgressIn ==
    ASSUME NEW s, Progress(s)
    PROVE  /\ Rcvd(s) \in Nat /\ Put(s) \in Nat
           /\ pc[s] = "idle" => Rcvd(s) = 0 /\ Put(s) = 0
           /\ pc[s] # "idle" =>
                /\ pc[s] \in Waits
                /\ \/ Put(s) = ELL /\ Rcvd(s) \in 0 .. ELL - 1
                   \/ Put(s) = ELL + 2 /\ Rcvd(s) \in ELL .. ELL + 1
<1>1. ELL \in Nat \ {0} /\ All = ELL + 2
  BY Numbers
<1>2. CASE pc[s] = "idle" /\ Rcvd(s) = 0 /\ Put(s) = 0
  BY <1>2
<1>3. CASE pc[s] = "u" /\ idx[s] \in Col /\ Rcvd(s) = idx[s] - 1 /\ Put(s) = ELL
  BY <1>1, <1>3 DEF Col, Waits
<1>4. CASE pc[s] = "e0" /\ Rcvd(s) = ELL /\ Put(s) = All
  BY <1>1, <1>4 DEF Waits
<1>5. CASE pc[s] = "e1" /\ Rcvd(s) = ELL + 1 /\ Put(s) = All
  BY <1>1, <1>5 DEF Waits
<1> QED
  BY <1>2, <1>3, <1>4, <1>5 DEF Progress

\* In the rounds: who has received less than the other one has sent goes on.
LEMMA RoundsGoOn ==
    ASSUME Typed, Counted, Rounds
    PROVE  NeverStuck
<1>1. PICK s \in Side, p \in Side : p = Peer(s) /\ s = Peer(p)
  BY DEF Side, Peer
<1>2. /\ Progress(s) /\ Progress(p) /\ ~ (Ahead(s) /\ Ahead(p))
      /\ Len(q[s]) = (Put(s) + Lead(s)) - (Rcvd(p) + Lead(p))
      /\ Len(q[p]) = (Put(p) + Lead(p)) - (Rcvd(s) + Lead(s))
      /\ ~ Ahead(s) /\ ~ Ahead(p) => ands[s] = ands[p]
  BY <1>1, AheadOf
<1>3. /\ ELL \in Nat \ {0} /\ All = ELL + 2 /\ MaxAnds \in Nat
      /\ ands[s] \in Nat /\ ands[p] \in Nat
      /\ IsSeq(q[s]) /\ IsSeq(q[p])
      /\ Side = {s, p}
  BY <1>1, Numbers, Sides, OTAssumption DEF Typed, Shaped
<1>4. ASSUME NEW r \in Side, NEW o \in Side, o = Peer(r), Ahead(o), Progress(r),
             Len(q[o]) = (Put(o) + Lead(o)) - (Rcvd(r) + Lead(r)),
             Progress(o), ~ Ahead(r)
      PROVE  NeverStuck
  <2>1. pc[r] \in {"e0", "e1"} /\ Lead(o) = All /\ Lead(r) = 0
    BY <1>1, <1>4, AheadOf, Sides, Numbers
  <2>2. Rcvd(r) \in ELL .. ELL + 1 /\ Put(o) \in {0, ELL, All}
    BY <1>3, <1>4, <2>1 DEF Progress
  <2>3. Len(q[o]) # 0
    BY <1>3, <1>4, <2>1, <2>2
  <2>4. q[o] # <<>>
    BY <2>3, NothingAny
  <2> QED
    BY <1>4, <2>1, <2>4 DEF NeverStuck, GoesOn, Waits
<1>5. CASE Ahead(s)
  BY <1>1, <1>2, <1>4, <1>5
<1>6. CASE Ahead(p)
  BY <1>1, <1>2, <1>4, <1>6
<1>7. CASE ~ Ahead(s) /\ ~ Ahead(p)
  <2>1. /\ Lead(s) = 0 /\ Lead(p) = 0 /\ ands[s] = ands[p]
    BY <1>2, <1>7, Numbers
  <2>2. Len(q[s]) = Put(s) - Rcvd(p) /\ Len(q[p]) = Put(p) - Rcvd(s)
    <3>1. Put(s) \in Nat /\ Put(p) \in Nat /\ Rcvd(s) \in Nat /\ Rcvd(p) \in Nat
      BY <1>2, ProgressIn
    <3> QED
      BY <1>2, <2>1, <3>1
  <2>3. CASE pc[s] = "idle" \/ pc[p] = "idle"
    <3>1. CASE ands[s] < MaxAnds
      BY <2>1, <2>3, <3>1 DEF NeverStuck, GoesOn
    <3>2. CASE ands[s] = MaxAnds
      <4>1. pc[s] = "idle" /\ pc[p] = "idle"
        BY <1>1, <1>3, <2>1, <3>2 DEF Counted
      <4>2. Len(q[s]) = 0 /\ Len(q[p]) = 0
        BY <1>2, <2>2, <4>1, ProgressIn
      <4>3. q[s] = <<>> /\ q[p] = <<>>
        BY <1>3, <4>2, EmptyAny
      <4> QED
        BY <1>3, <2>1, <3>2, <4>1, <4>3 DEF NeverStuck
    <3> QED
      BY <1>3, <3>1, <3>2 DEF Counted
  <2>4. CASE pc[s] # "idle" /\ pc[p] # "idle"
    <3>1. Len(q[s]) # 0 \/ Len(q[p]) # 0
      <4>1. PICK a, b, c, d : a = Put(s) /\ b = Rcvd(s) /\ c = Put(p) /\ d = Rcvd(p)
        OBVIOUS
      <4>2. /\ \/ a = ELL /\ b \in 0 .. ELL - 1
               \/ a = ELL + 2 /\ b \in ELL .. ELL + 1
            /\ \/ c = ELL /\ d \in 0 .. ELL - 1
               \/ c = ELL + 2 /\ d \in ELL .. ELL + 1
        BY <1>2, <2>4, <4>1, ProgressIn
      <4>3. a - d # 0 \/ c - b # 0
        BY <1>3, <4>2
      <4> QED
        BY <2>2, <4>1, <4>3
    <3>2. q[s] # <<>> \/ q[p] # <<>>
      BY <3>1, NothingAny
    <3>3. pc[s] \in Waits /\ pc[p] \in Waits
      BY <1>2, <2>4, ProgressIn
    <3> QED
      BY <1>1, <3>2, <3>3 DEF NeverStuck, GoesOn
  <2> QED
    BY <2>3, <2>4
<1> QED
  BY <1>5, <1>6, <1>7

\* The safe half of AllDone, for every number of base transfers and of ANDs:
\* this is what the order of the halves in _ensure_ot is for.
THEOREM OTNeverStuck == Spec => []NeverStuck
<1>1. Init => Counted
  BY OTAssumption DEF Init, Counted
<1>2. OTInv /\ Counted /\ [Next]_vars => Counted'
  <2>1. ASSUME OTInv, Counted, NEW s \in Side, Step(s) PROVE Counted'
    BY <2>1, CountedStep DEF OTInv
  <2>2. ASSUME Counted, UNCHANGED vars PROVE Counted'
    BY <2>2 DEF Counted, vars
  <2> QED
    BY <2>1, <2>2, Sides DEF Next, Side
<1>3. OTInv /\ Counted => NeverStuck
  BY StartGoesOn, RoundsGoOn DEF OTInv
<1> QED
  BY <1>1, <1>2, <1>3, OTInvariant, PTL DEF Spec

=============================================================================
