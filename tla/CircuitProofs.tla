--------------------------- MODULE CircuitProofs ----------------------------
(***************************************************************************)
(* For every width, block size and length: doubling distances are enough   *)
(* for the Kogge-Stone adder; the tree of ANDs loses no bit; HMAC may      *)
(* start from the states behind its pads; and the counters of GCM never    *)
(* meet, wherever a window of a record is opened.                          *)
(***************************************************************************)
EXTENDS Adder, AndTree, Hkdf, Gcm, SequenceTheorems, TLAPS

(***************************************************************************)
(* The adder.                                                              *)
(***************************************************************************)
\* Two ranges of n places make one of 2 * n: a carry comes out of it when it
\* comes out of the upper one, or that one propagates what the lower makes.
LEMMA GenDouble ==
    ASSUME NEW i \in Pos, NEW n \in Nat \ {0}
    PROVE  Generates(i, 2 * n) <=>
               \/ Generates(i, n)
               \/ Propagates(i, n) /\ i >= n /\ Generates(i - n, n)
<1>1. ASSUME Generates(i, 2 * n), ~ Generates(i, n)
      PROVE  Propagates(i, n) /\ i >= n /\ Generates(i - n, n)
  <2>1. PICK j \in Pos : /\ i - 2 * n < j /\ j <= i /\ Gen(j)
                         /\ \A k \in Pos : j < k /\ k <= i => Prop(k)
    BY <1>1 DEF Generates
  <2>2. j <= i - n
    BY <1>1, <2>1, AdderAssumption DEF Generates, Pos
  <2>3. i >= n /\ i - n \in Pos
    BY <2>2, AdderAssumption DEF Pos
  <2>4. Propagates(i, n)
    BY <2>1, <2>2, <2>3, AdderAssumption DEF Propagates, Pos
  <2>5. Generates(i - n, n)
    BY <2>1, <2>2, <2>3, AdderAssumption DEF Generates, Pos
  <2> QED
    BY <2>3, <2>4, <2>5
<1>2. ASSUME Generates(i, n) PROVE Generates(i, 2 * n)
  BY <1>2, AdderAssumption DEF Generates, Pos
<1>3. ASSUME Propagates(i, n), i >= n, Generates(i - n, n)
      PROVE  Generates(i, 2 * n)
  <2>1. PICK j \in Pos : /\ (i - n) - n < j /\ j <= i - n /\ Gen(j)
                         /\ \A k \in Pos : j < k /\ k <= i - n => Prop(k)
    BY <1>3 DEF Generates
  <2>2. i - 2 * n < j /\ j <= i
    BY <2>1, <1>3, AdderAssumption DEF Pos
  <2>3. \A k \in Pos : j < k /\ k <= i => Prop(k)
    BY <2>1, <1>3, AdderAssumption DEF Propagates, Pos
  <2> QED
    BY <2>1, <2>2, <2>3 DEF Generates
<1> QED
  BY <1>1, <1>2, <1>3

LEMMA PropDouble ==
    ASSUME NEW i \in Pos, NEW n \in Nat \ {0}
    PROVE  Propagates(i, 2 * n) <=>
               Propagates(i, n) /\ i >= n /\ Propagates(i - n, n)
<1>1. ASSUME Propagates(i, 2 * n)
      PROVE  Propagates(i, n) /\ i >= n /\ Propagates(i - n, n)
  BY <1>1, AdderAssumption DEF Propagates, Pos
<1>2. ASSUME Propagates(i, n), i >= n, Propagates(i - n, n)
      PROVE  Propagates(i, 2 * n)
  BY <1>2, AdderAssumption DEF Propagates, Pos
<1> QED
  BY <1>1, <1>2

\* A range that propagates generates nothing: the xor in add is an or.
LEMMA Exclusive ==
    ASSUME NEW i \in Pos, NEW n \in Nat, Generates(i, n)
    PROVE  ~ Propagates(i, n)
BY AdderAssumption DEF Generates, Propagates, Gen, Prop, Pos

LEMMA AdderStart == AdderInit => AdderInv
<1> SUFFICES ASSUME AdderInit PROVE AdderInv
  OBVIOUS
<1>1. \A i \in Pos : x[i] \in Bit /\ y[i] \in Bit
  BY DEF AdderInit, Number
<1>2. ASSUME NEW i \in Pos
      PROVE  /\ g[i] = x[i] * y[i] /\ p[i] = Xor2(x[i], y[i])
             /\ g[i] \in Bit /\ p[i] \in Bit
             /\ g[i] = 1 <=> Gen(i)
             /\ p[i] = 1 <=> Prop(i)
  <2>1. g[i] = x[i] * y[i] /\ p[i] = Xor2(x[i], y[i])
    BY DEF AdderInit
  <2>2. \A u, w \in Bit : /\ u * w \in Bit /\ Xor2(u, w) \in Bit
                          /\ u * w = 1 <=> u = 1 /\ w = 1
                          /\ Xor2(u, w) = 1 <=> u # w
    BY DEF Bit, Xor2
  <2> QED
    BY <2>1, <2>2, <1>1 DEF Gen, Prop
<1>3. AdderTypeOK
  BY <1>2 DEF AdderInit, AdderTypeOK, Number
<1>4. ASSUME NEW i \in Pos
      PROVE  Generates(i, 1) <=> Gen(i)
  BY AdderAssumption DEF Generates, Pos
<1>5. ASSUME NEW i \in Pos
      PROVE  Propagates(i, 1) <=> Prop(i)
  BY AdderAssumption DEF Propagates, Pos
<1> QED
  BY <1>2, <1>3, <1>4, <1>5 DEF AdderInv, PrefixesRight, AdderInit

LEMMA RoundKeeps == AdderInv /\ AdderRound => AdderInv'
<1> SUFFICES ASSUME AdderInv, AdderRound PROVE AdderInv'
  OBVIOUS
<1>1. /\ l \in Nat \ {0} /\ l' = 2 * l /\ x' = x /\ y' = y
      /\ g \in Number /\ p \in Number /\ x \in Number /\ y \in Number
  BY DEF AdderInv, AdderTypeOK, AdderRound
<1>2. ASSUME NEW i \in Pos
      PROVE  /\ Below(g, i) \in Bit /\ Below(p, i) \in Bit
             /\ Below(g, i) = 1 <=> i >= l /\ g[i - l] = 1
             /\ Below(p, i) = 1 <=> i >= l /\ p[i - l] = 1
  <2>1. i >= l => i - l \in Pos
    BY <1>1, AdderAssumption DEF Pos
  <2> QED
    BY <2>1, <1>1 DEF Below, Number, Bit
<1>3. ASSUME NEW i \in Pos
      PROVE  /\ g[i] = 1 <=> Generates(i, l)
             /\ p[i] = 1 <=> Propagates(i, l)
             /\ g[i] \in Bit /\ p[i] \in Bit
  BY <1>1 DEF AdderInv, PrefixesRight, Number
<1>4. ASSUME NEW i \in Pos, i >= l PROVE i - l \in Pos
  BY <1>1, <1>4, AdderAssumption DEF Pos
<1>5. \A u, w \in Bit : /\ u * w \in Bit
                        /\ u * w = 1 <=> u = 1 /\ w = 1
  BY DEF Bit
<1>6. \A u, w \in Bit : /\ Xor2(u, w) \in Bit
                        /\ Xor2(u, w) = 1 <=> (u = 1 <=> w # 1)
  BY DEF Bit, Xor2
<1>7. ASSUME NEW i \in Pos
      PROVE  g'[i] \in Bit /\ (g'[i] = 1 <=> Generates(i, 2 * l))
  <2>1. g'[i] = Xor2(g[i], p[i] * Below(g, i))
    BY DEF AdderRound
  <2>2. /\ p[i] * Below(g, i) \in Bit
        /\ p[i] * Below(g, i) = 1 <=> p[i] = 1 /\ Below(g, i) = 1
    BY <1>2, <1>3, <1>5
  <2>3. /\ g'[i] \in Bit
        /\ g'[i] = 1 <=> (g[i] = 1 <=> ~ (p[i] = 1 /\ Below(g, i) = 1))
    BY <2>1, <2>2, <1>3, <1>6
  <2>4. Below(g, i) = 1 <=> i >= l /\ Generates(i - l, l)
    BY <1>2, <1>3, <1>4
  <2>5. g[i] = 1 => p[i] # 1
    BY <1>1, <1>3, Exclusive
  <2>6. g'[i] = 1 <=> \/ Generates(i, l)
                      \/ Propagates(i, l) /\ i >= l /\ Generates(i - l, l)
    BY <2>3, <2>4, <2>5, <1>3
  <2> QED
    BY <2>3, <2>6, <1>1, GenDouble
<1>8. ASSUME NEW i \in Pos
      PROVE  p'[i] \in Bit /\ (p'[i] = 1 <=> Propagates(i, 2 * l))
  <2>1. p'[i] = p[i] * Below(p, i)
    BY DEF AdderRound
  <2>2. p'[i] \in Bit /\ (p'[i] = 1 <=> p[i] = 1 /\ Below(p, i) = 1)
    BY <2>1, <1>2, <1>3, <1>5
  <2>3. Below(p, i) = 1 <=> i >= l /\ Propagates(i - l, l)
    BY <1>2, <1>3, <1>4
  <2> QED
    BY <2>2, <2>3, <1>1, <1>3, PropDouble
<1>9. g' \in Number /\ p' \in Number
  BY <1>7, <1>8 DEF AdderRound, Number
<1>10. AdderTypeOK'
  BY <1>1, <1>9 DEF AdderTypeOK
<1>11. ASSUME NEW i \in Pos
       PROVE  /\ Generates(i, l)' <=> Generates(i, 2 * l)
              /\ Propagates(i, l)' <=> Propagates(i, 2 * l)
  BY <1>1 DEF Generates, Propagates, Gen, Prop
<1> QED
  BY <1>7, <1>8, <1>10, <1>11 DEF AdderInv, PrefixesRight

LEMMA AdderStep == AdderInv /\ [AdderRound]_avars => AdderInv'
<1>1. ASSUME AdderInv, UNCHANGED avars PROVE AdderInv'
  <2>1. x' = x /\ y' = y /\ g' = g /\ p' = p /\ l' = l
    BY <1>1 DEF avars
  <2>2. AdderTypeOK'
    BY <1>1, <2>1 DEF AdderInv, AdderTypeOK
  <2>3. PrefixesRight'
    BY <1>1, <2>1 DEF AdderInv, PrefixesRight, Generates, Propagates, Gen, Prop
  <2> QED
    BY <2>2, <2>3 DEF AdderInv
<1> QED
  BY <1>1, RoundKeeps

\* The carry out of place i once its range reaches down to place 0.
LEMMA CarryRule ==
    ASSUME NEW i \in Pos, NEW n \in Nat, n >= N
    PROVE  Generates(i, n) <=>
               \/ Gen(i)
               \/ Prop(i) /\ i > 0 /\ Generates(i - 1, n)
<1>1. ASSUME Generates(i, n), ~ Gen(i)
      PROVE  Prop(i) /\ i > 0 /\ Generates(i - 1, n)
  <2>1. PICK j \in Pos : /\ i - n < j /\ j <= i /\ Gen(j)
                         /\ \A k \in Pos : j < k /\ k <= i => Prop(k)
    BY <1>1 DEF Generates
  <2>2. j < i
    BY <2>1, <1>1 DEF Pos
  <2> QED
    BY <2>1, <2>2, AdderAssumption DEF Generates, Pos
<1>2. ASSUME Gen(i) PROVE Generates(i, n)
  BY <1>2, AdderAssumption DEF Generates, Pos
<1>3. ASSUME Prop(i), i > 0, Generates(i - 1, n) PROVE Generates(i, n)
  <2>1. PICK j \in Pos : /\ j <= i - 1 /\ Gen(j)
                         /\ \A k \in Pos : j < k /\ k <= i - 1 => Prop(k)
    BY <1>3 DEF Generates
  <2>2. i - n < j /\ j <= i
    BY <2>1, AdderAssumption DEF Pos
  <2>3. \A k \in Pos : j < k /\ k <= i => Prop(k)
    BY <2>1, <1>3 DEF Pos
  <2> QED
    BY <2>1, <2>2, <2>3 DEF Generates
<1> QED
  BY <1>1, <1>2, <1>3

\* PC.add is written addition for operands of every width.
THEOREM AddsRight == AdderSpec => []WrittenSum
<1>1. AdderInv => WrittenSum
  <2> SUFFICES ASSUME AdderInv, l >= N, NEW i \in Pos, i + 1 \in Pos
               PROVE  Carried(i + 1) = 1 <=> \/ Gen(i)
                                             \/ Prop(i) /\ Carried(i) = 1
    BY DEF WrittenSum
  <2>1. l \in Nat
    BY DEF AdderInv, AdderTypeOK
  <2>2. Carried(i + 1) = g[i]
    BY DEF Carried, Pos
  <2>3. Carried(i) = 1 <=> i > 0 /\ Generates(i - 1, l)
    <3>1. CASE i = 0
      BY <3>1 DEF Carried
    <3>2. CASE i > 0
      <4>1. i - 1 \in Pos
        BY <3>2, AdderAssumption DEF Pos
      <4> QED
        BY <3>2, <4>1 DEF Carried, AdderInv, PrefixesRight
    <3> QED
      BY <3>1, <3>2 DEF Pos
  <2>4. g[i] = 1 <=> Generates(i, l)
    BY DEF AdderInv, PrefixesRight
  <2> QED
    BY <2>1, <2>2, <2>3, <2>4, CarryRule
<1> QED
  BY <1>1, AdderStart, AdderStep, PTL DEF AdderSpec

-----------------------------------------------------------------------------
(***************************************************************************)
(* The tree of ANDs.                                                       *)
(***************************************************************************)
Bits(n) == [1 .. n -> {0, 1}]

LEMMA BitsLen ==
    ASSUME NEW n \in Nat, NEW s \in Bits(n)
    PROVE  Len(s) = n /\ DOMAIN s = 1 .. n
<1>1. s \in Seq({0, 1})
  BY SeqDef DEF Bits
<1> QED
  BY <1>1, LenProperties DEF Bits

LEMMA Halves ==
    ASSUME NEW n \in Nat \ {0}
    PROVE  /\ (n + 1) \div 2 \in Nat \ {0}
           /\ \A i \in 1 .. (n + 1) \div 2 : 2 * i - 1 \in 1 .. n
           /\ \A j \in 1 .. n : \E i \in 1 .. (n + 1) \div 2 :
                  j = 2 * i - 1 \/ j = 2 * i
<1>1. (n + 1) \div 2 \in Nat \ {0}
  OBVIOUS
<1>2. ASSUME NEW i \in 1 .. (n + 1) \div 2 PROVE 2 * i - 1 \in 1 .. n
  OBVIOUS
<1>3. ASSUME NEW j \in 1 .. n
      PROVE  \E i \in 1 .. (n + 1) \div 2 : j = 2 * i - 1 \/ j = 2 * i
  <2>1. (j + 1) \div 2 \in 1 .. (n + 1) \div 2
    OBVIOUS
  <2>2. j = 2 * ((j + 1) \div 2) - 1 \/ j = 2 * ((j + 1) \div 2)
    OBVIOUS
  <2> QED
    BY <2>1, <2>2
<1> QED
  BY <1>1, <1>2, <1>3

\* One level: the bits are all 1 exactly when the bits they are paired to are.
LEMMA LevelKeeps ==
    ASSUME NEW n \in Nat \ {0}, NEW s \in Bits(n)
    PROVE  /\ Pairs(s) \in Bits((n + 1) \div 2)
           /\ (\A i \in DOMAIN Pairs(s) : Pairs(s)[i] = 1)
                <=> (\A j \in DOMAIN s : s[j] = 1)
<1> DEFINE m == (n + 1) \div 2
           rest(i) == IF 2 * i <= n THEN s[2 * i] ELSE 1
<1>1. Len(s) = n /\ DOMAIN s = 1 .. n
  BY BitsLen
<1>2. /\ Pairs(s) = [i \in 1 .. m |-> s[2 * i - 1] * rest(i)]
      /\ m \in Nat \ {0}
  BY <1>1, Halves DEF Pairs
<1>3. ASSUME NEW i \in 1 .. m
      PROVE  /\ s[2 * i - 1] \in {0, 1} /\ rest(i) \in {0, 1}
             /\ 2 * i - 1 \in 1 .. n /\ 2 * i \in Nat \ {0}
  <2>1. 2 * i - 1 \in 1 .. n /\ 2 * i \in Nat \ {0}
    BY Halves
  <2>2. 2 * i <= n => 2 * i \in 1 .. n
    BY <2>1
  <2> QED
    BY <2>1, <2>2 DEF Bits
<1>4. ASSUME NEW i \in 1 .. m
      PROVE  /\ Pairs(s)[i] \in {0, 1}
             /\ Pairs(s)[i] = 1 <=> s[2 * i - 1] = 1 /\ rest(i) = 1
  <2>1. Pairs(s)[i] = s[2 * i - 1] * rest(i)
    BY <1>2
  <2> HIDE DEF rest
  <2>2. \A u, w \in {0, 1} : u * w \in {0, 1} /\ (u * w = 1 <=> u = 1 /\ w = 1)
    OBVIOUS
  <2> QED
    BY <2>1, <2>2, <1>3
<1>5. Pairs(s) \in Bits(m)
  BY <1>2, <1>4 DEF Bits
<1>6. ASSUME \A i \in DOMAIN Pairs(s) : Pairs(s)[i] = 1, NEW j \in 1 .. n
      PROVE  s[j] = 1
  <2>1. PICK i \in 1 .. m : j = 2 * i - 1 \/ j = 2 * i
    BY Halves
  <2>2. s[2 * i - 1] = 1 /\ rest(i) = 1
    BY <1>2, <1>4, <1>6
  <2> QED
    BY <2>1, <2>2, <1>3
<1>7. ASSUME \A j \in DOMAIN s : s[j] = 1, NEW i \in 1 .. m
      PROVE  Pairs(s)[i] = 1
  <2>1. s[2 * i - 1] = 1
    BY <1>1, <1>3, <1>7
  <2>2. rest(i) = 1
    BY <1>1, <1>3, <1>7
  <2> QED
    BY <2>1, <2>2, <1>4
<1> QED
  BY <1>1, <1>2, <1>5, <1>6, <1>7

LEMMA TreeStart == TreeInit => TreeInv
<1> SUFFICES ASSUME TreeInit PROVE TreeInv
  OBVIOUS
<1>1. PICK n \in 1 .. MaxWidth : a \in Bits(n) /\ c \in Bits(n)
  BY DEF TreeInit, Bits
<1>2. n \in Nat \ {0}
  BY WidthAssumption
<1>3. cur = [i \in 1 .. n |-> IF a[i] = c[i] THEN 1 ELSE 0]
  BY <1>1 DEF TreeInit, Agree, Bits
<1>4. cur \in Bits(n)
  BY <1>3 DEF Bits
<1>5. (\A i \in DOMAIN cur : cur[i] = 1) <=> a = c
  <2>1. (\A i \in 1 .. n : a[i] = c[i]) <=> a = c
    BY <1>1 DEF Bits
  <2> QED
    BY <2>1, <1>3
<1> QED
  BY <1>1, <1>2, <1>4, <1>5 DEF TreeInv, TreeTypeOK, LevelsAgree, Bits

LEMMA TreeStep == TreeInv /\ [TreeLevel]_tvars => TreeInv'
<1>1. ASSUME TreeInv, TreeLevel PROVE TreeInv'
  <2>1. PICK n \in Nat \ {0} : cur \in Bits(n)
    BY <1>1 DEF TreeInv, TreeTypeOK, Bits
  <2>2. /\ cur' \in Bits((n + 1) \div 2)
        /\ (\A i \in DOMAIN cur' : cur'[i] = 1)
             <=> (\A j \in DOMAIN cur : cur[j] = 1)
    BY <2>1, <1>1, LevelKeeps DEF TreeLevel
  <2>3. (n + 1) \div 2 \in Nat \ {0}
    BY <2>1, Halves
  <2>4. a' = a /\ c' = c
    BY <1>1 DEF TreeLevel
  <2> QED
    BY <1>1, <2>2, <2>3, <2>4 DEF TreeInv, TreeTypeOK, LevelsAgree, Bits
<1>2. ASSUME TreeInv, UNCHANGED tvars PROVE TreeInv'
  <2>1. a' = a /\ c' = c /\ cur' = cur
    BY <1>2 DEF tvars
  <2>2. TreeTypeOK'
    BY <1>2, <2>1 DEF TreeInv, TreeTypeOK
  <2>3. LevelsAgree'
    BY <1>2, <2>1 DEF TreeInv, LevelsAgree
  <2> QED
    BY <2>2, <2>3 DEF TreeInv
<1> QED
  BY <1>1, <1>2

\* eq_const, eq_const_bits and _fold_and return 1 exactly for equal words, of
\* whatever width, an odd number of bits at any level included.
THEOREM TreeIsEquality == TreeSpec => []EqualExact
<1>1. TreeInv => EqualExact
  <2> SUFFICES ASSUME TreeInv, Len(cur) = 1
               PROVE  cur[1] = 1 <=> a = c
    BY DEF EqualExact
  <2>1. PICK n \in Nat \ {0} : cur \in Bits(n)
    BY DEF TreeInv, TreeTypeOK, Bits
  <2>2. DOMAIN cur = {1}
    BY <2>1, BitsLen
  <2> QED
    BY <2>2 DEF TreeInv, LevelsAgree
<1> QED
  BY <1>1, TreeStart, TreeStep, PTL DEF TreeSpec

-----------------------------------------------------------------------------
(***************************************************************************)
(* Division with rest by the size b of a block.                            *)
(***************************************************************************)
LEMMA DivisionOf ==
    ASSUME NEW b \in Nat \ {0}, NEW k \in Nat
    PROVE  /\ k = b * (k \div b) + (k % b)
           /\ k \div b \in Nat
           /\ k % b \in 0 .. b - 1
OBVIOUS

LEMMA QuotientOnce ==
    ASSUME NEW b \in Nat \ {0}, NEW u \in Nat, NEW w \in Nat,
           NEW r \in 0 .. b - 1, NEW s \in 0 .. b - 1,
           b * u + r = b * w + s
    PROVE  u = w /\ r = s
<1>1. ASSUME NEW m \in Nat, NEW n \in Nat, m < n
      PROVE  b * m + b <= b * n
  <2>1. n - m >= 1
    BY <1>1
  <2>2. b * (n - m) >= b
    BY <2>1
  <2>3. b * (n - m) = b * n - b * m
    OBVIOUS
  <2>4. b * n \in Nat /\ b * m \in Nat
    OBVIOUS
  <2> QED
    BY <2>2, <2>3, <2>4
<1>2. b * u \in Nat /\ b * w \in Nat
  OBVIOUS
<1>3. ~ u < w
  BY <1>1, <1>2
<1>4. ~ w < u
  BY <1>1, <1>2
<1>5. u = w
  BY <1>3, <1>4
<1> QED
  BY <1>2, <1>5

LEMMA DivisionIs ==
    ASSUME NEW b \in Nat \ {0}, NEW u \in Nat, NEW r \in 0 .. b - 1, NEW k,
           k = b * u + r
    PROVE  k \div b = u /\ k % b = r
<1>1. k \in Nat
  OBVIOUS
<1>2. /\ k = b * (k \div b) + (k % b) /\ k \div b \in Nat
      /\ k % b \in 0 .. b - 1
  BY <1>1, DivisionOf
<1>3. b * (k \div b) + (k % b) = b * u + r
  BY <1>2
<1> QED
  BY ONLY <1>2, <1>3, b \in Nat \ {0}, u \in Nat, r \in 0 .. b - 1, QuotientOnce

-----------------------------------------------------------------------------
(***************************************************************************)
(* HMAC.                                                                   *)
(***************************************************************************)
IsSeq(u) == \E S : u \in Seq(S)

LEMMA JoinAny ==
    ASSUME NEW u, IsSeq(u), NEW v, IsSeq(v)
    PROVE  /\ IsSeq(u \o v) /\ Len(u) \in Nat /\ Len(v) \in Nat
           /\ Len(u \o v) = Len(u) + Len(v)
           /\ DOMAIN (u \o v) = 1 .. Len(u) + Len(v)
           /\ \A n \in 1 .. Len(u) : (u \o v)[n] = u[n]
           /\ \A n \in Len(u) + 1 .. Len(u) + Len(v) :
                  (u \o v)[n] = v[n - Len(u)]
<1>1. PICK S, T : u \in Seq(S) /\ v \in Seq(T)
  BY DEF IsSeq
<1>2. S \subseteq S \cup T /\ T \subseteq S \cup T
  OBVIOUS
<1>3. u \in Seq(S \cup T) /\ v \in Seq(S \cup T)
  BY <1>1, <1>2, SeqMonotonic
<1>4. /\ u \o v \in Seq(S \cup T) /\ Len(u \o v) = Len(u) + Len(v)
      /\ \A i \in 1 .. Len(u) + Len(v) :
             (u \o v)[i] = IF i <= Len(u) THEN u[i] ELSE v[i - Len(u)]
  BY <1>3, ConcatProperties
<1>5. Len(u) \in Nat /\ Len(v) \in Nat
  BY <1>3, LenProperties
<1>6. IsSeq(u \o v)
  BY <1>4 DEF IsSeq
<1>7. DOMAIN (u \o v) = 1 .. Len(u) + Len(v)
  BY <1>4, LenProperties
<1>8. \A n \in 1 .. Len(u) : (u \o v)[n] = u[n]
  BY <1>4, <1>5
<1>9. \A n \in Len(u) + 1 .. Len(u) + Len(v) : (u \o v)[n] = v[n - Len(u)]
  BY <1>4, <1>5
<1> QED
  BY <1>4, <1>5, <1>6, <1>7, <1>8, <1>9

LEMMA JoinIs ==
    ASSUME NEW u, IsSeq(u), NEW v, IsSeq(v)
    PROVE  /\ IsSeq(u \o v) /\ Len(u) \in Nat /\ Len(v) \in Nat
           /\ Len(u \o v) = Len(u) + Len(v)
BY JoinAny

LEMMA OneAny ==
    ASSUME NEW e
    PROVE  IsSeq(<<e>>) /\ Len(<<e>>) = 1 /\ <<e>>[1] = e
<1>1. <<e>> \in Seq({e}) /\ Len(<<e>>) = 1 /\ <<e>>[1] = e
  OBVIOUS
<1> QED
  BY <1>1 DEF IsSeq

LEMMA ListAny ==
    ASSUME NEW n \in Nat, NEW seq, seq = [i \in 1 .. n |-> seq[i]]
    PROVE  IsSeq(seq) /\ Len(seq) = n
<1> DEFINE S == {seq[i] : i \in 1 .. n}
<1>1. seq \in [1 .. n -> S]
  OBVIOUS
<1> HIDE DEF S
<1>2. seq \in Seq(S)
  BY <1>1, SeqDef
<1>3. Len(seq) = n
  BY <1>1, <1>2, LenProperties
<1> QED
  BY <1>2, <1>3 DEF IsSeq

LEMMA JoinAssoc ==
    ASSUME NEW u, IsSeq(u), NEW v, IsSeq(v), NEW w, IsSeq(w)
    PROVE  (u \o v) \o w = u \o (v \o w)
<1>1. PICK S, T, U : u \in Seq(S) /\ v \in Seq(T) /\ w \in Seq(U)
  BY DEF IsSeq
<1> DEFINE V == S \cup T \cup U
<1>2. S \subseteq V /\ T \subseteq V /\ U \subseteq V
  OBVIOUS
<1> HIDE DEF V
<1>3. u \in Seq(V) /\ v \in Seq(V) /\ w \in Seq(V)
  BY <1>1, <1>2, SeqMonotonic
<1> QED
  BY <1>3, ConcatAssociative

\* Block n of a text.
Hashed(t, n) == SubSeq(t, BB * (n - 1) + 1, BB * n)

LEMMA BlockOf ==
    ASSUME NEW S, NEW w \in Seq(S), NEW k \in Nat, Len(w) = BB * k,
           NEW n \in 1 .. k
    PROVE  /\ Hashed(w, n) \in Seq(S) /\ Len(Hashed(w, n)) = BB
           /\ \A i \in 1 .. BB : Hashed(w, n)[i] = w[BB * (n - 1) + i]
<1>1. PICK m \in Nat : m = BB * (n - 1)
  BY HashAssumption
<1>2. BB * n = m + BB
  BY <1>1, HashAssumption
<1>3. m + BB <= Len(w)
  <2>1. PICK d \in Nat : k = n + d
    <3>1. k - n \in Nat /\ k = n + (k - n)
      OBVIOUS
    <3> QED
      BY <3>1
  <2>2. BB * (n + d) = BB * n + BB * d /\ BB * d \in Nat /\ BB * n \in Nat
    BY HashAssumption
  <2> QED
    BY <1>2, <2>1, <2>2
<1>4. m + 1 \in 1 .. Len(w) + 1 /\ m + BB \in m + 1 .. Len(w)
      /\ (m + BB) - (m + 1) + 1 = BB
  BY <1>3, HashAssumption
<1>5. /\ SubSeq(w, m + 1, m + BB) \in Seq(S)
      /\ Len(SubSeq(w, m + 1, m + BB)) = BB
      /\ \A i \in 1 .. BB : SubSeq(w, m + 1, m + BB)[i] = w[m + 1 + i - 1]
  BY <1>4, SubSeqProperties
<1>6. \A i \in 1 .. BB : m + 1 + i - 1 = m + i
  BY HashAssumption
<1> QED
  BY <1>1, <1>2, <1>5, <1>6 DEF Hashed

\* Compressing a block first and the rest behind it is compressing both.
LEMMA CompressedJoin ==
    ASSUME NEW first, IsSeq(first), Len(first) = BB,
           NEW w, IsSeq(w), NEW k \in Nat, Len(w) = BB * k
    PROVE  Compressed(<<>>, first \o w) = Compressed(<<first>>, w)
<1> DEFINE both == first \o w
           left == [n \in 1 .. k + 1 |-> Hashed(both, n)]
           rest == [n \in 1 .. k |-> Hashed(w, n)]
           right == <<first>> \o rest
<1>1. PICK S, T : first \in Seq(S) /\ w \in Seq(T)
  BY DEF IsSeq
<1>2. w \in Seq(S \cup T)
  <2>1. T \subseteq S \cup T
    OBVIOUS
  <2> QED
    BY <1>1, <2>1, SeqMonotonic
<1>3. first \in Seq(S \cup T)
  <2>1. S \subseteq S \cup T
    OBVIOUS
  <2> QED
    BY <1>1, <2>1, SeqMonotonic
<1>4. both \in Seq(S \cup T) /\ Len(both) = BB * (k + 1)
  <2>1. BB * (k + 1) = BB + BB * k /\ BB * k \in Nat
    BY HashAssumption
  <2> QED
    BY <1>2, <1>3, <2>1, ConcatProperties
<1>5. /\ \A n \in 1 .. BB : both[n] = first[n]
      /\ \A n \in BB + 1 .. BB + BB * k : both[n] = w[n - BB]
  <2>1. /\ \A n \in 1 .. Len(first) : both[n] = first[n]
        /\ \A n \in Len(first) + 1 .. Len(first) + Len(w) :
               both[n] = w[n - Len(first)]
    BY JoinAny
  <2> HIDE DEF both
  <2> QED
    BY <2>1
<1>6. (Len(both) + BB - 1) \div BB = k + 1 /\ (Len(w) + BB - 1) \div BB = k
  <2>1. BB - 1 \in 0 .. BB - 1
    BY HashAssumption
  <2>2. BB * (k + 1) + BB - 1 = BB * (k + 1) + (BB - 1)
        /\ BB * k + BB - 1 = BB * k + (BB - 1)
    BY HashAssumption
  <2> HIDE DEF both
  <2>3. Len(both) + BB - 1 = BB * (k + 1) + (BB - 1)
        /\ Len(w) + BB - 1 = BB * k + (BB - 1)
    BY <1>4, <2>2
  <2>4. ASSUME NEW t, NEW u \in Nat, t = BB * u + (BB - 1)
        PROVE  t \div BB = u
    <3>1. BB \in Nat \ {0}
      BY HashAssumption
    <3> QED
      BY ONLY <2>1, <2>4, <3>1, u \in Nat, DivisionIs
  <2> QED
    BY <2>3, <2>4
<1>7. Compressed(<<>>, both) = <<>> \o left /\ Compressed(<<first>>, w) = right
  BY <1>6 DEF Compressed, Hashed
<1>8. IsSeq(left) /\ Len(left) = k + 1 /\ <<>> \o left = left
  <2>1. IsSeq(left) /\ Len(left) = k + 1
    <3>1. left = [i \in 1 .. k + 1 |-> left[i]]
      OBVIOUS
    <3> HIDE DEF left
    <3> QED
      BY <3>1, ListAny
  <2> QED
    BY <2>1, ConcatEmptySeq DEF IsSeq
<1>9. IsSeq(rest) /\ Len(rest) = k
  <2>1. rest = [i \in 1 .. k |-> rest[i]]
    OBVIOUS
  <2> HIDE DEF rest
  <2> QED
    BY <2>1, ListAny
<1>10. IsSeq(<<first>>) /\ Len(<<first>>) = 1 /\ <<first>>[1] = first
  BY DEF IsSeq
<1>11. /\ IsSeq(right) /\ Len(right) = k + 1
       /\ right[1] = first
       /\ \A n \in 2 .. k + 1 : right[n] = Hashed(w, n - 1)
  <2>1. \A n \in 2 .. k + 1 : n - 1 \in 1 .. k
    OBVIOUS
  <2>2. \A n \in 1 .. k : rest[n] = Hashed(w, n)
    OBVIOUS
  <2> DEFINE one == <<first>>
  <2>4. IsSeq(one) /\ Len(one) = 1
    BY <1>10
  <2> HIDE DEF rest, one
  <2>6. /\ IsSeq(one \o rest) /\ Len(one \o rest) = Len(one) + Len(rest)
        /\ \A n \in 1 .. Len(one) : (one \o rest)[n] = one[n]
        /\ \A n \in Len(one) + 1 .. Len(one) + Len(rest) :
               (one \o rest)[n] = rest[n - Len(one)]
    BY <1>9, <2>4, JoinAny
  <2>5. /\ IsSeq(one \o rest) /\ Len(one \o rest) = 1 + k
        /\ \A n \in 1 .. 1 : (one \o rest)[n] = one[n]
        /\ \A n \in 1 + 1 .. 1 + k : (one \o rest)[n] = rest[n - 1]
    BY <1>9, <2>4, <2>6
  <2>3. /\ IsSeq(right) /\ Len(right) = 1 + k
        /\ right[1] = <<first>>[1]
        /\ \A n \in 2 .. 1 + k : right[n] = rest[n - 1]
    BY <2>5 DEF one
  <2> HIDE DEF right
  <2>7. Len(right) = k + 1 /\ right[1] = first
    BY <1>10, <2>3
  <2> QED
    BY <2>1, <2>2, <2>3, <2>7
<1>12. ASSUME NEW n \in 1 .. k + 1 PROVE left[n] = right[n]
  <2> DEFINE u == Hashed(both, n)
  <2> HIDE DEF both
  <2>1. /\ u \in Seq(S \cup T) /\ Len(u) = BB
        /\ \A i \in 1 .. BB : u[i] = both[BB * (n - 1) + i]
    <3>1. k + 1 \in Nat
      OBVIOUS
    <3> QED
      BY ONLY <1>4, <3>1, n \in 1 .. k + 1, BlockOf DEF u
  <2>2. CASE n = 1
    <3>1. \A i \in 1 .. BB : BB * (n - 1) + i = i
      BY <2>2, HashAssumption
    <3> HIDE DEF u
    <3>2. \A i \in 1 .. BB : u[i] = first[i]
      BY <1>5, <2>1, <3>1
    <3>3. u = first
      BY <1>3, <2>1, <3>2, SeqEqual
    <3> QED
      BY <1>11, <2>2, <3>3 DEF u
  <2>3. CASE n > 1
    <3> PICK m \in 1 .. k : m = n - 1
      <4>1. n - 1 \in 1 .. k
        BY <2>3
      <4> QED
        BY <4>1
    <3> DEFINE v == Hashed(w, m)
    <3>1. m \in 1 .. k /\ n - 1 = m
      OBVIOUS
    <3>2. /\ v \in Seq(S \cup T) /\ Len(v) = BB
          /\ \A i \in 1 .. BB : v[i] = w[BB * (m - 1) + i]
      BY <1>2, <3>1, BlockOf
    <3> HIDE DEF u, v
    <3>3. ASSUME NEW i \in 1 .. BB PROVE u[i] = v[i]
      <4>1. PICK j \in Nat : j = BB * (m - 1)
        BY <3>1, HashAssumption
      <4>2. BB * (n - 1) = j + BB
        BY <4>1, <3>1, HashAssumption
      <4>3. j + BB <= BB * k
        <5>1. PICK d \in Nat : k = m + d
          <6>1. k - m \in Nat /\ k = m + (k - m)
            BY <3>1
          <6> QED
            BY <6>1
        <5>2. BB * (m + d) = BB * m + BB * d /\ BB * d \in Nat
              /\ BB * m = BB * (m - 1) + BB
          BY <3>1, HashAssumption
        <5>3. BB * m \in Int /\ BB * d \in Int
          BY <3>1, HashAssumption
        <5> QED
          BY <4>1, <5>1, <5>2, HashAssumption
      <4>4. PICK full \in Nat : full = BB * k
        BY HashAssumption
      <4>5. j + BB + i \in BB + 1 .. BB + full /\ j + BB + i - BB = j + i
        BY ONLY <4>1, <4>3, <4>4, HashAssumption, i \in 1 .. BB
      <4>8. \A e \in BB + 1 .. BB + full : both[e] = w[e - BB]
        BY <1>5, <4>4
      <4>6. both[j + BB + i] = w[j + i]
        <5>1. PICK e \in BB + 1 .. BB + full : e = j + BB + i /\ e - BB = j + i
          BY <4>5
        <5>2. both[e] = w[e - BB]
          BY <4>8
        <5> QED
          BY <5>1, <5>2
      <4>7. u[i] = both[j + BB + i] /\ v[i] = w[j + i]
        BY <2>1, <3>2, <4>1, <4>2
      <4> QED
        BY <4>6, <4>7
    <3>4. u = v
      BY <2>1, <3>2, <3>3, SeqEqual
    <3>5. right[n] = v
      <4>1. n \in 2 .. k + 1
        BY <2>3
      <4> QED
        BY <1>11, <3>1, <4>1 DEF v
    <3> QED
      BY <3>4, <3>5 DEF u
  <2> HIDE DEF left, right
  <2> QED
    BY <2>2, <2>3
<1>13. left = right
  <2> HIDE DEF left, right
  <2>1. PICK U, V : left \in Seq(U) /\ right \in Seq(V)
    BY <1>8, <1>11 DEF IsSeq
  <2>2. left \in Seq(U \cup V)
    <3>1. U \subseteq U \cup V
      OBVIOUS
    <3> QED
      BY <2>1, <3>1, SeqMonotonic
  <2>3. right \in Seq(U \cup V)
    <3>1. V \subseteq U \cup V
      OBVIOUS
    <3> QED
      BY <2>1, <3>1, SeqMonotonic
  <2> QED
    BY <1>8, <1>11, <1>12, <2>2, <2>3, SeqEqual
<1> QED
  BY <1>7, <1>8, <1>13

LEMMA PaddedIs ==
    ASSUME NEW msg, IsSeq(msg), NEW pre \in {0, BB}
    PROVE  /\ IsSeq(Padded(msg, pre))
           /\ \E k \in Nat : Len(Padded(msg, pre)) = BB * k
<1> DEFINE one == <<<<"80", 0>>>>
           z == (BB - ((pre + Len(msg) + LB + 1) % BB)) % BB
           zeros == [i \in 1 .. z |-> <<"00", 0>>]
           size == [i \in 1 .. LB |-> <<"length", pre + Len(msg)>>]
<1>1. PICK m \in Nat : m = Len(msg)
  <2>1. Len(msg) \in Nat
    BY JoinAny
  <2> QED
    BY <2>1
<1>2. PICK t \in Nat : t = pre + m + LB + 1
  BY HashAssumption
<1>3. PICK d \in Nat, r \in 0 .. BB - 1 : t = BB * d + r /\ r = t % BB
  BY HashAssumption, DivisionOf
<1>4. z = (BB - r) % BB
  BY <1>1, <1>2, <1>3
<1>5. z \in 0 .. BB - 1 /\ \E h \in Nat : t + z = BB * h
  <2>1. CASE r = 0
    <3>1. BB - r = BB * 1 + 0 /\ 0 \in 0 .. BB - 1
      BY <2>1, HashAssumption
    <3>2. z = 0
      BY <1>4, <3>1, DivisionIs, HashAssumption
    <3>3. t + z = BB * d
      <4>1. PICK f \in Nat : f = BB * d
        BY HashAssumption
      <4>2. t = f + r
        BY <1>3, <4>1
      <4>3. t + z = f
        BY ONLY <2>1, <3>2, <4>1, <4>2
      <4> QED
        BY <4>1, <4>3
    <3> QED
      BY <3>1, <3>2, <3>3
  <2>2. CASE r # 0
    <3>1. PICK e \in 0 .. BB - 1 : e = BB - r
      <4>1. BB - r \in 0 .. BB - 1
        BY <2>2, HashAssumption
      <4> QED
        BY <4>1
    <3>5. e % BB = e
      BY HashAssumption
    <3>2. z = e
      BY <1>4, <3>1, <3>5
    <3>3. BB * (d + 1) = BB * d + BB /\ BB * d \in Nat
      BY HashAssumption
    <3>6. t + e = BB * d + BB
      BY <1>3, <3>1, <3>3, HashAssumption
    <3>4. t + z = BB * (d + 1)
      BY ONLY <3>2, <3>3, <3>6
    <3> QED
      BY <3>1, <3>2, <3>4
  <2> QED
    BY <2>1, <2>2
<1> HIDE DEF z
<1>6. \E k \in Nat : m + 1 + z + LB = BB * k
  <2>1. PICK h \in Nat : t + z = BB * h
    BY <1>5
  <2>2. PICK f \in Nat : f = BB * h
    BY HashAssumption
  <2>3. pre + (m + 1 + z + LB) = f
    BY <1>2, <1>5, <2>1, <2>2, HashAssumption
  <2>4. CASE pre = 0
    BY <1>5, <2>2, <2>3, <2>4, HashAssumption
  <2>5. CASE pre = BB
    <3>1. h # 0
      BY <1>5, <2>2, <2>3, <2>5, HashAssumption
    <3>2. h - 1 \in Nat /\ BB * (h - 1) = BB * h - BB
      BY <3>1, HashAssumption
    <3>3. m + 1 + z + LB = BB * (h - 1)
      BY <1>5, <2>2, <2>3, <2>5, <3>2, HashAssumption
    <3> QED
      BY <3>2, <3>3
  <2> QED
    BY <2>4, <2>5
<1>7. IsSeq(one) /\ Len(one) = 1
  BY OneAny
<1>8. IsSeq(zeros) /\ Len(zeros) = z
  <2>1. zeros = [i \in 1 .. z |-> zeros[i]] /\ z \in Nat
    BY <1>5
  <2> HIDE DEF zeros
  <2> QED
    BY <2>1, ListAny
<1>9. IsSeq(size) /\ Len(size) = LB
  <2>1. size = [i \in 1 .. LB |-> size[i]] /\ LB \in Nat
    BY HashAssumption
  <2> HIDE DEF size
  <2> QED
    BY <2>1, ListAny
<1>10. Padded(msg, pre) = ((msg \o one) \o zeros) \o size
  BY DEF Padded, z
<1> HIDE DEF one, zeros, size
<1>11. IsSeq(msg \o one) /\ Len(msg \o one) = m + 1
  BY ONLY IsSeq(msg), <1>1, <1>7, JoinIs
<1>12. IsSeq((msg \o one) \o zeros) /\ Len((msg \o one) \o zeros) = m + 1 + z
  BY ONLY <1>8, <1>11, JoinIs
<1>13. /\ IsSeq(((msg \o one) \o zeros) \o size)
       /\ Len(((msg \o one) \o zeros) \o size) = m + 1 + z + LB
  BY ONLY <1>9, <1>12, JoinIs
<1> QED
  BY <1>6, <1>10, <1>13

\* Padding a text that starts with a block is padding the rest as the text of
\* that block's state.
LEMMA PaddedJoin ==
    ASSUME NEW first, IsSeq(first), Len(first) = BB, NEW msg, IsSeq(msg)
    PROVE  Padded(first \o msg, 0) = first \o Padded(msg, BB)
<1> DEFINE one == <<<<"80", 0>>>>
           z(n) == (BB - ((n + LB + 1) % BB)) % BB
           zeros(n) == [i \in 1 .. z(n) |-> <<"00", 0>>]
           size(n) == [i \in 1 .. LB |-> <<"length", n>>]
<1>1. PICK n \in Nat : n = BB + Len(msg)
  <2>1. Len(msg) \in Nat
    BY JoinIs
  <2> QED
    BY <2>1, HashAssumption
<1>2. Len(first \o msg) = n /\ IsSeq(first \o msg)
  BY <1>1, JoinIs
<1>3. /\ Padded(first \o msg, 0)
           = (((first \o msg) \o one) \o zeros(n)) \o size(n)
      /\ Padded(msg, BB) = ((msg \o one) \o zeros(n)) \o size(n)
  <2>1. /\ Padded(first \o msg, 0)
             = (((first \o msg) \o one) \o zeros(0 + Len(first \o msg)))
                  \o size(0 + Len(first \o msg))
        /\ Padded(msg, BB) = ((msg \o one) \o zeros(BB + Len(msg)))
                                \o size(BB + Len(msg))
    BY DEF Padded
  <2>2. 0 + Len(first \o msg) = n /\ BB + Len(msg) = n
    BY <1>1, <1>2
  <2> HIDE DEF zeros, size, one
  <2> QED
    BY <2>1, <2>2
<1>4. IsSeq(one)
  BY OneAny
<1>5. IsSeq(zeros(n))
  <2>1. PICK k \in Nat : k = z(n)
    <3>1. n + LB + 1 \in Nat
      BY HashAssumption
    <3>2. (n + LB + 1) % BB \in 0 .. BB - 1
      BY <3>1, HashAssumption
    <3>3. PICK e \in 0 .. BB - 1 : e = (n + LB + 1) % BB
      BY <3>2
    <3>4. BB - e \in Nat
      BY HashAssumption
    <3>5. (BB - e) % BB \in Nat
      BY <3>4, HashAssumption
    <3> QED
      BY <3>3, <3>5
  <2> DEFINE list == [i \in 1 .. k |-> <<"00", 0>>]
  <2>2. list = [i \in 1 .. k |-> list[i]]
    OBVIOUS
  <2>3. zeros(n) = list
    BY <2>1
  <2> HIDE DEF list
  <2> QED
    BY <2>2, <2>3, ListAny
<1>6. IsSeq(size(n))
  <2> DEFINE list == size(n)
  <2>1. list = [i \in 1 .. LB |-> list[i]] /\ LB \in Nat
    BY HashAssumption
  <2> HIDE DEF list
  <2>2. IsSeq(list)
    BY <2>1, ListAny
  <2> QED
    BY <2>2 DEF list
<1> DEFINE o == zeros(n)
           w == size(n)
<1>7. IsSeq(o) /\ IsSeq(w)
  BY <1>5, <1>6
<1> HIDE DEF one, o, w
<1> DEFINE m1 == msg \o one
           m2 == m1 \o o
<1>8. IsSeq(m1)
  BY <1>4, JoinIs
<1>9. (first \o msg) \o one = first \o m1
  BY <1>4, JoinAssoc
<1>10. Padded(first \o msg, 0) = ((first \o m1) \o o) \o w
  BY <1>3, <1>9 DEF o, w
<1>11. Padded(msg, BB) = m2 \o w
  BY <1>3 DEF o, w
<1> HIDE DEF m1
<1>12. IsSeq(m2)
  BY <1>7, <1>8, JoinIs
<1>13. (first \o m1) \o o = first \o m2
  <2>1. IsSeq(first) /\ IsSeq(m1) /\ IsSeq(o)
    BY <1>7, <1>8
  <2> QED
    BY ONLY <2>1, JoinAssoc DEF m2
<1> HIDE DEF m2
<1>14. (first \o m2) \o w = first \o (m2 \o w)
  <2>1. IsSeq(first) /\ IsSeq(m2) /\ IsSeq(w)
    BY <1>7, <1>12
  <2> QED
    BY ONLY <2>1, JoinAssoc
<1> QED
  BY <1>10, <1>11, <1>13, <1>14

\* A hash of a text that starts with a block is the hash from that block's
\* state, which is what the pad states are kept for.
LEMMA ShaJoin ==
    ASSUME NEW first, IsSeq(first), Len(first) = BB, NEW msg, IsSeq(msg)
    PROVE  Sha(first \o msg) = FromState(<<first>>, msg, BB)
<1>1. PICK k \in Nat : Len(Padded(msg, BB)) = BB * k
  BY PaddedIs
<1>2. IsSeq(Padded(msg, BB))
  BY PaddedIs
<1> HIDE DEF Padded
<1>3. Compressed(<<>>, first \o Padded(msg, BB))
        = Compressed(<<first>>, Padded(msg, BB))
  BY <1>1, <1>2, CompressedJoin
<1> QED
  BY <1>3, PaddedJoin DEF Sha, FromState

LEMMA PadIs ==
    ASSUME NEW kind, NEW k
    PROVE  IsSeq(Pad(kind, k)) /\ Len(Pad(kind, k)) = BB
<1> DEFINE list == Pad(kind, k)
<1>1. list = [i \in 1 .. BB |-> list[i]] /\ BB \in Nat
  BY HashAssumption DEF Pad
<1> HIDE DEF list
<1>2. IsSeq(list) /\ Len(list) = BB
  BY <1>1, ListAny
<1> QED
  BY <1>2 DEF list

LEMMA DigestIs ==
    ASSUME NEW st
    PROVE  IsSeq(Digest(st))
<1> DEFINE list == Digest(st)
<1>1. list = [i \in 1 .. DB |-> list[i]] /\ DB \in Nat
  BY HashAssumption DEF Digest
<1> HIDE DEF list
<1>2. IsSeq(list)
  BY <1>1, ListAny
<1> QED
  BY <1>2 DEF list

\* HMAC from the states behind the pads is HMAC.
LEMMA PadsSuffice ==
    ASSUME NEW k, NEW msg, IsSeq(msg)
    PROVE  FromPads(Precompute(k), msg) = Hmac(k, msg)
<1> DEFINE ipad == Pad("ipad", k)
           opad == Pad("opad", k)
           inner == Digest(Sha(ipad \o msg))
<1>1. /\ IsSeq(ipad) /\ Len(ipad) = BB
      /\ IsSeq(opad) /\ Len(opad) = BB
  BY PadIs
<1>2. IsSeq(inner)
  BY DigestIs
<1>3. Precompute(k)[1] = <<ipad>> /\ Precompute(k)[2] = <<opad>>
  BY DEF Precompute, Compress
<1> HIDE DEF ipad, opad, inner
<1>4. Sha(ipad \o msg) = FromState(<<ipad>>, msg, BB)
  BY <1>1, ShaJoin
<1>5. Sha(opad \o inner) = FromState(<<opad>>, inner, BB)
  BY <1>1, <1>2, ShaJoin
<1>6. Hmac(k, msg) = Digest(Sha(opad \o inner))
  BY DEF Hmac, ipad, opad, inner
<1>7. FromPads(Precompute(k), msg) = Digest(FromState(<<opad>>, inner, BB))
  BY <1>3, <1>4 DEF FromPads, inner
<1> QED
  BY <1>5, <1>6, <1>7

HkdfInv ==
    /\ IsSeq(text)
    /\ pads \in {<<>>, Precompute(key)}
    /\ quick = mac

\* Whatever the key and the text, hashing from the states kept behind the pad
\* blocks gives the same code as hashing from the start.
THEOREM QuickAlways ==
    HkdfInit /\ [][Prepare \/ Expand]_hvars => []QuickIsPlain
<1>1. HkdfInit => HkdfInv
  <2> SUFFICES ASSUME HkdfInit PROVE HkdfInv
    OBVIOUS
  <2>1. PICK n \in 0 .. MaxText : text = Bytes("text", n)
    BY DEF HkdfInit
  <2>2. text = [i \in 1 .. n |-> text[i]] /\ n \in Nat
    BY <2>1, HashAssumption DEF Bytes
  <2>3. IsSeq(text)
    BY <2>2, ListAny
  <2> QED
    BY <2>3 DEF HkdfInit, HkdfInv
<1>2. HkdfInv /\ [Prepare \/ Expand]_hvars => HkdfInv'
  <2> SUFFICES ASSUME HkdfInv, [Prepare \/ Expand]_hvars PROVE HkdfInv'
    OBVIOUS
  <2>1. CASE UNCHANGED hvars
    BY <2>1 DEF HkdfInv, hvars
  <2>2. CASE Prepare
    BY <2>2 DEF HkdfInv, Prepare
  <2>3. CASE Expand
    <3> DEFINE msg == text \o <<<<"1", 1>>>>
    <3>1. IsSeq(msg)
      BY OneAny, JoinIs DEF HkdfInv
    <3>2. mac' = Hmac(key, msg) /\ quick' = FromPads(pads, msg)
      BY <2>3 DEF Expand
    <3>3. pads = Precompute(key)
      BY <2>3 DEF Expand, HkdfInv
    <3> HIDE DEF msg
    <3>4. quick' = mac'
      BY <3>1, <3>2, <3>3, PadsSuffice
    <3> QED
      BY <2>3, <3>4 DEF Expand, HkdfInv
  <2> QED
    BY <2>1, <2>2, <2>3
<1>3. HkdfInv => QuickIsPlain
  BY DEF HkdfInv, QuickIsPlain
<1> QED
  BY <1>1, <1>2, <1>3, PTL

-----------------------------------------------------------------------------
(***************************************************************************)
(* AES-GCM.                                                                *)
(***************************************************************************)
Atom == {"one", "E", "len"} \X Nat \X Nat
Byte == SUBSET Atom

\* What a run of Seal and OpenWindow leaves in the variables.
GcmInv ==
    /\ plain \in Texts(MaxLen) /\ aad \in Texts(BS)
    /\ sealed # <<>> => sealed = <<Encrypt(aad, plain)>>
    /\ window # NoWindow =>
        /\ sealed # <<>>
        /\ \E o, len \in 0 .. BlockCount(Len(plain)), last \in 0 .. Len(plain) :
              window = [o |-> o, pt |->
                          DecWindow(SubSeq(sealed[1].ct, BS * o + 1, last), o)]

LEMMA Division ==
    ASSUME NEW k \in Nat
    PROVE  /\ k = BS * (k \div BS) + (k % BS)
           /\ k \div BS \in Nat
           /\ k % BS \in 0 .. BS - 1
BY BlockAssumption, DivisionOf

LEMMA DivisionOnce ==
    ASSUME NEW u \in Nat, NEW w \in Nat,
           NEW r \in 0 .. BS - 1, NEW s \in 0 .. BS - 1,
           BS * u + r = BS * w + s
    PROVE  u = w /\ r = s
BY BlockAssumption, QuotientOnce

\* Byte k of a window is byte k of the block o blocks further on.
LEMMA ShiftDivision ==
    ASSUME NEW o \in Nat, NEW k \in Nat
    PROVE  /\ (BS * o + k) \div BS = o + (k \div BS)
           /\ (BS * o + k) % BS = k % BS
<1> DEFINE t == BS * o + k
<1>1. t \in Nat
  BY BlockAssumption
<1>2. /\ t = BS * (t \div BS) + (t % BS)
      /\ t \div BS \in Nat /\ t % BS \in 0 .. BS - 1
  BY <1>1, Division
<1>3. /\ k = BS * (k \div BS) + (k % BS)
      /\ k \div BS \in Nat /\ k % BS \in 0 .. BS - 1
  BY Division
<1>4. BS * (o + (k \div BS)) = BS * o + BS * (k \div BS)
  BY <1>3, BlockAssumption
<1>5. BS * (t \div BS) + (t % BS) = BS * (o + (k \div BS)) + (k % BS)
  <2>1. BS * o \in Nat /\ BS * (k \div BS) \in Nat
    BY <1>3, BlockAssumption
  <2> HIDE DEF t
  <2>2. t = BS * o + k
    BY DEF t
  <2> QED
    BY <1>2, <1>3, <1>4, <2>1, <2>2
<1>6. o + (k \div BS) \in Nat
  BY <1>3
<1> HIDE DEF t
<1>7. t \div BS = o + (k \div BS) /\ t % BS = k % BS
  BY <1>2, <1>3, <1>5, <1>6, DivisionOnce
<1> QED
  BY <1>7 DEF t

LEMMA XorCancels ==
    ASSUME NEW u, NEW v
    PROVE  /\ XorSet(XorSet(u, v), u) = v
           /\ XorSet(XorSet(u, v), v) = u
BY DEF XorSet

LEMMA TextIsSeq ==
    ASSUME NEW n \in Nat, NEW s \in Texts(n)
    PROVE  /\ s \in Seq(Byte) /\ Len(s) \in 0 .. n
           /\ DOMAIN s = 1 .. Len(s)
<1>1. PICK m \in 0 .. n : s \in [1 .. m -> {{}, {<<"one", 0, 0>>}}]
  BY DEF Texts
<1>2. {{}, {<<"one", 0, 0>>}} \subseteq Byte
  BY DEF Byte, Atom
<1>3. s \in [1 .. m -> Byte]
  BY <1>1, <1>2, Zenon
<1>m. m \in Nat
  OBVIOUS
<1>4. s \in Seq(Byte)
  BY <1>3, <1>m, SeqDef
<1>5. Len(s) = m
  BY <1>3, <1>4, <1>m, LenProperties
<1> QED
  BY <1>4, <1>5, LenProperties

LEMMA CipherIsByte ==
    ASSUME NEW n \in Nat, NEW j \in Nat
    PROVE  Cipher(n, j) \in Byte
BY DEF Cipher, Byte, Atom

LEMMA CipherOnce ==
    ASSUME NEW n, NEW j, NEW m, NEW k, Cipher(n, j) = Cipher(m, k)
    PROVE  n = m /\ j = k
<1>1. <<"E", n, j>> = <<"E", m, k>>
  BY DEF Cipher
<1> QED
  BY <1>1

\* GCTR changes neither the length of a text nor what kind of thing it is.
LEMMA GctrKeeps ==
    ASSUME NEW s \in Seq(Byte), NEW o \in Nat
    PROVE  /\ Gctr(s, o) \in Seq(Byte) /\ Len(Gctr(s, o)) = Len(s)
           /\ \A n \in 1 .. Len(s) : Gctr(s, o)[n] =
                  XorSet(s[n], Cipher(CounterOf(o + (n - 1) \div BS), (n - 1) % BS))
<1>1. Len(s) \in Nat /\ DOMAIN s = 1 .. Len(s) /\ s \in [1 .. Len(s) -> Byte]
  BY LenProperties
<1>2. ASSUME NEW n \in 1 .. Len(s)
      PROVE  XorSet(s[n], Cipher(CounterOf(o + (n - 1) \div BS), (n - 1) % BS))
                \in Byte
  <2>1. n - 1 \in Nat
    BY <1>1
  <2>2. (n - 1) \div BS \in Nat /\ (n - 1) % BS \in Nat
    BY <2>1, BlockAssumption
  <2>3. CounterOf(o + (n - 1) \div BS) \in Nat
    BY <2>2 DEF CounterOf
  <2>4. Cipher(CounterOf(o + (n - 1) \div BS), (n - 1) % BS) \in Byte
    BY <2>2, <2>3, CipherIsByte
  <2>5. s[n] \in Byte
    BY <1>1
  <2> QED
    BY <2>4, <2>5 DEF XorSet, Byte
<1>3. Gctr(s, o) \in [1 .. Len(s) -> Byte]
  BY <1>1, <1>2 DEF Gctr
<1>4. Gctr(s, o) \in Seq(Byte)
  BY <1>1, <1>3, SeqDef
<1>5. Len(Gctr(s, o)) = Len(s)
  BY <1>1, <1>3, <1>4, LenProperties
<1>6. \A n \in 1 .. Len(s) : Gctr(s, o)[n] =
          XorSet(s[n], Cipher(CounterOf(o + (n - 1) \div BS), (n - 1) % BS))
  BY <1>1 DEF Gctr
<1> QED
  BY <1>4, <1>5, <1>6

LEMMA EncryptParts ==
    ASSUME GcmInv, sealed # <<>>
    PROVE  /\ sealed[1].ct = Gctr(plain, 0)
           /\ sealed[1].mask = {Cipher(J0, j) : j \in 0 .. BS - 1}
           /\ sealed[1].ghash = GhashInput(aad, Gctr(plain, 0))
<1>1. sealed[1] = Encrypt(aad, plain)
  BY DEF GcmInv
<1>2. /\ Encrypt(aad, plain).ct = Gctr(plain, 0)
      /\ Encrypt(aad, plain).mask = {Cipher(J0, j) : j \in 0 .. BS - 1}
      /\ Encrypt(aad, plain).ghash = GhashInput(aad, Gctr(plain, 0))
  BY DEF Encrypt
<1> QED
  BY <1>1, <1>2

LEMMA GcmTexts ==
    ASSUME GcmInv
    PROVE  /\ plain \in Seq(Byte) /\ Len(plain) \in 0 .. MaxLen
           /\ DOMAIN plain = 1 .. Len(plain)
           /\ aad \in Seq(Byte) /\ Len(aad) \in 0 .. BS
           /\ DOMAIN aad = 1 .. Len(aad)
BY TextIsSeq, BlockAssumption DEF GcmInv

\* The byte of the block cipher that byte n of a text is hidden with.
LEMMA PadOf ==
    ASSUME GcmInv, sealed # <<>>, NEW n \in DOMAIN plain
    PROVE  XorSet(sealed[1].ct[n], plain[n])
               = Cipher(CounterOf((n - 1) \div BS), (n - 1) % BS)
<1>1. n \in 1 .. Len(plain) /\ plain \in Seq(Byte)
  BY GcmTexts
<1>2. Gctr(plain, 0)[n] = XorSet(plain[n],
          Cipher(CounterOf(0 + (n - 1) \div BS), (n - 1) % BS))
  BY <1>1, GctrKeeps
<1>3. n - 1 \in Nat
  BY <1>1, GcmTexts
<1>4. 0 + (n - 1) \div BS = (n - 1) \div BS
  BY <1>3, BlockAssumption
<1>5. sealed[1].ct[n] = XorSet(plain[n], Cipher(CounterOf((n - 1) \div BS), (n - 1) % BS))
  BY <1>2, <1>4, EncryptParts
<1> QED
  BY <1>5, XorCancels

LEMMA GcmStart == GcmInit => GcmInv
BY DEF GcmInit, GcmInv

LEMMA GcmStep == GcmInv /\ [GcmNext]_gvars => GcmInv'
<1>1. CASE UNCHANGED gvars
  BY <1>1 DEF gvars, GcmInv
<1>2. ASSUME GcmInv, Seal PROVE GcmInv'
  <2>1. window = NoWindow
    BY <1>2 DEF GcmInv, Seal
  <2> QED
    BY <1>2, <2>1 DEF GcmInv, Seal
<1>3. ASSUME GcmInv, OpenWindow PROVE GcmInv'
  <2>1. sealed # <<>> /\ sealed' = sealed /\ plain' = plain /\ aad' = aad
    BY <1>3 DEF OpenWindow
  <2>2. Len(sealed[1].ct) = Len(plain) /\ Len(plain) \in Nat
    BY <1>3, <2>1, EncryptParts, GcmTexts, GctrKeeps
  <2>3. PICK o, len \in 0 .. BlockCount(Len(plain)) :
            window' = [o |-> o, pt |-> DecWindow(SubSeq(sealed[1].ct, BS * o + 1,
                        IF BS * (o + len) < Len(sealed[1].ct)
                          THEN BS * (o + len) ELSE Len(sealed[1].ct)), o)]
    BY <1>3 DEF OpenWindow
  <2>4. BlockCount(Len(plain)) \in Nat
    BY <2>2, BlockAssumption DEF BlockCount
  <2> DEFINE last == IF BS * (o + len) < Len(sealed[1].ct)
                       THEN BS * (o + len) ELSE Len(sealed[1].ct)
  <2>5. last \in 0 .. Len(plain)
    <3>1. BS * (o + len) \in Nat
      BY <2>4, BlockAssumption
    <3> QED
      BY <2>2, <3>1
  <2> HIDE DEF last
  <2>6. window' = [o |-> o, pt |-> DecWindow(SubSeq(sealed[1].ct, BS * o + 1, last), o)]
    BY <2>3 DEF last
  <2>7. window' # NoWindow
    BY <2>4, <2>6 DEF NoWindow
  <2> QED
    BY <1>3, <2>1, <2>5, <2>6, <2>7 DEF GcmInv
<1> QED
  BY <1>1, <1>2, <1>3 DEF GcmNext

THEOREM GcmAlways == GcmInit /\ [][GcmNext]_gvars => []GcmInv
BY GcmStart, GcmStep, PTL

\* gcm_encrypt never uses a byte of the block cipher twice, nor for a text a
\* byte of the mask of its tag, whatever the size of a block and the lengths.
THEOREM KeystreamFresh == GcmInit /\ [][GcmNext]_gvars => []KeystreamOnce
<1>1. GcmInv => KeystreamOnce
  <2> SUFFICES ASSUME GcmInv, sealed # <<>> PROVE KeystreamOnce
    BY DEF KeystreamOnce
  <2> DEFINE pad(n) == XorSet(sealed[1].ct[n], plain[n])
  <2>1. ASSUME NEW n \in DOMAIN plain
        PROVE  /\ n - 1 \in Nat
               /\ pad(n) = Cipher((n - 1) \div BS + 2, (n - 1) % BS)
               /\ (n - 1) \div BS \in Nat /\ (n - 1) % BS \in 0 .. BS - 1
               /\ n - 1 = BS * ((n - 1) \div BS) + ((n - 1) % BS)
    <3>1. n \in 1 .. Len(plain) /\ Len(plain) \in Nat
      BY GcmTexts, BlockAssumption
    <3>2. n - 1 \in Nat
      BY <3>1
    <3>3. pad(n) = Cipher(CounterOf((n - 1) \div BS), (n - 1) % BS)
      BY PadOf
    <3> QED
      BY <3>2, <3>3, Division, BlockAssumption DEF CounterOf
  <2> HIDE DEF pad
  <2>2. ASSUME NEW n \in DOMAIN plain PROVE pad(n) \notin sealed[1].mask
    <3>1. ASSUME NEW j \in 0 .. BS - 1 PROVE pad(n) # Cipher(J0, j)
      <4>1. ASSUME pad(n) = Cipher(J0, j) PROVE (n - 1) \div BS + 2 = J0
        BY <2>1, <4>1, CipherOnce
      <4> QED
        BY <2>1, <4>1 DEF J0
    <3> QED
      BY <3>1, EncryptParts
  <2>3. ASSUME NEW n \in DOMAIN plain, NEW m \in DOMAIN plain, pad(n) = pad(m)
        PROVE  n = m
    <3>1. /\ (n - 1) \div BS + 2 = (m - 1) \div BS + 2
          /\ (n - 1) % BS = (m - 1) % BS
      <4>1. Cipher((n - 1) \div BS + 2, (n - 1) % BS)
              = Cipher((m - 1) \div BS + 2, (m - 1) % BS)
        BY <2>1, <2>3
      <4> QED
        BY <4>1, CipherOnce
    <3>2. (n - 1) \div BS = (m - 1) \div BS
      BY <2>1, <3>1
    <3>3. n - 1 = m - 1
      BY <2>1, <3>1, <3>2
    <3>4. n \in Int /\ m \in Int
      BY GcmTexts
    <3> QED
      BY <3>3, <3>4
  <2> QED
    BY <2>2, <2>3 DEF KeystreamOnce, pad
<1> QED
  BY <1>1, GcmAlways, PTL

\* What _dec_window of billing.py makes of a run of blocks, at any offset, are
\* the bytes of the text that gcm_encrypt sealed at that place.
THEOREM WindowRight == GcmInit /\ [][GcmNext]_gvars => []WindowIsSlice
<1>1. GcmInv => WindowIsSlice
  <2> SUFFICES ASSUME GcmInv, NEW n \in DOMAIN window.pt
               PROVE  window.pt[n] = plain[BS * window.o + n]
    BY DEF WindowIsSlice
  <2>1. window # NoWindow
    BY DEF NoWindow
  <2>2. PICK o \in 0 .. BlockCount(Len(plain)), last \in 0 .. Len(plain) :
            window = [o |-> o, pt |->
                        DecWindow(SubSeq(sealed[1].ct, BS * o + 1, last), o)]
    BY <2>1 DEF GcmInv
  <2>3. sealed # <<>> /\ plain \in Seq(Byte) /\ Len(plain) \in Nat
    BY <2>1, GcmTexts DEF GcmInv
  <2> DEFINE b == BS * o
             ct == Gctr(plain, 0)
             s == SubSeq(ct, b + 1, last)
             E == Cipher(CounterOf(o + (n - 1) \div BS), (n - 1) % BS)
  <2>4. o \in Nat /\ last \in Nat /\ b \in Nat
    BY <2>3, BlockAssumption DEF BlockCount
  <2>5. ct \in Seq(Byte) /\ Len(ct) = Len(plain)
    BY <2>3, GctrKeeps
  <2>6. window.pt = Gctr(s, o) /\ window.o = o
    BY <2>2, <2>3, EncryptParts DEF DecWindow
  <2>7. \A k \in Nat : (b + k) \div BS = o + (k \div BS) /\ (b + k) % BS = k % BS
    BY <2>4, ShiftDivision
  <2>8. \A j \in 1 .. Len(plain) : ct[j] = XorSet(plain[j],
            Cipher(CounterOf(0 + (j - 1) \div BS), (j - 1) % BS))
    BY <2>3, GctrKeeps
  <2> HIDE DEF b, ct
  <2>9. \A i \in b + 1 .. last : ct[i] \in Byte
    <3>1. \A i \in b + 1 .. last : i \in 1 .. Len(ct)
      BY <2>3, <2>4, <2>5
    <3> QED
      BY <2>5, <3>1, ElementOfSeq
  <2>10. /\ s \in Seq(Byte)
         /\ Len(s) = IF b + 1 <= last THEN last - (b + 1) + 1 ELSE 0
         /\ \A i \in 1 .. last - (b + 1) + 1 : s[i] = ct[b + 1 + i - 1]
    <3>1. b + 1 \in Int /\ last \in Int
      BY <2>4
    <3> QED
      BY <2>9, <3>1, SubSeqProperties
  <2> HIDE DEF s
  <2>11. n \in 1 .. Len(s)
    BY <2>4, <2>6, <2>10, GctrKeeps, LenProperties
  <2>12. /\ n \in 1 .. last - (b + 1) + 1 /\ n - 1 \in Nat
         /\ b + n \in 1 .. Len(plain)
    BY <2>3, <2>4, <2>10, <2>11
  <2>13. s[n] = ct[b + n]
    <3>1. s[n] = ct[b + 1 + n - 1]
      BY <2>10, <2>12
    <3>2. b + 1 + n - 1 = b + n
      BY <2>4, <2>12
    <3> QED
      BY <3>1, <3>2
  <2>14. Gctr(s, o)[n] = XorSet(s[n], E)
    BY <2>4, <2>10, <2>11, GctrKeeps
  <2>15. ct[b + n] = XorSet(plain[b + n], E)
    <3> DEFINE j == b + n
    <3>1. j \in 1 .. Len(plain)
      BY <2>12
    <3>2. j - 1 = b + (n - 1)
      BY <2>4, <2>12
    <3> HIDE DEF j
    <3>3. ct[j] = XorSet(plain[j],
              Cipher(CounterOf(0 + (j - 1) \div BS), (j - 1) % BS))
      BY <2>8, <3>1
    <3>4. /\ (b + (n - 1)) \div BS = o + ((n - 1) \div BS)
          /\ (b + (n - 1)) % BS = (n - 1) % BS
      BY <2>7, <2>12
    <3>5. (n - 1) \div BS \in Nat
      BY <2>12, BlockAssumption
    <3>6. 0 + (j - 1) \div BS = o + (n - 1) \div BS
      BY <2>4, <3>2, <3>4, <3>5
    <3>7. ct[j] = XorSet(plain[j], E)
      BY <3>2, <3>3, <3>4, <3>6
    <3> QED
      BY <3>7 DEF j
  <2>16. window.pt[n] = plain[b + n]
    BY <2>6, <2>13, <2>14, <2>15, XorCancels
  <2> QED
    BY <2>6, <2>16 DEF b
<1> QED
  BY <1>1, GcmAlways, PTL

LEMMA PadShape ==
    ASSUME NEW s \in Seq(Byte)
    PROVE  /\ Pad16(s) \in Seq(Byte)
           /\ Len(Pad16(s)) = Len(s) + ((BS - (Len(s) % BS)) % BS)
           /\ Len(s) <= Len(Pad16(s)) /\ Len(Pad16(s)) < Len(s) + BS
           /\ \E k \in Nat : Len(Pad16(s)) = BS * k
           /\ \A i \in 1 .. Len(s) : Pad16(s)[i] = s[i]
<1> DEFINE h == Len(s)
           q == h \div BS
           r == h % BS
           m == (BS - r) % BS
           z == [n \in 1 .. m |-> {}]
<1>1. h \in Nat
  BY LenProperties
<1>2. h = BS * q + r /\ q \in Nat /\ r \in 0 .. BS - 1
  BY <1>1, Division
<1> HIDE DEF q, r
<1>3. m = IF r = 0 THEN 0 ELSE BS - r
  BY <1>2, BlockAssumption
<1>4. m \in Nat /\ m < BS
  BY <1>2, <1>3, BlockAssumption
<1>5. h + m = BS * (IF r = 0 THEN q ELSE q + 1)
  BY <1>2, <1>3, BlockAssumption
<1> HIDE DEF m
<1>6. z \in Seq(Byte) /\ Len(z) = m
  <2>1. z \in [1 .. m -> Byte]
    BY DEF Byte
  <2>2. z \in Seq(Byte)
    BY <1>4, <2>1, SeqDef
  <2> HIDE DEF z
  <2> QED
    BY <1>4, <2>1, <2>2, LenProperties
<1>7. Pad16(s) = s \o z
  BY DEF Pad16, r, m
<1> HIDE DEF z
<1>s. /\ s \o z \in Seq(Byte) /\ Len(s \o z) = Len(s) + Len(z)
      /\ \A i \in 1 .. Len(s) + Len(z) :
             (s \o z)[i] = IF i <= Len(s) THEN s[i] ELSE z[i - Len(s)]
  BY <1>6, ConcatProperties
<1>8. /\ Pad16(s) \in Seq(Byte) /\ Len(Pad16(s)) = h + m
      /\ \A i \in 1 .. h : Pad16(s)[i] = s[i]
  BY <1>1, <1>4, <1>6, <1>7, <1>s
<1> HIDE DEF h
<1>9. h <= Len(Pad16(s)) /\ Len(Pad16(s)) < h + BS
  BY <1>1, <1>4, <1>8, BlockAssumption
<1>10. \E k \in Nat : Len(Pad16(s)) = BS * k
  BY <1>2, <1>5, <1>8
<1>11. Len(Pad16(s)) = Len(s) + ((BS - (Len(s) % BS)) % BS)
  BY <1>8 DEF m, r, h
<1> QED
  BY <1>8, <1>9, <1>10, <1>11 DEF h

LenOf(n, ad, ct) == Len(IF 2 * n <= BS THEN ad ELSE ct)

LEMMA LensShape ==
    ASSUME NEW ad \in Seq(Byte), NEW ct \in Seq(Byte)
    PROVE  /\ Lens(ad, ct) \in Seq(Byte) /\ Len(Lens(ad, ct)) = BS
           /\ \A n \in 1 .. BS : Lens(ad, ct)[n] = {<<"len", n, LenOf(n, ad, ct)>>}
<1>1. ASSUME NEW n \in 1 .. BS PROVE {<<"len", n, LenOf(n, ad, ct)>>} \in Byte
  <2>1. n \in Nat /\ LenOf(n, ad, ct) \in Nat
    BY BlockAssumption, LenProperties DEF LenOf
  <2> QED
    BY <2>1 DEF Byte, Atom
<1>2. Lens(ad, ct) = [n \in 1 .. BS |-> {<<"len", n, LenOf(n, ad, ct)>>}]
  BY DEF Lens, LenOf
<1>3. Lens(ad, ct) \in [1 .. BS -> Byte]
  BY <1>1, <1>2
<1>4. Lens(ad, ct) \in Seq(Byte)
  BY <1>3, SeqDef, BlockAssumption
<1>5. Len(Lens(ad, ct)) = BS
  BY <1>3, <1>4, LenProperties, BlockAssumption
<1> QED
  BY <1>2, <1>4, <1>5

\* The blocks of GHASH are whole ones: the cut at the end takes nothing away.
LEMMA GhashShape ==
    ASSUME NEW ad \in Seq(Byte), NEW ct \in Seq(Byte)
    PROVE  /\ Len(GhashInput(ad, ct)) = Len(Pad16(ad)) + Len(Pad16(ct)) + BS
           /\ \A i \in 1 .. Len(Pad16(ad)) : GhashInput(ad, ct)[i] = Pad16(ad)[i]
           /\ \A i \in 1 .. Len(Pad16(ct)) :
                  GhashInput(ad, ct)[Len(Pad16(ad)) + i] = Pad16(ct)[i]
           /\ \A n \in 1 .. BS :
                  GhashInput(ad, ct)[Len(Pad16(ad)) + Len(Pad16(ct)) + n]
                      = {<<"len", n, LenOf(n, ad, ct)>>}
<1> DEFINE A == Pad16(ad)
           C == Pad16(ct)
           D == Lens(ad, ct)
           data == (A \o C) \o D
<1>1. A \in Seq(Byte) /\ C \in Seq(Byte) /\ D \in Seq(Byte) /\ Len(D) = BS
  BY PadShape, LensShape
<1>2. PICK k \in Nat : Len(A) = BS * k
  BY PadShape
<1>3. PICK l2 \in Nat : Len(C) = BS * l2
  BY PadShape
<1>4. GhashInput(ad, ct) = SubSeq(data, 1, BS * (Len(data) \div BS))
  BY DEF GhashInput
<1>5. \A n \in 1 .. BS : D[n] = {<<"len", n, LenOf(n, ad, ct)>>}
  BY LensShape
<1> HIDE DEF A, C, D
<1>6. /\ A \o C \in Seq(Byte) /\ Len(A \o C) = Len(A) + Len(C)
      /\ \A i \in 1 .. Len(A) + Len(C) :
             (A \o C)[i] = IF i <= Len(A) THEN A[i] ELSE C[i - Len(A)]
  BY <1>1, ConcatProperties
<1>a. ASSUME NEW u \in Seq(Byte)
      PROVE  /\ u \o D \in Seq(Byte) /\ Len(u \o D) = Len(u) + Len(D)
             /\ \A i \in 1 .. Len(u) + Len(D) :
                   (u \o D)[i] = IF i <= Len(u) THEN u[i] ELSE D[i - Len(u)]
  BY <1>1, ConcatProperties
<1>7. /\ data \in Seq(Byte) /\ Len(data) = Len(A) + Len(C) + BS
      /\ \A i \in 1 .. Len(A) + Len(C) + BS :
             data[i] = IF i <= Len(A) + Len(C) THEN (A \o C)[i]
                       ELSE D[i - (Len(A) + Len(C))]
  <2> DEFINE AC == A \o C
  <2>1. AC \in Seq(Byte) /\ Len(AC) = Len(A) + Len(C) /\ data = AC \o D
    BY <1>6
  <2> HIDE DEF AC, data
  <2>2. /\ AC \o D \in Seq(Byte) /\ Len(AC \o D) = Len(AC) + Len(D)
        /\ \A i \in 1 .. Len(AC) + Len(D) :
              (AC \o D)[i] = IF i <= Len(AC) THEN AC[i] ELSE D[i - Len(AC)]
    BY <1>a, <2>1
  <2>3. \A i \in 1 .. Len(A) + Len(C) + BS :
             data[i] = IF i <= Len(A) + Len(C) THEN AC[i]
                       ELSE D[i - (Len(A) + Len(C))]
    BY <1>1, <2>1, <2>2
  <2> QED
    BY <1>1, <2>1, <2>2, <2>3 DEF AC
<1> HIDE DEF data
<1>8. BS * (Len(data) \div BS) = Len(data)
  <2>1. Len(data) = BS * (k + l2 + 1) /\ k + l2 + 1 \in Nat
    BY <1>2, <1>3, <1>7, BlockAssumption
  <2> DEFINE t == Len(data)
  <2>2. t \in Nat
    BY <1>7, LenProperties
  <2> HIDE DEF t
  <2>3. t = BS * (t \div BS) + (t % BS) /\ t \div BS \in Nat /\ t % BS \in 0 .. BS - 1
    BY <2>2, Division
  <2>4. t = BS * (k + l2 + 1)
    BY <2>1 DEF t
  <2>5. BS * (t \div BS) + (t % BS) = BS * (k + l2 + 1) + 0 /\ 0 \in 0 .. BS - 1
    BY <2>2, <2>3, <2>4, BlockAssumption
  <2>6. t \div BS = k + l2 + 1
    BY <2>1, <2>3, <2>5, DivisionOnce
  <2> QED
    BY <2>4, <2>6 DEF t
<1>9. GhashInput(ad, ct) = data
  BY <1>4, <1>7, <1>8, SubSeqFull
<1>10. Len(A) \in Nat /\ Len(C) \in Nat
  BY <1>1, LenProperties
<1>11. \A i \in 1 .. Len(A) : data[i] = A[i]
  BY <1>6, <1>7, <1>10, BlockAssumption
<1>12. \A i \in 1 .. Len(C) : data[Len(A) + i] = C[i]
  <2> SUFFICES ASSUME NEW i \in 1 .. Len(C) PROVE data[Len(A) + i] = C[i]
    OBVIOUS
  <2>1. /\ Len(A) + i \in 1 .. Len(A) + Len(C)
        /\ Len(A) + i \in 1 .. Len(A) + Len(C) + BS
        /\ ~ (Len(A) + i <= Len(A)) /\ (Len(A) + i) - Len(A) = i
        /\ Len(A) + i <= Len(A) + Len(C)
    BY <1>10, BlockAssumption
  <2>2. data[Len(A) + i] = (A \o C)[Len(A) + i]
    BY <1>7, <2>1
  <2>3. (A \o C)[Len(A) + i] = C[(Len(A) + i) - Len(A)]
    BY <1>6, <2>1
  <2> QED
    BY <2>1, <2>2, <2>3
<1>13. \A n \in 1 .. BS : data[Len(A) + Len(C) + n] = D[n]
  <2> SUFFICES ASSUME NEW n \in 1 .. BS PROVE data[Len(A) + Len(C) + n] = D[n]
    OBVIOUS
  <2>1. /\ Len(A) + Len(C) + n \in 1 .. Len(A) + Len(C) + BS
        /\ ~ (Len(A) + Len(C) + n <= Len(A) + Len(C))
        /\ (Len(A) + Len(C) + n) - (Len(A) + Len(C)) = n
    BY <1>10, BlockAssumption
  <2>2. data[Len(A) + Len(C) + n] = D[(Len(A) + Len(C) + n) - (Len(A) + Len(C))]
    BY <1>7, <2>1
  <2> QED
    BY <2>1, <2>2
<1> QED
  BY <1>5, <1>7, <1>9, <1>11, <1>12, <1>13 DEF A, C

\* GHASH is fed the lengths: equal blocks come from equal data.
LEMMA GhashOnce ==
    ASSUME NEW ad \in Seq(Byte), NEW ct \in Seq(Byte),
           NEW ae \in Seq(Byte), NEW cu \in Seq(Byte),
           GhashInput(ad, ct) = GhashInput(ae, cu)
    PROVE  ad = ae /\ ct = cu
<1> DEFINE G == GhashInput(ad, ct)
           H == GhashInput(ae, cu)
           LA == Len(Pad16(ad))
           LC == Len(Pad16(ct))
           LE == Len(Pad16(ae))
           LU == Len(Pad16(cu))
<1>1. /\ Len(G) = LA + LC + BS
      /\ \A i \in 1 .. LA : G[i] = Pad16(ad)[i]
      /\ \A i \in 1 .. LC : G[LA + i] = Pad16(ct)[i]
      /\ \A n \in 1 .. BS : G[LA + LC + n] = {<<"len", n, LenOf(n, ad, ct)>>}
  BY GhashShape
<1>2. /\ Len(H) = LE + LU + BS
      /\ \A i \in 1 .. LE : H[i] = Pad16(ae)[i]
      /\ \A i \in 1 .. LU : H[LE + i] = Pad16(cu)[i]
      /\ \A n \in 1 .. BS : H[LE + LU + n] = {<<"len", n, LenOf(n, ae, cu)>>}
  BY GhashShape
<1>3. G = H
  OBVIOUS
<1>4. LA \in Nat /\ LC \in Nat /\ LE \in Nat /\ LU \in Nat
  BY PadShape, LenProperties
<1>5. /\ Len(ad) \in Nat /\ Len(ae) \in Nat
      /\ Len(ct) \in Nat /\ Len(cu) \in Nat
  BY LenProperties
<1>6. /\ LC = Len(ct) + ((BS - (Len(ct) % BS)) % BS)
      /\ LU = Len(cu) + ((BS - (Len(cu) % BS)) % BS)
  BY PadShape
<1>7. /\ Len(ad) <= LA /\ LA < Len(ad) + BS
      /\ Len(ae) <= LE /\ LE < Len(ae) + BS
      /\ Len(ct) <= LC /\ Len(cu) <= LU
  BY PadShape
<1>8. /\ \A i \in 1 .. Len(ad) : Pad16(ad)[i] = ad[i]
      /\ \A i \in 1 .. Len(ae) : Pad16(ae)[i] = ae[i]
      /\ \A i \in 1 .. Len(ct) : Pad16(ct)[i] = ct[i]
      /\ \A i \in 1 .. Len(cu) : Pad16(cu)[i] = cu[i]
  BY PadShape
<1> HIDE DEF G, H, LA, LC, LE, LU
<1>9. LA + LC = LE + LU
  BY <1>1, <1>2, <1>3, <1>4, BlockAssumption
<1>10. ASSUME NEW n \in 1 .. BS PROVE LenOf(n, ad, ct) = LenOf(n, ae, cu)
  <2>1. {<<"len", n, LenOf(n, ad, ct)>>} = {<<"len", n, LenOf(n, ae, cu)>>}
    BY <1>1, <1>2, <1>3, <1>9
  <2>2. <<"len", n, LenOf(n, ad, ct)>> = <<"len", n, LenOf(n, ae, cu)>>
    BY <2>1
  <2> QED
    BY <2>2
<1>11. Len(ct) = Len(cu)
  <2>1. BS \in 1 .. BS /\ ~ (2 * BS <= BS)
    BY BlockAssumption
  <2> QED
    BY <1>10, <2>1 DEF LenOf
<1>12. LC = LU /\ LA = LE
  BY <1>4, <1>6, <1>9, <1>11
<1>13. Len(ad) = Len(ae)
  <2>1. CASE BS = 1
    BY <1>4, <1>5, <1>7, <1>12, <2>1
  <2>2. CASE BS # 1
    <3>1. 1 \in 1 .. BS /\ 2 * 1 <= BS
      BY <2>2, BlockAssumption
    <3> QED
      BY <1>10, <3>1 DEF LenOf
  <2> QED
    BY <2>1, <2>2
<1>14. ASSUME NEW i \in 1 .. Len(ad) PROVE ad[i] = ae[i]
  <2>1. i \in 1 .. LA /\ i \in 1 .. LE /\ i \in 1 .. Len(ae)
    BY <1>4, <1>5, <1>7, <1>12, <1>13
  <2> QED
    BY <1>1, <1>2, <1>3, <1>8, <2>1
<1>15. ASSUME NEW i \in 1 .. Len(ct) PROVE ct[i] = cu[i]
  <2>1. i \in 1 .. LC /\ i \in 1 .. LU /\ i \in 1 .. Len(cu)
    BY <1>4, <1>5, <1>7, <1>11, <1>12
  <2>2. G[LA + i] = Pad16(ct)[i] /\ H[LE + i] = Pad16(cu)[i]
    BY <1>1, <1>2, <2>1
  <2> QED
    BY <1>3, <1>8, <1>12, <2>1, <2>2
<1> QED
  BY <1>11, <1>13, <1>14, <1>15, SeqEqual

\* GCTR is one to one.
LEMMA GctrOnce ==
    ASSUME NEW s \in Seq(Byte), NEW t \in Seq(Byte), Gctr(s, 0) = Gctr(t, 0)
    PROVE  s = t
<1>1. Len(s) = Len(t)
  BY GctrKeeps
<1>2. ASSUME NEW n \in 1 .. Len(s) PROVE s[n] = t[n]
  <2> DEFINE E == Cipher(CounterOf(0 + (n - 1) \div BS), (n - 1) % BS)
  <2>1. Gctr(s, 0)[n] = XorSet(s[n], E)
    BY GctrKeeps
  <2>2. Gctr(t, 0)[n] = XorSet(t[n], E)
    BY <1>1, GctrKeeps
  <2>3. XorSet(XorSet(s[n], E), E) = XorSet(XorSet(t[n], E), E)
    BY <2>1, <2>2
  <2> QED
    BY <2>3, XorCancels
<1> QED
  BY <1>1, <1>2, SeqEqual

\* The tag of a record is over blocks that no other associated data and text
\* fill, whatever their lengths: padding with zeros never makes two records
\* one, because the lengths are part of what is hashed.
THEOREM TagsBind == GcmInit /\ [][GcmNext]_gvars => []TagBinds
<1>1. GcmInv => TagBinds
  <2> SUFFICES ASSUME GcmInv, sealed # <<>>,
                      NEW ad \in Texts(BS), NEW pt \in Texts(MaxLen),
                      GhashInput(ad, Gctr(pt, 0)) = sealed[1].ghash
               PROVE  ad = aad /\ pt = plain
    BY DEF TagBinds
  <2>1. ad \in Seq(Byte) /\ pt \in Seq(Byte)
    BY TextIsSeq, BlockAssumption
  <2>2. plain \in Seq(Byte) /\ aad \in Seq(Byte)
    BY GcmTexts
  <2>3. Gctr(pt, 0) \in Seq(Byte) /\ Gctr(plain, 0) \in Seq(Byte)
    BY <2>1, <2>2, GctrKeeps
  <2>4. GhashInput(ad, Gctr(pt, 0)) = GhashInput(aad, Gctr(plain, 0))
    BY EncryptParts
  <2>5. ad = aad /\ Gctr(pt, 0) = Gctr(plain, 0)
    BY <2>1, <2>2, <2>3, <2>4, GhashOnce
  <2> QED
    BY <2>1, <2>2, <2>5, GctrOnce
<1> QED
  BY <1>1, GcmAlways, PTL

=============================================================================
