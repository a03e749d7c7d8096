---------------------------- MODULE EngineProofs ----------------------------
(***************************************************************************)
(* The operations of the 2PC engine on shares, for every width of a word,  *)
(* every prime of the field and every irreducible polynomial, in whatever  *)
(* order a program uses them and however it changes the backend: shares    *)
(* join to the value the object is meant to have, annotations are true,    *)
(* and a program that is only simulated lacks none.                        *)
(***************************************************************************)
EXTENDS Engine, WellFoundedInduction, TLAPS

(***************************************************************************)
(* Residues.                                                               *)
(***************************************************************************)
Cong(m, i, j) == \E k \in Int : i = j + k * m

LEMMA Rest ==
    ASSUME NEW m \in Nat \ {0}, NEW i \in Int
    PROVE  i % m \in 0 .. m - 1 /\ i % m \in Int /\ Cong(m, i, i % m)
<1>1. /\ i % m \in 0 .. m - 1 /\ i \div m \in Int
      /\ i = m * (i \div m) + (i % m)
  OBVIOUS
<1>2. PICK k \in Int, r \in 0 .. m - 1 : r = i % m /\ i = m * k + r
  BY <1>1
<1>3. i = r + k * m
  BY <1>2
<1>4. Cong(m, i, r)
  BY <1>3 DEF Cong
<1>5. r \in Int
  OBVIOUS
<1> QED
  BY <1>2, <1>4, <1>5

LEMMA Multiples ==
    ASSUME NEW m \in Nat \ {0}, NEW k \in Int
    PROVE  /\ k * m \in Int /\ (- k) * m = - (k * m)
           /\ k > 0 => k * m >= m
           /\ k < 0 => k * m <= - m
           /\ \A j \in Int : (k + j) * m = k * m + j * m /\ (k - j) * m = k * m - j * m
OBVIOUS

LEMMA CongOnce ==
    ASSUME NEW m \in Nat \ {0}, NEW i \in 0 .. m - 1, NEW j \in 0 .. m - 1, Cong(m, i, j)
    PROVE  i = j
<1>1. PICK k \in Int : i = j + k * m
  BY DEF Cong
<1>2. PICK w \in Int : /\ w = k * m /\ (k > 0 => w >= m) /\ (k < 0 => w <= - m)
  BY Multiples
<1>3. ~ k > 0 /\ ~ k < 0
  BY <1>1, <1>2
<1>4. k = 0
  BY <1>3
<1>5. 0 * m = 0
  OBVIOUS
<1> QED
  BY <1>1, <1>4, <1>5

LEMMA CongSame ==
    ASSUME NEW m \in Nat \ {0}, NEW i \in Int
    PROVE  Cong(m, i, i)
<1>1. i = i + 0 * m
  OBVIOUS
<1> QED
  BY <1>1 DEF Cong

LEMMA CongBack ==
    ASSUME NEW m \in Nat \ {0}, NEW i \in Int, NEW j \in Int, Cong(m, i, j)
    PROVE  Cong(m, j, i)
<1>1. PICK k \in Int : i = j + k * m
  BY DEF Cong
<1>2. j = i + (- k) * m
  BY <1>1, Multiples
<1> QED
  BY <1>2 DEF Cong

LEMMA CongOver ==
    ASSUME NEW m \in Nat \ {0}, NEW i \in Int, NEW j \in Int, NEW n \in Int,
           Cong(m, i, j), Cong(m, j, n)
    PROVE  Cong(m, i, n)
<1>1. PICK k \in Int : i = j + k * m
  BY DEF Cong
<1>2. PICK l \in Int : j = n + l * m
  BY DEF Cong
<1>3. i = n + (k + l) * m
  <2>1. (k + l) * m = k * m + l * m /\ k * m \in Int /\ l * m \in Int
    BY Multiples
  <2> QED
    BY <1>1, <1>2, <2>1
<1>4. k + l \in Int
  OBVIOUS
<1> QED
  BY <1>3, <1>4 DEF Cong

LEMMA CongSum ==
    ASSUME NEW m \in Nat \ {0}, NEW i \in Int, NEW j \in Int, NEW n \in Int, NEW o \in Int,
           Cong(m, i, j), Cong(m, n, o)
    PROVE  Cong(m, i + n, j + o) /\ Cong(m, i - n, j - o)
<1>1. PICK k \in Int : i = j + k * m
  BY DEF Cong
<1>2. PICK l \in Int : n = o + l * m
  BY DEF Cong
<1>3. /\ (k + l) * m = k * m + l * m /\ (k - l) * m = k * m - l * m
      /\ k * m \in Int /\ l * m \in Int
  BY Multiples
<1>4. /\ i + n = (j + o) + (k + l) * m /\ i - n = (j - o) + (k - l) * m
      /\ k + l \in Int /\ k - l \in Int
  BY <1>1, <1>2, <1>3
<1> QED
  BY <1>4 DEF Cong

LEMMA CongTimes ==
    ASSUME NEW m \in Nat \ {0}, NEW i \in Int, NEW j \in Int, NEW n \in Int, Cong(m, i, j)
    PROVE  Cong(m, i * n, j * n) /\ Cong(m, n * i, n * j)
<1>1. PICK k \in Int : i = j + k * m
  BY DEF Cong
<1>2. (j + k * m) * n = j * n + (k * n) * m /\ n * (j + k * m) = n * j + (k * n) * m
  OBVIOUS
<1>3. k * n \in Int
  OBVIOUS
<1> QED
  BY <1>1, <1>2, <1>3 DEF Cong

\* A residue is recognised by its range and by what it is congruent to.
LEMMA RestIs ==
    ASSUME NEW m \in Nat \ {0}, NEW i \in Int, NEW j \in Int, Cong(m, i, j)
    PROVE  /\ i % m = j % m
           /\ j \in 0 .. m - 1 => i % m = j
<1>1. /\ i % m \in 0 .. m - 1 /\ j % m \in 0 .. m - 1 /\ i % m \in Int /\ j % m \in Int
      /\ Cong(m, i, i % m) /\ Cong(m, j, j % m)
  BY Rest
<1>2. PICK r \in Int, s \in Int : r = i % m /\ s = j % m
  BY <1>1
<1>3. Cong(m, r, i) /\ Cong(m, i, s)
  <2>1. Cong(m, i, r) /\ Cong(m, j, s)
    BY <1>1, <1>2
  <2> QED
    BY <2>1, CongBack, CongOver
<1>4. Cong(m, r, s) /\ Cong(m, r, j)
  BY <1>3, CongOver
<1>5. r \in 0 .. m - 1 /\ s \in 0 .. m - 1
  BY <1>1, <1>2
<1> QED
  BY <1>2, <1>4, <1>5, CongOnce

(***************************************************************************)
(* Words.                                                                  *)
(***************************************************************************)
Bit == {0, 1}

LEMMA BitSum == \A b \in Bit, d \in Bit : (b + d) % 2 = IF b = d THEN 0 ELSE 1
<1>1. (0 + 0) % 2 = 0 /\ (0 + 1) % 2 = 1 /\ (1 + 0) % 2 = 1 /\ (1 + 1) % 2 = 0
  OBVIOUS
<1> QED
  BY <1>1 DEF Bit

LEMMA BitProduct == \A b \in Bit, d \in Bit : b * d = IF b = 1 THEN d ELSE 0
<1>1. 0 * 0 = 0 /\ 0 * 1 = 0 /\ 1 * 0 = 0 /\ 1 * 1 = 1
  OBVIOUS
<1> QED
  BY <1>1 DEF Bit

LEMMA XorWord ==
    ASSUME NEW u \in Word, NEW w \in Word
    PROVE  /\ Xor(u, w) \in Word
           /\ \A i \in Idx : Xor(u, w)[i] = IF u[i] = w[i] THEN 0 ELSE 1
<1>1. \A i \in Idx : u[i] \in Bit /\ w[i] \in Bit
  BY DEF Word, Bit
<1>2. \A i \in Idx : Xor(u, w)[i] = (u[i] + w[i]) % 2
  BY DEF Xor
<1>3. \A i \in Idx : Xor(u, w)[i] = IF u[i] = w[i] THEN 0 ELSE 1
  BY <1>1, <1>2, BitSum
<1>4. Xor(u, w) = [i \in Idx |-> Xor(u, w)[i]]
  BY DEF Xor
<1>5. \A i \in Idx : Xor(u, w)[i] \in {0, 1}
  BY <1>3
<1>6. Xor(u, w) \in [Idx -> {0, 1}]
  BY <1>4, <1>5
<1> QED
  BY <1>3, <1>6 DEF Word

LEMMA AndWord ==
    ASSUME NEW u \in Word, NEW w \in Word
    PROVE  /\ And(u, w) \in Word
           /\ \A i \in Idx : And(u, w)[i] = IF u[i] = 1 THEN w[i] ELSE 0
<1>1. \A i \in Idx : u[i] \in Bit /\ w[i] \in Bit
  BY DEF Word, Bit
<1>2. \A i \in Idx : And(u, w)[i] = u[i] * w[i]
  BY DEF And
<1>3. \A i \in Idx : And(u, w)[i] = IF u[i] = 1 THEN w[i] ELSE 0
  BY <1>1, <1>2, BitProduct
<1>4. And(u, w) = [i \in Idx |-> And(u, w)[i]]
  BY DEF And
<1>5. \A i \in Idx : And(u, w)[i] \in {0, 1}
  BY <1>1, <1>3 DEF Bit
<1>6. And(u, w) \in [Idx -> {0, 1}]
  BY <1>4, <1>5
<1> QED
  BY <1>3, <1>6 DEF Word

LEMMA ZeroWord == Zero \in Word /\ \A i \in Idx : Zero[i] = 0
BY DEF Zero, Word

LEMMA WordBits == \A u \in Word : \A i \in Idx : u[i] \in {0, 1}
BY DEF Word

\* Two words are one if they have the same bits.
LEMMA SameWord ==
    ASSUME NEW u \in Word, NEW w \in Word, \A i \in Idx : u[i] = w[i]
    PROVE  u = w
BY DEF Word

LEMMA XorLaws ==
    ASSUME NEW u \in Word, NEW w \in Word
    PROVE  /\ Xor(u, w) \in Word /\ Xor(u, w) = Xor(w, u)
           /\ Xor(u, u) = Zero /\ Xor(u, Zero) = u /\ Xor(Zero, u) = u
           /\ Xor(u, Xor(u, w)) = w /\ Xor(Xor(u, w), w) = u
<1>1. Xor(u, w) \in Word /\ Xor(w, u) \in Word /\ Xor(u, u) \in Word /\ Zero \in Word
  BY XorWord, ZeroWord
<1>2. Xor(u, Zero) \in Word /\ Xor(Zero, u) \in Word /\ Xor(u, Xor(u, w)) \in Word
      /\ Xor(Xor(u, w), w) \in Word
  BY <1>1, XorWord
<1>3. Xor(u, w) = Xor(w, u)
  BY <1>1, XorWord, SameWord
<1>4. Xor(u, u) = Zero
  BY <1>1, XorWord, SameWord, ZeroWord
<1>5. Xor(u, Zero) = u /\ Xor(Zero, u) = u
  <2>1. \A i \in Idx : Xor(u, Zero)[i] = u[i] /\ Xor(Zero, u)[i] = u[i]
    BY <1>1, XorWord, ZeroWord, WordBits
  <2> QED
    BY <1>2, <2>1, SameWord
<1>6. Xor(u, Xor(u, w)) = w
  <2>1. \A i \in Idx : Xor(u, Xor(u, w))[i] = w[i]
    BY <1>1, XorWord, WordBits
  <2> QED
    BY <1>2, <2>1, SameWord
<1>7. Xor(Xor(u, w), w) = u
  <2>1. \A i \in Idx : Xor(Xor(u, w), w)[i] = u[i]
    BY <1>1, XorWord, WordBits
  <2> QED
    BY <1>2, <2>1, SameWord
<1> QED
  BY <1>1, <1>3, <1>4, <1>5, <1>6, <1>7

\* Sums of sums may be taken in any order.
LEMMA XorSwap ==
    ASSUME NEW u \in Word, NEW w \in Word, NEW r \in Word, NEW s \in Word
    PROVE  /\ Xor(Xor(u, w), Xor(r, s)) = Xor(Xor(u, r), Xor(w, s))
           /\ Xor(Xor(u, w), r) = Xor(u, Xor(w, r))
<1>1. /\ Xor(u, w) \in Word /\ Xor(r, s) \in Word /\ Xor(u, r) \in Word
      /\ Xor(w, s) \in Word /\ Xor(w, r) \in Word
  BY XorWord
<1>2. /\ Xor(Xor(u, w), Xor(r, s)) \in Word /\ Xor(Xor(u, r), Xor(w, s)) \in Word
      /\ Xor(Xor(u, w), r) \in Word /\ Xor(u, Xor(w, r)) \in Word
  BY <1>1, XorWord
<1>3. \A i \in Idx : Xor(Xor(u, w), Xor(r, s))[i] = Xor(Xor(u, r), Xor(w, s))[i]
  BY <1>1, XorWord, WordBits
<1>4. \A i \in Idx : Xor(Xor(u, w), r)[i] = Xor(u, Xor(w, r))[i]
  BY <1>1, XorWord, WordBits
<1>5. Xor(Xor(u, w), Xor(r, s)) = Xor(Xor(u, r), Xor(w, s))
  BY <1>2, <1>3, SameWord
<1> QED
  BY <1>2, <1>4, <1>5, SameWord

(***************************************************************************)
(* The three domains.                                                      *)
(***************************************************************************)
Doms == {"bits", "arith", "fld"}

ModSum(m, u, w) == (u + w) % m
ModLess(m, u, w) == (u - w) % m

LEMMA ModLaws ==
    ASSUME NEW m \in Nat \ {0}, NEW u \in 0 .. m - 1, NEW w \in 0 .. m - 1
    PROVE  /\ ModSum(m, u, w) \in 0 .. m - 1 /\ ModLess(m, u, w) \in 0 .. m - 1
           /\ ModSum(m, u, w) = ModSum(m, w, u)
           /\ ModSum(m, u, ModLess(m, w, u)) = w
           /\ ModSum(m, u, 0) = u
<1>1. u \in Int /\ w \in Int /\ u + w \in Int /\ u - w \in Int /\ w - u \in Int
  OBVIOUS
<1>2. PICK n \in Int : n = (w - u) % m /\ Cong(m, n, w - u)
  <2>1. (w - u) % m \in Int /\ Cong(m, w - u, (w - u) % m)
    BY <1>1, Rest
  <2>2. PICK n \in Int : n = (w - u) % m
    BY <2>1
  <2> QED
    BY <1>1, <2>1, <2>2, CongBack
<1>3. Cong(m, u + n, w)
  <2>1. Cong(m, u, u)
    BY CongSame
  <2>2. Cong(m, u + n, u + (w - u))
    BY <1>1, <1>2, <2>1, CongSum
  <2>3. u + (w - u) = w
    OBVIOUS
  <2> QED
    BY <2>2, <2>3
<1>4. (u + n) % m = w
  <2>1. PICK q \in Int : q = u + n
    OBVIOUS
  <2>2. Cong(m, q, w) /\ w \in Int
    BY <1>3, <2>1
  <2>3. q % m = w
    BY <2>2, RestIs
  <2> QED
    BY <2>1, <2>3
<1>5. ModSum(m, u, w) \in 0 .. m - 1 /\ ModLess(m, u, w) \in 0 .. m - 1
  <2>1. (u + w) % m \in 0 .. m - 1
    BY <1>1, Rest
  <2>2. (u - w) % m \in 0 .. m - 1
    BY <1>1, Rest
  <2> QED
    BY <2>1, <2>2 DEF ModSum, ModLess
<1>6. u + w = w + u /\ u + 0 = u
  OBVIOUS
<1>7. u % m = u
  BY <1>1, CongSame, RestIs
<1>8. ModSum(m, u, w) = ModSum(m, w, u)
  BY <1>6 DEF ModSum
<1>9. ModSum(m, u, 0) = u
  BY <1>6, <1>7 DEF ModSum
<1>10. ModLess(m, w, u) = n /\ ModSum(m, u, n) = w
  BY <1>2, <1>4 DEF ModSum, ModLess
<1> QED
  BY <1>5, <1>8, <1>9, <1>10

LEMMA ModSwap ==
    ASSUME NEW m \in Nat \ {0}, NEW u \in 0 .. m - 1, NEW w \in 0 .. m - 1,
           NEW r \in 0 .. m - 1, NEW s \in 0 .. m - 1
    PROVE  /\ ModSum(m, ModSum(m, u, w), ModSum(m, r, s))
                 = ModSum(m, ModSum(m, u, r), ModSum(m, w, s))
           /\ ModSum(m, ModLess(m, u, w), ModLess(m, r, s))
                 = ModLess(m, ModSum(m, u, r), ModSum(m, w, s))
<1>1. /\ u + w \in Int /\ r + s \in Int /\ u + r \in Int /\ w + s \in Int
      /\ u - w \in Int /\ r - s \in Int
  OBVIOUS
<1>2. PICK k \in Int : k = (u + w) % m /\ Cong(m, k, u + w)
  <2>1. PICK k \in Int : k = (u + w) % m
    BY <1>1, Rest
  <2> QED
    BY <1>1, <2>1, Rest, CongBack
<1>3. PICK n \in Int : n = (r + s) % m /\ Cong(m, n, r + s)
  <2>1. PICK k2 \in Int : k2 = (r + s) % m
    BY <1>1, Rest
  <2> QED
    BY <1>1, <2>1, Rest, CongBack
<1>4. PICK i \in Int : i = (u + r) % m /\ Cong(m, i, u + r)
  <2>1. PICK k2 \in Int : k2 = (u + r) % m
    BY <1>1, Rest
  <2> QED
    BY <1>1, <2>1, Rest, CongBack
<1>5. PICK j \in Int : j = (w + s) % m /\ Cong(m, j, w + s)
  <2>1. PICK k2 \in Int : k2 = (w + s) % m
    BY <1>1, Rest
  <2> QED
    BY <1>1, <2>1, Rest, CongBack
<1>6. PICK d \in Int : d = (u - w) % m /\ Cong(m, d, u - w)
  <2>1. PICK k2 \in Int : k2 = (u - w) % m
    BY <1>1, Rest
  <2> QED
    BY <1>1, <2>1, Rest, CongBack
<1>7. PICK e \in Int : e = (r - s) % m /\ Cong(m, e, r - s)
  <2>1. PICK k2 \in Int : k2 = (r - s) % m
    BY <1>1, Rest
  <2> QED
    BY <1>1, <2>1, Rest, CongBack
<1>8. (k + n) % m = (i + j) % m
  <2>1. Cong(m, k + n, (u + w) + (r + s)) /\ Cong(m, i + j, (u + r) + (w + s))
    BY <1>1, <1>2, <1>3, <1>4, <1>5, CongSum
  <2>2. PICK q \in Int : q = (u + w) + (r + s) /\ q = (u + r) + (w + s)
    OBVIOUS
  <2>3. PICK b \in Int, f \in Int : b = k + n /\ f = i + j
    OBVIOUS
  <2>4. Cong(m, b, q) /\ Cong(m, f, q)
    BY <2>1, <2>2, <2>3
  <2>5. b % m = q % m /\ f % m = q % m
    BY <2>4, RestIs
  <2> QED
    BY <2>3, <2>5
<1>9. (d + e) % m = (i - j) % m
  <2>1. Cong(m, d + e, (u - w) + (r - s)) /\ Cong(m, i - j, (u + r) - (w + s))
    BY <1>1, <1>4, <1>5, <1>6, <1>7, CongSum
  <2>2. PICK q \in Int : q = (u - w) + (r - s) /\ q = (u + r) - (w + s)
    OBVIOUS
  <2>3. PICK b \in Int, f \in Int : b = d + e /\ f = i - j
    OBVIOUS
  <2>4. Cong(m, b, q) /\ Cong(m, f, q)
    BY <2>1, <2>2, <2>3
  <2>5. b % m = q % m /\ f % m = q % m
    BY <2>4, RestIs
  <2> QED
    BY <2>3, <2>5
<1>10. /\ ModSum(m, u, w) = k /\ ModSum(m, r, s) = n /\ ModSum(m, u, r) = i
       /\ ModSum(m, w, s) = j
  BY <1>2, <1>3, <1>4, <1>5 DEF ModSum
<1>11. ModLess(m, u, w) = d /\ ModLess(m, r, s) = e
  BY <1>6, <1>7 DEF ModLess
<1>12. ModSum(m, k, n) = ModSum(m, i, j)
  BY <1>8 DEF ModSum
<1>13. ModSum(m, d, e) = ModLess(m, i, j)
  BY <1>9 DEF ModSum, ModLess
<1> QED
  BY <1>10, <1>11, <1>12, <1>13

LEMMA Vals == Val("bits") = Word /\ Val("arith") = 0 .. M - 1 /\ Val("fld") = 0 .. P - 1
BY DEF Val

LEMMA Moduli == M \in Nat \ {0} /\ P \in Nat \ {0} /\ P < M /\ M <= 2 * P
BY WordAssumption, FieldAssumption

\* Adding a share to the difference to it gives the value back.
LEMMA Joining ==
    ASSUME NEW d \in Doms, NEW u \in Val(d), NEW w \in Val(d)
    PROVE  /\ Plus(d, u, w) \in Val(d) /\ Minus(d, u, w) \in Val(d)
           /\ Plus(d, u, w) = Plus(d, w, u)
           /\ Plus(d, u, Minus(d, w, u)) = w
           /\ None(d) \in Val(d) /\ Plus(d, u, None(d)) = u
<1>1. CASE d = "bits"
  <2>1. /\ Val(d) = Word /\ None(d) = Zero
        /\ \A i, j : Plus(d, i, j) = Xor(i, j) /\ Minus(d, i, j) = Xor(i, j)
    BY <1>1 DEF Val, Plus, Minus, None
  <2>2. u \in Word /\ w \in Word
    BY <2>1
  <2>3. Xor(u, Xor(w, u)) = w
    BY <2>2, XorLaws
  <2> QED
    BY <2>1, <2>2, <2>3, XorLaws, ZeroWord
<1>2. CASE d = "arith"
  <2>1. /\ Val(d) = 0 .. M - 1 /\ None(d) = 0
        /\ \A i, j : Plus(d, i, j) = ModSum(M, i, j) /\ Minus(d, i, j) = ModLess(M, i, j)
    BY <1>2 DEF Val, Plus, Minus, None, ModSum, ModLess
  <2>2. u \in 0 .. M - 1 /\ w \in 0 .. M - 1
    BY <2>1
  <2>3. 0 \in 0 .. M - 1 /\ M \in Nat \ {0}
    BY Moduli
  <2>4. /\ ModSum(M, u, w) \in 0 .. M - 1 /\ ModLess(M, u, w) \in 0 .. M - 1
        /\ ModSum(M, u, w) = ModSum(M, w, u)
        /\ ModSum(M, u, ModLess(M, w, u)) = w
        /\ ModSum(M, u, 0) = u
    BY <2>2, <2>3, ModLaws
  <2> QED
    BY ONLY <2>1, <2>3, <2>4
<1>3. CASE d = "fld"
  <2>1. /\ Val(d) = 0 .. P - 1 /\ None(d) = 0
        /\ \A i, j : Plus(d, i, j) = ModSum(P, i, j) /\ Minus(d, i, j) = ModLess(P, i, j)
    BY <1>3 DEF Val, Plus, Minus, None, ModSum, ModLess
  <2>2. u \in 0 .. P - 1 /\ w \in 0 .. P - 1
    BY <2>1
  <2>3. 0 \in 0 .. P - 1 /\ P \in Nat \ {0}
    BY Moduli
  <2>4. /\ ModSum(P, u, w) \in 0 .. P - 1 /\ ModLess(P, u, w) \in 0 .. P - 1
        /\ ModSum(P, u, w) = ModSum(P, w, u)
        /\ ModSum(P, u, ModLess(P, w, u)) = w
        /\ ModSum(P, u, 0) = u
    BY <2>2, <2>3, ModLaws
  <2> QED
    BY ONLY <2>1, <2>3, <2>4
<1> QED
  BY <1>1, <1>2, <1>3 DEF Doms

\* The sum of two shared values is shared by the sums of the shares, and so
\* is the difference.
LEMMA JoinSums ==
    ASSUME NEW d \in Doms, NEW u \in Val(d), NEW w \in Val(d), NEW r \in Val(d), NEW s \in Val(d)
    PROVE  /\ Plus(d, Plus(d, u, w), Plus(d, r, s)) = Plus(d, Plus(d, u, r), Plus(d, w, s))
           /\ Plus(d, Minus(d, u, w), Minus(d, r, s)) = Minus(d, Plus(d, u, r), Plus(d, w, s))
<1>1. CASE d = "bits"
  <2>1. /\ Val(d) = Word
        /\ \A i, j : Plus(d, i, j) = Xor(i, j) /\ Minus(d, i, j) = Xor(i, j)
    BY <1>1 DEF Val, Plus, Minus
  <2>2. u \in Word /\ w \in Word /\ r \in Word /\ s \in Word
    BY <2>1
  <2>3. Xor(Xor(u, w), Xor(r, s)) = Xor(Xor(u, r), Xor(w, s))
    BY <2>2, XorSwap
  <2> QED
    BY <2>1, <2>3
<1>2. CASE d = "arith"
  <2>1. /\ Val(d) = 0 .. M - 1
        /\ \A i, j : Plus(d, i, j) = ModSum(M, i, j) /\ Minus(d, i, j) = ModLess(M, i, j)
    BY <1>2 DEF Val, Plus, Minus, ModSum, ModLess
  <2>2. u \in 0 .. M - 1 /\ w \in 0 .. M - 1 /\ r \in 0 .. M - 1 /\ s \in 0 .. M - 1
    BY <2>1
  <2>3. /\ ModSum(M, ModSum(M, u, w), ModSum(M, r, s)) = ModSum(M, ModSum(M, u, r), ModSum(M, w, s))
        /\ ModSum(M, ModLess(M, u, w), ModLess(M, r, s)) = ModLess(M, ModSum(M, u, r), ModSum(M, w, s))
    BY <2>2, ModSwap, Moduli
  <2> QED
    BY <2>1, <2>3
<1>3. CASE d = "fld"
  <2>1. /\ Val(d) = 0 .. P - 1
        /\ \A i, j : Plus(d, i, j) = ModSum(P, i, j) /\ Minus(d, i, j) = ModLess(P, i, j)
    BY <1>3 DEF Val, Plus, Minus, ModSum, ModLess
  <2>2. u \in 0 .. P - 1 /\ w \in 0 .. P - 1 /\ r \in 0 .. P - 1 /\ s \in 0 .. P - 1
    BY <2>1
  <2>3. /\ ModSum(P, ModSum(P, u, w), ModSum(P, r, s)) = ModSum(P, ModSum(P, u, r), ModSum(P, w, s))
        /\ ModSum(P, ModLess(P, u, w), ModLess(P, r, s)) = ModLess(P, ModSum(P, u, r), ModSum(P, w, s))
    BY <2>2, ModSwap, Moduli
  <2> QED
    BY <2>1, <2>3
<1> QED
  BY <1>1, <1>2, <1>3 DEF Doms

(***************************************************************************)
(* Objects.                                                                *)
(***************************************************************************)
\* The annotations t of the two parties are one, and note w if anything.
Notes(t, w) == t[0] = t[1] /\ t[0] \subseteq {w}
Full(t) == t[0] # {} /\ t[1] # {}

\* The object is what it is meant to be: what the invariant says of a register.
Meant(o) ==
    /\ o = Obj(o.dom, o.v, o.t, o.x)
    /\ o.dom \in Doms /\ o.v \in [Party -> Val(o.dom)] /\ o.x \in Val(o.dom)
    /\ Join(o) = o.x
    /\ Notes(o.t, o.x)

LEMMA LacksFull == \A o : Lacks(o) <=> ~ Full(o.t)
BY DEF Lacks, Full, Party

LEMMA MeantShares ==
    ASSUME NEW o, Meant(o)
    PROVE  /\ o.dom \in Doms /\ o.v[0] \in Val(o.dom) /\ o.v[1] \in Val(o.dom)
           /\ o.x \in Val(o.dom) /\ Plus(o.dom, o.v[0], o.v[1]) = o.x
           /\ Notes(o.t, o.x)
BY DEF Meant, Join, Party

LEMMA MakeMeant ==
    ASSUME NEW d \in Doms, NEW v, NEW t, NEW w \in Val(d),
           v \in [Party -> Val(d)], Plus(d, v[0], v[1]) = w, Notes(t, w)
    PROVE  Meant(Obj(d, v, t, w)) /\ Obj(d, v, t, w).t = t
<1> DEFINE o == Obj(d, v, t, w)
<1>1. o.dom = d /\ o.v = v /\ o.t = t /\ o.x = w
  BY DEF Obj
<1> HIDE DEF o
<1>2. Join(o) = w
  BY <1>1 DEF Join
<1>3. o = Obj(o.dom, o.v, o.t, o.x)
  BY <1>1 DEF o
<1>4. Meant(o)
  BY <1>1, <1>2, <1>3 DEF Meant
<1> QED
  BY <1>1, <1>4 DEF o

LEMMA BareNotes == \A w : Notes(Bare, w)
BY DEF Notes, Bare, Party

LEMMA FullNotes ==
    ASSUME NEW t, NEW w, t[0] = {w}, t[1] = {w}
    PROVE  Notes(t, w) /\ Full(t) /\ \A d : Noted(d, t) = w
BY DEF Notes, Full, Noted

LEMMA NotesFull ==
    ASSUME NEW t, NEW w, Notes(t, w), Full(t)
    PROVE  t[0] = {w} /\ t[1] = {w}
BY DEF Notes, Full

LEMMA MarkedNotes ==
    \A w : /\ Notes(Marked(w), w)
           /\ mode = "sim" => Full(Marked(w)) /\ \A p \in Party : Marked(w)[p] = {w}
BY DEF Notes, Marked, Party, Full

LEMMA SharingFields ==
    ASSUME NEW d, NEW s, NEW t, NEW w, NEW z \in Sharing(d, s, t, w)
    PROVE  z.dom = d /\ z.x = w /\ z.t = t
<1>1. PICK b \in Val(d) :
        z = Obj(d, [p \in Party |-> IF p = 0 THEN b ELSE Minus(d, s, b)], t, w)
  BY DEF Sharing
<1> QED
  BY <1>1 DEF Obj

\* Any sharing of the value an object is meant to have is right.
LEMMA SharingMeant ==
    ASSUME NEW d \in Doms, NEW w \in Val(d), NEW t, Notes(t, w), NEW z \in Sharing(d, w, t, w)
    PROVE  Meant(z) /\ z.t = t
<1>1. PICK s \in Val(d) :
        z = Obj(d, [p \in Party |-> IF p = 0 THEN s ELSE Minus(d, w, s)], t, w)
  BY DEF Sharing
<1> DEFINE v == [p \in Party |-> IF p = 0 THEN s ELSE Minus(d, w, s)]
<1>2. Minus(d, w, s) \in Val(d) /\ Plus(d, s, Minus(d, w, s)) = w
  BY Joining
<1>3. v[0] = s /\ v[1] = Minus(d, w, s)
  BY DEF Party
<1>4. v \in [Party -> Val(d)]
  BY <1>2
<1> HIDE DEF v
<1>5. Plus(d, v[0], v[1]) = w
  BY <1>2, <1>3
<1>6. Meant(Obj(d, v, t, w)) /\ Obj(d, v, t, w).t = t
  BY <1>4, <1>5, MakeMeant
<1>7. z = Obj(d, v, t, w)
  BY <1>1 DEF v
<1> QED
  BY <1>6, <1>7

\* So is a circuit: in mode "sim" it goes by the annotations, which are
\* there, in mode "ot" by the shares.
LEMMA CircuitMeant ==
    ASSUME NEW d \in Doms, NEW w \in Val(d), NEW t, NEW z,
           mode = "sim" => t[0] = {w} /\ t[1] = {w},
           z \in IF mode = "sim" THEN Sharing(d, Noted(d, t), t, w) ELSE Sharing(d, w, Bare, w)
    PROVE  Meant(z) /\ (mode = "sim" => Full(z.t))
<1>1. CASE mode = "sim"
  <2>1. Notes(t, w) /\ Full(t) /\ Noted(d, t) = w
    BY <1>1, FullNotes
  <2>2. z \in Sharing(d, w, t, w)
    BY <1>1, <2>1
  <2> QED
    BY <2>1, <2>2, SharingMeant
<1>2. CASE mode # "sim"
  <2>1. z \in Sharing(d, w, Bare, w)
    BY <1>2
  <2> QED
    BY <1>2, <2>1, SharingMeant, BareNotes
<1> QED
  BY <1>1, <1>2

(***************************************************************************)
(* Operations on bits.                                                     *)
(***************************************************************************)
\* The shares of an object of bits.
LEMMA BitShares ==
    ASSUME NEW o, Meant(o), o.dom = "bits"
    PROVE  /\ o.v[0] \in Word /\ o.v[1] \in Word /\ o.x \in Word
           /\ Xor(o.v[0], o.v[1]) = o.x /\ Notes(o.t, o.x) /\ Join(o) = o.x
<1>1. Val("bits") = Word /\ \A i, j : Plus("bits", i, j) = Xor(i, j)
  BY DEF Val, Plus
<1> QED
  BY <1>1, MeantShares DEF Meant

LEMMA BitsMeant ==
    ASSUME NEW v, NEW t, NEW w \in Word, v \in [Party -> Word], Xor(v[0], v[1]) = w, Notes(t, w)
    PROVE  /\ Meant(Obj("bits", v, t, w)) /\ Obj("bits", v, t, w).t = t
           /\ Obj("bits", v, t, w).dom = "bits" /\ Obj("bits", v, t, w).x = w
<1>1. Val("bits") = Word /\ \A i, j : Plus("bits", i, j) = Xor(i, j)
  BY DEF Val, Plus
<1>2. "bits" \in Doms
  BY DEF Doms
<1>3. w \in Val("bits") /\ v \in [Party -> Val("bits")] /\ Plus("bits", v[0], v[1]) = w
  BY <1>1
<1>4. Meant(Obj("bits", v, t, w)) /\ Obj("bits", v, t, w).t = t
  BY <1>2, <1>3, MakeMeant
<1> QED
  BY <1>4 DEF Obj

LEMMA XorMeant ==
    ASSUME NEW o, NEW k, Meant(o), Meant(k), o.dom = "bits", k.dom = "bits"
    PROVE  /\ Meant(XorOf(o, k)) /\ XorOf(o, k).dom = "bits" /\ XorOf(o, k).x = Xor(o.x, k.x)
           /\ Full(o.t) /\ Full(k.t) => Full(XorOf(o, k).t)
<1> DEFINE v == [p \in Party |-> Xor(o.v[p], k.v[p])]
           t == Lift2(Xor, o, k)
<1>1. /\ o.v[0] \in Word /\ o.v[1] \in Word /\ o.x \in Word /\ Xor(o.v[0], o.v[1]) = o.x
      /\ k.v[0] \in Word /\ k.v[1] \in Word /\ k.x \in Word /\ Xor(k.v[0], k.v[1]) = k.x
      /\ Notes(o.t, o.x) /\ Notes(k.t, k.x)
  BY BitShares
<1>2. v[0] = Xor(o.v[0], k.v[0]) /\ v[1] = Xor(o.v[1], k.v[1])
  BY DEF Party
<1>3. v \in [Party -> Word]
  BY <1>1, XorWord DEF Party
<1>4. Xor(v[0], v[1]) = Xor(o.x, k.x)
  BY <1>1, <1>2, XorSwap
<1>5. /\ t[0] = {Xor(u, w) : u \in o.t[0], w \in k.t[0]}
      /\ t[1] = {Xor(u, w) : u \in o.t[1], w \in k.t[1]}
  BY DEF Lift2, Party
<1>6. Notes(t, Xor(o.x, k.x)) /\ (Full(o.t) /\ Full(k.t) => Full(t))
  BY <1>1, <1>5 DEF Notes, Full
<1>7. Xor(o.x, k.x) \in Word
  BY <1>1, XorWord
<1>8. XorOf(o, k) = Obj("bits", v, t, Xor(o.x, k.x))
  BY DEF XorOf
<1> HIDE DEF v, t
<1> QED
  BY <1>3, <1>4, <1>6, <1>7, <1>8, BitsMeant

\* Picking bits by their place commutes with sums.
LEMMA PickXor ==
    ASSUME NEW m, NEW u \in Word, NEW w \in Word
    PROVE  Pick(m, u) \in Word /\ Pick(m, Xor(u, w)) = Xor(Pick(m, u), Pick(m, w))
<1>1. ASSUME NEW r \in Word
      PROVE  Pick(m, r) \in Word /\ \A i \in Idx : Pick(m, r)[i] = IF m[i] \in Idx THEN r[m[i]] ELSE 0
  BY WordBits DEF Pick, Word
<1>2. Xor(u, w) \in Word /\ Pick(m, u) \in Word /\ Pick(m, w) \in Word
  BY <1>1, XorWord
<1>3. Pick(m, Xor(u, w)) \in Word /\ Xor(Pick(m, u), Pick(m, w)) \in Word
  BY <1>1, <1>2, XorWord
<1>4. \A i \in Idx : Pick(m, Xor(u, w))[i] = Xor(Pick(m, u), Pick(m, w))[i]
  BY <1>1, <1>2, XorWord
<1> QED
  BY <1>2, <1>3, <1>4, SameWord

LEMMA PickMeant ==
    ASSUME NEW m, NEW o, Meant(o), o.dom = "bits"
    PROVE  /\ Meant(PickOf(m, o)) /\ PickOf(m, o).dom = "bits" /\ PickOf(m, o).x = Pick(m, o.x)
           /\ Full(o.t) => Full(PickOf(m, o).t)
<1> DEFINE v == [p \in Party |-> Pick(m, o.v[p])]
           t == Lift(LAMBDA u : Pick(m, u), o)
<1>1. /\ o.v[0] \in Word /\ o.v[1] \in Word /\ o.x \in Word /\ Xor(o.v[0], o.v[1]) = o.x
      /\ Notes(o.t, o.x)
  BY BitShares
<1>2. v[0] = Pick(m, o.v[0]) /\ v[1] = Pick(m, o.v[1])
  BY DEF Party
<1>3. v \in [Party -> Word]
  BY <1>1, PickXor DEF Party
<1>4. Xor(v[0], v[1]) = Pick(m, o.x) /\ Pick(m, o.x) \in Word
  BY <1>1, <1>2, PickXor
<1>5. /\ t[0] = {Pick(m, u) : u \in o.t[0]}
      /\ t[1] = {Pick(m, u) : u \in o.t[1]}
  BY DEF Lift, Party
<1>6. Notes(t, Pick(m, o.x)) /\ (Full(o.t) => Full(t))
  BY <1>1, <1>5 DEF Notes, Full
<1>7. PickOf(m, o) = Obj("bits", v, t, Pick(m, o.x))
  BY DEF PickOf
<1> HIDE DEF v, t
<1> QED
  BY <1>3, <1>4, <1>6, <1>7, BitsMeant

\* The product of the sums is the sum of the four products: the masks r go.
LEMMA AndMasked ==
    ASSUME NEW u \in Word, NEW w \in Word, NEW b \in Word, NEW d \in Word,
           NEW r \in Word, NEW s \in Word
    PROVE  /\ Xor(And(u, b), Xor(r, Xor(s, And(u, d)))) \in Word
           /\ Xor(Xor(And(u, b), Xor(r, Xor(s, And(u, d)))),
                  Xor(And(w, d), Xor(s, Xor(r, And(w, b))))) = And(Xor(u, w), Xor(b, d))
<1>1. And(u, b) \in Word /\ And(u, d) \in Word /\ And(w, d) \in Word /\ And(w, b) \in Word
  BY AndWord
<1>2. Xor(s, And(u, d)) \in Word /\ Xor(r, And(w, b)) \in Word /\ Xor(u, w) \in Word
      /\ Xor(b, d) \in Word
  BY <1>1, XorWord
<1>3. PICK f \in Word : f = Xor(r, Xor(s, And(u, d)))
  BY <1>2, XorWord
<1>4. PICK h \in Word : h = Xor(s, Xor(r, And(w, b)))
  BY <1>2, XorWord
<1>5. PICK m \in Word : m = Xor(And(u, b), f)
  BY <1>1, XorWord
<1>6. PICK n \in Word : n = Xor(And(w, d), h)
  BY <1>1, XorWord
<1>7. Xor(m, n) \in Word /\ And(Xor(u, w), Xor(b, d)) \in Word
  BY <1>2, XorWord, AndWord
<1>8. ASSUME NEW i \in Idx PROVE Xor(m, n)[i] = And(Xor(u, w), Xor(b, d))[i]
  <2>1. /\ f[i] = IF r[i] = Xor(s, And(u, d))[i] THEN 0 ELSE 1
        /\ Xor(s, And(u, d))[i] = IF s[i] = And(u, d)[i] THEN 0 ELSE 1
        /\ And(u, d)[i] = IF u[i] = 1 THEN d[i] ELSE 0
    BY <1>1, <1>2, <1>3, XorWord, AndWord
  <2>2. /\ h[i] = IF s[i] = Xor(r, And(w, b))[i] THEN 0 ELSE 1
        /\ Xor(r, And(w, b))[i] = IF r[i] = And(w, b)[i] THEN 0 ELSE 1
        /\ And(w, b)[i] = IF w[i] = 1 THEN b[i] ELSE 0
    BY <1>1, <1>2, <1>4, XorWord, AndWord
  <2>3. /\ m[i] = IF And(u, b)[i] = f[i] THEN 0 ELSE 1
        /\ And(u, b)[i] = IF u[i] = 1 THEN b[i] ELSE 0
        /\ n[i] = IF And(w, d)[i] = h[i] THEN 0 ELSE 1
        /\ And(w, d)[i] = IF w[i] = 1 THEN d[i] ELSE 0
        /\ Xor(m, n)[i] = IF m[i] = n[i] THEN 0 ELSE 1
    BY <1>1, <1>5, <1>6, XorWord, AndWord
  <2>4. /\ And(Xor(u, w), Xor(b, d))[i] = IF Xor(u, w)[i] = 1 THEN Xor(b, d)[i] ELSE 0
        /\ Xor(u, w)[i] = IF u[i] = w[i] THEN 0 ELSE 1
        /\ Xor(b, d)[i] = IF b[i] = d[i] THEN 0 ELSE 1
    BY <1>2, XorWord, AndWord
  <2>5. /\ u[i] \in {0, 1} /\ w[i] \in {0, 1} /\ b[i] \in {0, 1} /\ d[i] \in {0, 1}
        /\ r[i] \in {0, 1} /\ s[i] \in {0, 1}
    BY WordBits
  <2> QED
    BY ONLY <2>1, <2>2, <2>3, <2>4, <2>5
<1>9. Xor(m, n) = And(Xor(u, w), Xor(b, d))
  BY <1>7, <1>8, SameWord
<1> QED
  BY <1>3, <1>4, <1>5, <1>6, <1>9

LEMMA AndOtMeant ==
    ASSUME NEW o, NEW k, Meant(o), Meant(k), o.dom = "bits", k.dom = "bits",
           NEW z \in AndOt(o, k)
    PROVE  Meant(z) /\ z.dom = "bits" /\ z.x = And(o.x, k.x)
<1>1. PICK r \in [Party -> Word] :
        z = Obj("bits", [p \in Party |-> Xor(And(o.v[p], k.v[p]),
                            Xor(r[p], Xor(r[1 - p], And(o.v[p], k.v[1 - p]))))],
                Bare, And(o.x, k.x))
  BY DEF AndOt
<1> DEFINE v == [p \in Party |-> Xor(And(o.v[p], k.v[p]),
                            Xor(r[p], Xor(r[1 - p], And(o.v[p], k.v[1 - p]))))]
<1>2. /\ o.v[0] \in Word /\ o.v[1] \in Word /\ o.x \in Word /\ Xor(o.v[0], o.v[1]) = o.x
      /\ k.v[0] \in Word /\ k.v[1] \in Word /\ k.x \in Word /\ Xor(k.v[0], k.v[1]) = k.x
      /\ r[0] \in Word /\ r[1] \in Word
  BY BitShares DEF Party
<1>3. /\ v[0] = Xor(And(o.v[0], k.v[0]), Xor(r[0], Xor(r[1], And(o.v[0], k.v[1]))))
      /\ v[1] = Xor(And(o.v[1], k.v[1]), Xor(r[1], Xor(r[0], And(o.v[1], k.v[0]))))
  BY DEF Party
<1>4. v[0] \in Word /\ v[1] \in Word /\ Xor(v[0], v[1]) = And(o.x, k.x)
  <2>1. PICK u \in Word, w \in Word, b \in Word, d \in Word :
          u = o.v[0] /\ w = o.v[1] /\ b = k.v[0] /\ d = k.v[1]
    BY <1>2
  <2>2. PICK m \in Word, n \in Word : m = r[0] /\ n = r[1]
    BY <1>2
  <2>3. /\ Xor(And(u, b), Xor(m, Xor(n, And(u, d)))) \in Word
        /\ Xor(Xor(And(u, b), Xor(m, Xor(n, And(u, d)))),
               Xor(And(w, d), Xor(n, Xor(m, And(w, b))))) = And(Xor(u, w), Xor(b, d))
    BY AndMasked
  <2>4. Xor(And(w, d), Xor(n, Xor(m, And(w, b)))) \in Word
    BY AndMasked
  <2>5. /\ v[0] = Xor(And(u, b), Xor(m, Xor(n, And(u, d))))
        /\ v[1] = Xor(And(w, d), Xor(n, Xor(m, And(w, b))))
    BY ONLY <1>3, <2>1, <2>2
  <2>6. And(o.x, k.x) = And(Xor(u, w), Xor(b, d))
    BY ONLY <1>2, <2>1
  <2> HIDE DEF v
  <2> QED
    BY ONLY <2>3, <2>4, <2>5, <2>6
<1>5. v \in [Party -> Word]
  <2>1. v = [p \in Party |-> v[p]]
    OBVIOUS
  <2> HIDE DEF v
  <2> QED
    BY <1>4, <2>1 DEF Party
<1>6. And(o.x, k.x) \in Word
  BY <1>2, AndWord
<1>7. z = Obj("bits", v, Bare, And(o.x, k.x))
  BY <1>1
<1> HIDE DEF v
<1> QED
  BY <1>4, <1>5, <1>6, <1>7, BareNotes, BitsMeant

LEMMA AndMeant ==
    ASSUME NEW o, NEW k, Meant(o), Meant(k), o.dom = "bits", k.dom = "bits",
           ~ Unannotated(o, k), NEW z \in AndOf(o, k)
    PROVE  Meant(z) /\ z.dom = "bits" /\ z.x = And(o.x, k.x) /\ (mode = "sim" => Full(z.t))
<1>1. CASE mode = "sim"
  <2> DEFINE t == Lift2(And, o, k)
  <2>1. Notes(o.t, o.x) /\ Notes(k.t, k.x) /\ o.x \in Word /\ k.x \in Word
    BY BitShares
  <2>2. Full(o.t) /\ Full(k.t)
    BY <1>1, LacksFull DEF Unannotated
  <2>3. o.t[0] = {o.x} /\ o.t[1] = {o.x} /\ k.t[0] = {k.x} /\ k.t[1] = {k.x}
    BY <2>1, <2>2, NotesFull
  <2>4. /\ t[0] = {And(u, w) : u \in o.t[0], w \in k.t[0]}
        /\ t[1] = {And(u, w) : u \in o.t[1], w \in k.t[1]}
    BY DEF Lift2, Party
  <2>5. t[0] = {And(o.x, k.x)} /\ t[1] = {And(o.x, k.x)}
    BY <2>3, <2>4
  <2>6. z \in Sharing("bits", Noted("bits", t), t, And(o.x, k.x))
    BY <1>1 DEF AndOf, Circuit
  <2> HIDE DEF t
  <2>7. z.dom = "bits" /\ z.x = And(o.x, k.x)
    BY <2>6, SharingFields
  <2>8. And(o.x, k.x) \in Val("bits") /\ "bits" \in Doms
    BY <2>1, AndWord, Vals DEF Doms
  <2> QED
    BY <1>1, <2>5, <2>6, <2>7, <2>8, CircuitMeant
<1>2. CASE mode # "sim"
  <2>1. z \in AndOt(o, k)
    BY <1>2 DEF AndOf
  <2> QED
    BY <1>2, <2>1, AndOtMeant
<1> QED
  BY <1>1, <1>2

LEMMA NotXor ==
    ASSUME NEW u \in Word, NEW w \in Word
    PROVE  Not(u) \in Word /\ Xor(Not(u), w) = Not(Xor(u, w))
<1>1. ASSUME NEW r \in Word
      PROVE  Not(r) \in Word /\ \A i \in Idx : Not(r)[i] = IF r[i] = 0 THEN 1 ELSE 0
  <2>1. \A i \in Idx : r[i] = 0 \/ r[i] = 1
    BY WordBits
  <2>2. \A i \in Idx : Not(r)[i] = 1 - r[i]
    BY DEF Not
  <2>3. \A i \in Idx : Not(r)[i] = IF r[i] = 0 THEN 1 ELSE 0
    BY <2>1, <2>2
  <2>4. Not(r) = [i \in Idx |-> Not(r)[i]]
    BY DEF Not
  <2>5. \A i \in Idx : Not(r)[i] \in {0, 1}
    BY <2>3
  <2> QED
    BY <2>3, <2>4, <2>5 DEF Word
<1>2. Xor(u, w) \in Word /\ Not(u) \in Word
  BY <1>1, XorWord
<1>3. Xor(Not(u), w) \in Word /\ Not(Xor(u, w)) \in Word
  BY <1>1, <1>2, XorWord
<1>4. \A i \in Idx : Xor(Not(u), w)[i] = Not(Xor(u, w))[i]
  BY <1>1, <1>2, XorWord, WordBits
<1> QED
  BY <1>2, <1>3, <1>4, SameWord

\* Complementing the share of side 0 complements the value.
LEMMA NotMeant ==
    ASSUME NEW o, Meant(o), o.dom = "bits"
    PROVE  LET z == [o EXCEPT !.v[0] = Not(@), !.t = Lift(Not, o), !.x = Not(@)]
           IN  Meant(z) /\ (Full(o.t) => Full(z.t))
<1> DEFINE v == [o.v EXCEPT ![0] = Not(@)]
           t == Lift(Not, o)
           z == [o EXCEPT !.v[0] = Not(@), !.t = Lift(Not, o), !.x = Not(@)]
<1>1. /\ o.v[0] \in Word /\ o.v[1] \in Word /\ o.x \in Word /\ Xor(o.v[0], o.v[1]) = o.x
      /\ Notes(o.t, o.x) /\ o.v \in [Party -> Word] /\ o = Obj("bits", o.v, o.t, o.x)
  BY BitShares, Vals DEF Meant
<1>2. v[0] = Not(o.v[0]) /\ v[1] = o.v[1] /\ v \in [Party -> Word]
  BY <1>1, NotXor DEF Party
<1>3. Xor(v[0], v[1]) = Not(o.x) /\ Not(o.x) \in Word
  BY <1>1, <1>2, NotXor
<1>4. t[0] = {Not(u) : u \in o.t[0]} /\ t[1] = {Not(u) : u \in o.t[1]}
  BY DEF Lift, Party
<1>5. Notes(t, Not(o.x)) /\ (Full(o.t) => Full(t))
  BY <1>1, <1>4 DEF Notes, Full
<1>6. z = Obj("bits", v, t, Not(o.x))
  <2>1. PICK b, r, s : o = [dom |-> "bits", v |-> b, t |-> r, x |-> s]
    BY <1>1 DEF Obj
  <2>2. PICK n : n = Lift(Not, o)
    OBVIOUS
  <2>3. PICK h, m : h = [b EXCEPT ![0] = Not(@)] /\ m = Not(s)
    OBVIOUS
  <2>4. [o EXCEPT !.v[0] = Not(@), !.t = n, !.x = Not(@)]
          \in [dom : {"bits"}, v : {h}, t : {n}, x : {m}]
    BY ONLY <2>1, <2>3
  <2>5. PICK q : q = [o EXCEPT !.v[0] = Not(@), !.t = n, !.x = Not(@)]
    OBVIOUS
  <2>6. q \in [dom : {"bits"}, v : {h}, t : {n}, x : {m}]
    BY ONLY <2>4, <2>5
  <2>7. q = [dom |-> "bits", v |-> h, t |-> n, x |-> m]
    BY ONLY <2>6
  <2>8. b = o.v /\ s = o.x
    BY <2>1
  <2>9. q = Obj("bits", [o.v EXCEPT ![0] = Not(@)], n, Not(o.x))
    BY <2>3, <2>7, <2>8 DEF Obj
  <2> QED
    BY <2>2, <2>5, <2>9
<1>7. Meant(Obj("bits", v, t, Not(o.x))) /\ Obj("bits", v, t, Not(o.x)).t = t
  <2> HIDE DEF v, t
  <2> QED
    BY <1>2, <1>3, <1>5, BitsMeant
<1>8. Meant(z) /\ z.t = t
  <2> HIDE DEF v, t, z
  <2> QED
    BY <1>6, <1>7
<1>9. Full(o.t) => Full(z.t)
  <2> HIDE DEF t, z
  <2> QED
    BY <1>5, <1>8
<1> QED
  BY <1>8, <1>9

\* So do the words put together of two.
Behind(n, hi, lo) == [b \in Idx |-> IF b < n THEN lo[b] ELSE hi[b - n]]

LEMMA BehindXor ==
    ASSUME NEW n \in 1 .. W - 1, NEW u \in Word, NEW w \in Word, NEW r \in Word, NEW s \in Word
    PROVE  /\ Behind(n, u, w) \in Word
           /\ Xor(Behind(n, u, w), Behind(n, r, s)) = Behind(n, Xor(u, r), Xor(w, s))
<1>1. \A i \in Idx : ~ i < n => i - n \in Idx
  BY WordAssumption DEF Idx
<1>2. ASSUME NEW b \in Word, NEW d \in Word
      PROVE  /\ Behind(n, b, d) \in Word
             /\ \A i \in Idx : Behind(n, b, d)[i] = IF i < n THEN d[i] ELSE b[i - n]
  BY <1>1, WordBits DEF Behind, Word
<1>3. Xor(u, r) \in Word /\ Xor(w, s) \in Word /\ Behind(n, u, w) \in Word
      /\ Behind(n, r, s) \in Word
  BY <1>2, XorWord
<1>4. /\ Xor(Behind(n, u, w), Behind(n, r, s)) \in Word
      /\ Behind(n, Xor(u, r), Xor(w, s)) \in Word
  BY <1>2, <1>3, XorWord
<1>5. ASSUME NEW i \in Idx
      PROVE  Xor(Behind(n, u, w), Behind(n, r, s))[i] = Behind(n, Xor(u, r), Xor(w, s))[i]
  <2>1. Xor(Behind(n, u, w), Behind(n, r, s))[i]
          = IF Behind(n, u, w)[i] = Behind(n, r, s)[i] THEN 0 ELSE 1
    BY <1>3, XorWord
  <2>2. CASE i < n
    <3>1. Behind(n, u, w)[i] = w[i] /\ Behind(n, r, s)[i] = s[i]
          /\ Behind(n, Xor(u, r), Xor(w, s))[i] = Xor(w, s)[i]
      BY <1>2, <1>3, <2>2
    <3> QED
      BY <2>1, <3>1, XorWord
  <2>3. CASE ~ i < n
    <3>1. Behind(n, u, w)[i] = u[i - n] /\ Behind(n, r, s)[i] = r[i - n]
          /\ Behind(n, Xor(u, r), Xor(w, s))[i] = Xor(u, r)[i - n]
      BY <1>2, <1>3, <2>3
    <3>2. PICK m \in Idx : m = i - n
      BY <1>1, <2>3
    <3> QED
      BY <2>1, <3>1, <3>2, XorWord
  <2> QED
    BY <2>2, <2>3
<1> QED
  BY <1>3, <1>4, <1>5, SameWord

LEMMA ConcatMeant ==
    ASSUME NEW n \in 1 .. W - 1, NEW o, NEW k, Meant(o), Meant(k), o.dom = "bits", k.dom = "bits"
    PROVE  LET f(hi, lo) == [b \in Idx |-> IF b < n THEN lo[b] ELSE hi[b - n]]
               z == Obj("bits", [p \in Party |-> f(o.v[p], k.v[p])], Lift2(f, o, k), f(o.x, k.x))
           IN  Meant(z) /\ (Full(o.t) /\ Full(k.t) => Full(z.t))
<1> DEFINE v == [p \in Party |-> Behind(n, o.v[p], k.v[p])]
           f(hi, lo) == [b \in Idx |-> IF b < n THEN lo[b] ELSE hi[b - n]]
           t == Lift2(f, o, k)
           z == Obj("bits", [p \in Party |-> f(o.v[p], k.v[p])], Lift2(f, o, k), f(o.x, k.x))
<1>1. /\ o.v[0] \in Word /\ o.v[1] \in Word /\ o.x \in Word /\ Xor(o.v[0], o.v[1]) = o.x
      /\ k.v[0] \in Word /\ k.v[1] \in Word /\ k.x \in Word /\ Xor(k.v[0], k.v[1]) = k.x
      /\ Notes(o.t, o.x) /\ Notes(k.t, k.x)
  BY BitShares
<1>2. v[0] = Behind(n, o.v[0], k.v[0]) /\ v[1] = Behind(n, o.v[1], k.v[1])
  BY DEF Party
<1>3. v \in [Party -> Word]
  BY <1>1, BehindXor DEF Party
<1>4. Xor(v[0], v[1]) = Behind(n, o.x, k.x)
  <2>1. PICK u \in Word, w \in Word, r \in Word, s \in Word :
          u = o.v[0] /\ w = k.v[0] /\ r = o.v[1] /\ s = k.v[1]
    BY <1>1
  <2>2. Xor(Behind(n, u, w), Behind(n, r, s)) = Behind(n, Xor(u, r), Xor(w, s))
    BY BehindXor
  <2> HIDE DEF v
  <2> QED
    BY ONLY <1>1, <1>2, <2>1, <2>2
<1>5. /\ t[0] = {Behind(n, u, w) : u \in o.t[0], w \in k.t[0]}
      /\ t[1] = {Behind(n, u, w) : u \in o.t[1], w \in k.t[1]}
  BY DEF Lift2, Party, Behind
<1>6. Notes(t, Behind(n, o.x, k.x)) /\ (Full(o.t) /\ Full(k.t) => Full(t))
  <2> HIDE DEF t
  <2> QED
    BY <1>1, <1>5 DEF Notes, Full
<1>7. Behind(n, o.x, k.x) \in Word
  BY <1>1, BehindXor
<1>8. z = Obj("bits", v, t, Behind(n, o.x, k.x))
  BY DEF Behind
<1>9. Meant(Obj("bits", v, t, Behind(n, o.x, k.x))) /\ Obj("bits", v, t, Behind(n, o.x, k.x)).t = t
  <2> HIDE DEF v, t
  <2> QED
    BY <1>3, <1>4, <1>6, <1>7, BitsMeant
<1>10. Meant(z) /\ z.t = t
  <2> HIDE DEF v, t, z
  <2> QED
    BY <1>8, <1>9
<1>11. Full(o.t) /\ Full(k.t) => Full(z.t)
  <2> HIDE DEF t, z
  <2> QED
    BY <1>6, <1>10
<1> QED
  BY <1>10, <1>11

\* Every number below M is the number of one word.
LEMMA WordOfNum ==
    ASSUME NEW n \in 0 .. M - 1
    PROVE  WordOf(n) \in Word /\ Num[WordOf(n)] = n
<1>1. \E w \in Word : Num[w] = n
  BY WordAssumption
<1> QED
  BY <1>1 DEF WordOf

LEMMA NumRange == \A u \in Word : Num[u] \in 0 .. M - 1
BY WordAssumption

LEMMA SumWord ==
    ASSUME NEW u \in Word, NEW w \in Word
    PROVE  Sum(u, w) \in Word
<1>1. PICK n \in Int : n = Num[u] + Num[w]
  BY NumRange
<1>2. n % M \in 0 .. M - 1
  BY Rest, Moduli
<1>3. WordOf(n % M) \in Word
  BY <1>2, WordOfNum
<1> QED
  BY <1>1, <1>3 DEF Sum

\* The annotations of a full pair, and what a function of them notes.
LEMMA FullPair ==
    ASSUME NEW o, NEW k, Meant(o), Meant(k), ~ Unannotated(o, k), mode = "sim"
    PROVE  o.t[0] = {o.x} /\ o.t[1] = {o.x} /\ k.t[0] = {k.x} /\ k.t[1] = {k.x}
<1>1. Notes(o.t, o.x) /\ Notes(k.t, k.x)
  BY MeantShares
<1>2. Full(o.t) /\ Full(k.t)
  BY LacksFull DEF Unannotated
<1> QED
  BY <1>1, <1>2, NotesFull

LEMMA SumMeant ==
    ASSUME NEW o, NEW k, Meant(o), Meant(k), o.dom = "bits", k.dom = "bits",
           ~ Unannotated(o, k), NEW z \in Circuit("bits", Sum, o, k)
    PROVE  Meant(z) /\ (mode = "sim" => Full(z.t))
<1> DEFINE t == Lift2(Sum, o, k)
<1>1. o.x \in Word /\ k.x \in Word /\ Join(o) = o.x /\ Join(k) = k.x
  BY BitShares
<1>2. /\ t[0] = {Sum(u, w) : u \in o.t[0], w \in k.t[0]}
      /\ t[1] = {Sum(u, w) : u \in o.t[1], w \in k.t[1]}
  BY DEF Lift2, Party
<1>3. mode = "sim" => t[0] = {Sum(o.x, k.x)} /\ t[1] = {Sum(o.x, k.x)}
  <2> HIDE DEF t
  <2> QED
    BY <1>2, FullPair
<1>4. z \in IF mode = "sim" THEN Sharing("bits", Noted("bits", t), t, Sum(o.x, k.x))
                            ELSE Sharing("bits", Sum(o.x, k.x), Bare, Sum(o.x, k.x))
  BY <1>1 DEF Circuit
<1>5. Sum(o.x, k.x) \in Val("bits") /\ "bits" \in Doms
  BY <1>1, SumWord, Vals DEF Doms
<1> HIDE DEF t
<1> QED
  BY <1>3, <1>4, <1>5, CircuitMeant

LEMMA A2BMeant ==
    ASSUME NEW o, Meant(o), o.dom = "arith", ~ Unannotated(o, o)
    PROVE  LET f(u, w) == WordOf(u)
           IN  \A z \in Circuit("bits", f, o, o) : Meant(z) /\ (mode = "sim" => Full(z.t))
<1> DEFINE f(u, w) == WordOf(u)
           t == [p \in Party |-> {WordOf(u) : u \in o.t[p], w \in o.t[p]}]
<1>1. o.x \in 0 .. M - 1 /\ Join(o) = o.x
  BY MeantShares, Vals DEF Meant
<1>2. mode = "sim" => o.t[0] = {o.x} /\ o.t[1] = {o.x}
  BY FullPair
<1>3. mode = "sim" => t[0] = {WordOf(o.x)} /\ t[1] = {WordOf(o.x)}
  BY <1>2 DEF Party
<1>4. Circuit("bits", f, o, o) = IF mode = "sim"
        THEN Sharing("bits", Noted("bits", t), t, WordOf(o.x))
        ELSE Sharing("bits", WordOf(o.x), Bare, WordOf(o.x))
  BY <1>1 DEF Circuit, Lift2
<1>5. WordOf(o.x) \in Val("bits") /\ "bits" \in Doms
  BY <1>1, WordOfNum, Vals DEF Doms
<1>6. \A z \in IF mode = "sim"
                THEN Sharing("bits", Noted("bits", t), t, WordOf(o.x))
                ELSE Sharing("bits", WordOf(o.x), Bare, WordOf(o.x)) :
          Meant(z) /\ (mode = "sim" => Full(z.t))
  <2> HIDE DEF t
  <2> QED
    BY <1>3, <1>5, CircuitMeant
<1> QED
  BY <1>4, <1>6 DEF Circuit, Lift2

LEMMA MuxMeant ==
    ASSUME NEW o, NEW k, Meant(o), Meant(k), o.dom = "bits", k.dom = "bits", NEW b,
           ~ Unannotated(PickOf(Rep(b), o), XorOf(o, k)),
           NEW z \in AndOf(PickOf(Rep(b), o), XorOf(o, k))
    PROVE  Meant(XorOf(o, z)) /\ (mode = "sim" /\ Full(o.t) => Full(XorOf(o, z).t))
<1> DEFINE sel == PickOf(Rep(b), o)
           d == XorOf(o, k)
<1>1. Meant(sel) /\ sel.dom = "bits" /\ Meant(d) /\ d.dom = "bits"
  BY PickMeant, XorMeant
<1>2. z \in AndOf(sel, d) /\ ~ Unannotated(sel, d)
  OBVIOUS
<1> HIDE DEF sel, d
<1>3. Meant(z) /\ z.dom = "bits" /\ (mode = "sim" => Full(z.t))
  BY <1>1, <1>2, AndMeant
<1> QED
  BY <1>3, XorMeant

(***************************************************************************)
(* Operations on numbers.                                                  *)
(***************************************************************************)
\* Two numbers that are congruent to shares of a value.
LEMMA JoinRest ==
    ASSUME NEW m \in Nat \ {0}, NEW i \in Int, NEW j \in Int, NEW n \in 0 .. m - 1,
           Cong(m, i + j, n)
    PROVE  /\ i % m \in 0 .. m - 1 /\ j % m \in 0 .. m - 1
           /\ ModSum(m, i % m, j % m) = n
<1>1. PICK u \in 0 .. m - 1 : u = i % m /\ Cong(m, u, i)
  <2>1. PICK u \in 0 .. m - 1 : u = i % m
    BY Rest
  <2>2. Cong(m, i, u)
    BY <2>1, Rest
  <2> QED
    BY <2>1, <2>2, CongBack
<1>2. PICK w \in 0 .. m - 1 : w = j % m /\ Cong(m, w, j)
  <2>1. PICK w \in 0 .. m - 1 : w = j % m
    BY Rest
  <2>2. Cong(m, j, w)
    BY <2>1, Rest
  <2> QED
    BY <2>1, <2>2, CongBack
<1>3. PICK q \in Int, s \in Int : q = i + j /\ s = u + w
  OBVIOUS
<1>4. Cong(m, s, q) /\ Cong(m, q, n)
  <2>1. Cong(m, u + w, i + j)
    BY <1>1, <1>2, CongSum
  <2> QED
    BY <2>1, <1>3
<1>5. Cong(m, s, n)
  BY <1>4, CongOver
<1>6. s % m = n
  <2>1. n \in Int
    OBVIOUS
  <2> QED
    BY <1>5, <2>1, RestIs
<1>7. ModSum(m, u, w) = n
  BY <1>3, <1>6 DEF ModSum
<1> QED
  BY <1>1, <1>2, <1>7

LEMMA ArithMeant ==
    ASSUME NEW v, NEW t, NEW w \in 0 .. M - 1, v \in [Party -> 0 .. M - 1],
           ModSum(M, v[0], v[1]) = w, Notes(t, w)
    PROVE  Meant(Obj("arith", v, t, w)) /\ Obj("arith", v, t, w).t = t
<1>1. "arith" \in Doms /\ \A i, j : Plus("arith", i, j) = ModSum(M, i, j)
  BY DEF Plus, ModSum, Doms
<1>2. w \in Val("arith") /\ v \in [Party -> Val("arith")] /\ Plus("arith", v[0], v[1]) = w
  BY <1>1, Vals
<1> QED
  BY <1>1, <1>2, MakeMeant

LEMMA FldMeant ==
    ASSUME NEW v, NEW t, NEW w \in 0 .. P - 1, v \in [Party -> 0 .. P - 1],
           ModSum(P, v[0], v[1]) = w, Notes(t, w)
    PROVE  Meant(Obj("fld", v, t, w)) /\ Obj("fld", v, t, w).t = t
<1>1. "fld" \in Doms /\ \A i, j : Plus("fld", i, j) = ModSum(P, i, j)
  BY DEF Plus, ModSum, Doms
<1>2. w \in Val("fld") /\ v \in [Party -> Val("fld")] /\ Plus("fld", v[0], v[1]) = w
  BY <1>1, Vals
<1> QED
  BY <1>1, <1>2, MakeMeant

LEMMA FldShares ==
    ASSUME NEW o, Meant(o), o.dom = "fld"
    PROVE  /\ o.v[0] \in 0 .. P - 1 /\ o.v[1] \in 0 .. P - 1 /\ o.x \in 0 .. P - 1
           /\ Cong(P, o.v[0] + o.v[1], o.x) /\ ModSum(P, o.v[0], o.v[1]) = o.x
           /\ Join(o) = o.x /\ Notes(o.t, o.x)
<1>1. \A i, j : Plus("fld", i, j) = ModSum(P, i, j)
  BY DEF Plus, ModSum
<1>2. /\ o.v[0] \in 0 .. P - 1 /\ o.v[1] \in 0 .. P - 1 /\ o.x \in 0 .. P - 1
      /\ Plus("fld", o.v[0], o.v[1]) = o.x /\ Notes(o.t, o.x) /\ Join(o) = o.x
  BY MeantShares, Vals DEF Meant
<1>3. PICK i \in Int : i = o.v[0] + o.v[1]
  BY <1>2, Moduli
<1>4. i % P = o.x
  BY <1>1, <1>2, <1>3 DEF ModSum
<1>5. Cong(P, i, i % P)
  BY Rest, Moduli
<1> QED
  BY <1>1, <1>2, <1>3, <1>4, <1>5

\* b2a: the number of the sum of two words is the sum of their numbers less
\* twice that of their product.
LEMMA B2AOtMeant ==
    ASSUME NEW o, Meant(o), o.dom = "bits", NEW z \in B2AOt(o)
    PROVE  Meant(z)
<1>1. PICK s \in [Party -> 0 .. M - 1] :
        z = Obj("arith", [p \in Party |->
               (Num[o.v[p]] - (s[1 - p] + Num[And(o.v[p], o.v[1 - p])] - s[p])) % M],
            Bare, Num[o.x])
  BY DEF B2AOt
<1> DEFINE v == [p \in Party |->
               (Num[o.v[p]] - (s[1 - p] + Num[And(o.v[p], o.v[1 - p])] - s[p])) % M]
<1>2. PICK u \in Word, w \in Word : u = o.v[0] /\ w = o.v[1] /\ Xor(u, w) = o.x
  BY BitShares
<1>3. And(u, w) = And(w, u) /\ And(u, w) \in Word /\ Xor(u, w) \in Word
  <2>1. \A i \in Idx : And(u, w)[i] = And(w, u)[i]
    BY AndWord, WordBits
  <2> QED
    BY <2>1, AndWord, XorWord, SameWord
<1>4. PICK i \in Int, j \in Int, k \in Int, n \in 0 .. M - 1 :
        i = Num[u] /\ j = Num[w] /\ k = Num[And(u, w)] /\ n = Num[Xor(u, w)]
  BY <1>3, NumRange
<1>5. n = i + j - 2 * k
  BY <1>4, WordAssumption
<1>6. PICK b \in Int, d \in Int : b = s[0] /\ d = s[1]
  BY DEF Party
<1>7. PICK e \in Int, h \in Int : e = i - (d + k - b) /\ h = j - (b + k - d)
  OBVIOUS
<1>8. e + h = n
  BY ONLY <1>5, <1>7, i \in Int, j \in Int, k \in Int, b \in Int, d \in Int
<1>9. v[0] = e % M /\ v[1] = h % M
  <2>1. v[0] = (Num[u] - (s[1] + Num[And(u, w)] - s[0])) % M
    BY <1>2 DEF Party
  <2>2. v[1] = (Num[w] - (s[0] + Num[And(w, u)] - s[1])) % M
    BY <1>2 DEF Party
  <2> HIDE DEF v
  <2> QED
    BY ONLY <2>1, <2>2, <1>3, <1>4, <1>6, <1>7
<1>10. Cong(M, e + h, n)
  BY <1>8, CongSame, Moduli
<1>11. e % M \in 0 .. M - 1 /\ h % M \in 0 .. M - 1 /\ ModSum(M, e % M, h % M) = n
  BY <1>10, JoinRest, Moduli
<1>12. v \in [Party -> 0 .. M - 1]
  <2>1. v = [p \in Party |-> v[p]]
    OBVIOUS
  <2> HIDE DEF v
  <2> QED
    BY <1>9, <1>11, <2>1 DEF Party
<1>13. z = Obj("arith", v, Bare, n)
  BY <1>1, <1>2, <1>4
<1> HIDE DEF v
<1>14. ModSum(M, v[0], v[1]) = n
  BY <1>9, <1>11
<1> QED
  BY <1>12, <1>13, <1>14, BareNotes, ArithMeant

LEMMA B2AMeant ==
    ASSUME NEW o, Meant(o), o.dom = "bits", ~ Unannotated(o, o)
    PROVE  LET t == Lift(LAMBDA u : Num[u], o)
           IN  \A z \in IF mode = "sim" THEN Sharing("arith", Noted("arith", t), t, Num[o.x])
                                        ELSE B2AOt(o) :
                   Meant(z) /\ (mode = "sim" => Full(z.t))
<1> DEFINE t == Lift(LAMBDA u : Num[u], o)
<1> SUFFICES ASSUME NEW z \in IF mode = "sim"
                                THEN Sharing("arith", Noted("arith", t), t, Num[o.x])
                                ELSE B2AOt(o)
             PROVE  Meant(z) /\ (mode = "sim" => Full(z.t))
  OBVIOUS
<1>1. CASE mode = "sim"
  <2>1. t[0] = {Num[u] : u \in o.t[0]} /\ t[1] = {Num[u] : u \in o.t[1]}
    BY DEF Lift, Party
  <2>2. Num[o.x] \in Val("arith") /\ "arith" \in Doms
    BY BitShares, NumRange, Vals DEF Doms
  <2>3. z \in Sharing("arith", Noted("arith", t), t, Num[o.x])
    BY <1>1
  <2> HIDE DEF t
  <2>4. t[0] = {Num[o.x]} /\ t[1] = {Num[o.x]}
    BY <1>1, <2>1, FullPair
  <2> QED
    BY <1>1, <2>2, <2>3, <2>4, CircuitMeant
<1>2. CASE mode # "sim"
  BY <1>2, B2AOtMeant
<1> QED
  BY <1>1, <1>2

LEMMA CongProduct ==
    ASSUME NEW m \in Nat \ {0}, NEW i \in Int, NEW j \in Int, NEW n \in Int, NEW k \in Int,
           Cong(m, i, j), Cong(m, n, k)
    PROVE  Cong(m, i * n, j * k)
<1>1. PICK b \in Int, d \in Int, e \in Int : b = i * n /\ d = j * n /\ e = j * k
  OBVIOUS
<1>2. Cong(m, b, d)
  <2>1. Cong(m, i * n, j * n)
    BY CongTimes
  <2> QED
    BY <1>1, <2>1
<1>3. Cong(m, d, e)
  <2>1. Cong(m, j * n, j * k)
    BY CongTimes
  <2> QED
    BY <1>1, <2>1
<1> QED
  BY <1>1, <1>2, <1>3, CongOver

FMulOf(m, i, j) == (i * j) % m

LEMMA FMulRange ==
    ASSUME NEW m \in Nat \ {0}, NEW i \in Int, NEW j \in Int
    PROVE  FMulOf(m, i, j) \in 0 .. m - 1 /\ Cong(m, i * j, FMulOf(m, i, j))
<1>1. PICK k \in Int : k = i * j
  OBVIOUS
<1>2. k % m \in 0 .. m - 1 /\ Cong(m, k, k % m)
  BY Rest
<1> QED
  BY <1>1, <1>2 DEF FMulOf

LEMMA CrossTerms ==
    ASSUME NEW u \in Int, NEW w \in Int, NEW b \in Int, NEW d \in Int, NEW r \in Int, NEW s \in Int
    PROVE  /\ u * b + (u * d + s) - r \in Int /\ w * d + (w * b + r) - s \in Int
           /\ (u * b + (u * d + s) - r) + (w * d + (w * b + r) - s) = (u + w) * (b + d)
OBVIOUS

\* fmul in mode "ot": the masks s go, and the four products stay.
LEMMA FMulOtMeant ==
    ASSUME NEW o, NEW k, Meant(o), Meant(k), o.dom = "fld", k.dom = "fld", NEW z \in FMulOt(o, k)
    PROVE  Meant(z)
<1>1. PICK s \in [Party -> 0 .. P - 1] :
        z = Obj("fld", [p \in Party |->
               (o.v[p] * k.v[p] + (o.v[p] * k.v[1 - p] + s[1 - p]) - s[p]) % P],
            Bare, (o.x * k.x) % P)
  BY DEF FMulOt
<1> DEFINE v == [p \in Party |->
               (o.v[p] * k.v[p] + (o.v[p] * k.v[1 - p] + s[1 - p]) - s[p]) % P]
<1>2. PICK u \in Int, w \in Int, i \in Int : u = o.v[0] /\ w = o.v[1] /\ i = o.x /\ Cong(P, u + w, i)
  <2>1. o.v[0] \in Int /\ o.v[1] \in Int /\ o.x \in Int
    BY FldShares, Moduli
  <2> QED
    BY <2>1, FldShares
<1>3. PICK b \in Int, d \in Int, j \in Int : b = k.v[0] /\ d = k.v[1] /\ j = k.x /\ Cong(P, b + d, j)
  <2>1. k.v[0] \in Int /\ k.v[1] \in Int /\ k.x \in Int
    BY FldShares, Moduli
  <2> QED
    BY <2>1, FldShares
<1>4. PICK m \in Int, r \in Int : m = s[0] /\ r = s[1]
  BY Moduli DEF Party
<1>5. PICK e \in Int, h \in Int : /\ e = u * b + (u * d + r) - m
                                  /\ h = w * d + (w * b + m) - r
  BY CrossTerms
<1>6. e + h = (u + w) * (b + d)
  BY <1>5, CrossTerms
<1>7. FMulOf(P, i, j) \in 0 .. P - 1 /\ Cong(P, i * j, FMulOf(P, i, j))
  BY FMulRange, Moduli
<1>8. PICK n \in 0 .. P - 1 : n = FMulOf(P, i, j)
  BY <1>7
<1>9. Cong(P, e + h, n)
  <2>1. PICK f \in Int, q \in Int : f = u + w /\ q = b + d
    OBVIOUS
  <2>2. Cong(P, f * q, i * j)
    BY <2>1, <1>2, <1>3, CongProduct, Moduli
  <2>3. PICK a1 \in Int, a2 \in Int, a3 \in Int : a1 = f * q /\ a2 = i * j /\ a3 = n
    BY Moduli
  <2>4. Cong(P, a1, a2) /\ Cong(P, a2, a3)
    BY <2>2, <2>3, <1>7, <1>8
  <2>5. Cong(P, a1, a3)
    BY <2>4, CongOver, Moduli
  <2> QED
    BY <2>1, <2>3, <2>5, <1>6
<1>10. v[0] = e % P /\ v[1] = h % P
  <2>1. v[0] = (u * b + (u * d + r) - m) % P
    BY <1>2, <1>3, <1>4 DEF Party
  <2>2. v[1] = (w * d + (w * b + m) - r) % P
    BY <1>2, <1>3, <1>4 DEF Party
  <2> HIDE DEF v
  <2> QED
    BY ONLY <2>1, <2>2, <1>5
<1>11. e % P \in 0 .. P - 1 /\ h % P \in 0 .. P - 1 /\ ModSum(P, e % P, h % P) = n
  BY <1>9, JoinRest, Moduli
<1>12. v \in [Party -> 0 .. P - 1]
  <2>1. v = [p \in Party |-> v[p]]
    OBVIOUS
  <2> HIDE DEF v
  <2> QED
    BY <1>10, <1>11, <2>1 DEF Party
<1>13. z = Obj("fld", v, Bare, n)
  BY <1>1, <1>2, <1>3, <1>8 DEF FMulOf
<1> HIDE DEF v
<1>14. ModSum(P, v[0], v[1]) = n
  BY <1>10, <1>11
<1> QED
  BY <1>12, <1>13, <1>14, BareNotes, FldMeant

LEMMA FMulMeant ==
    ASSUME NEW o, NEW k, Meant(o), Meant(k), o.dom = "fld", k.dom = "fld", ~ Unannotated(o, k)
    PROVE  LET f(u, w) == (u * w) % P
           IN  \A z \in IF mode = "sim" THEN Circuit("fld", f, o, k) ELSE FMulOt(o, k) :
                   Meant(z) /\ (mode = "sim" => Full(z.t))
<1> DEFINE f(u, w) == (u * w) % P
           t == [p \in Party |-> {FMulOf(P, u, w) : u \in o.t[p], w \in k.t[p]}]
<1>1. o.x \in Int /\ k.x \in Int
  BY FldShares, Moduli
<1>2. mode = "sim" => /\ o.t[0] = {o.x} /\ o.t[1] = {o.x}
                      /\ k.t[0] = {k.x} /\ k.t[1] = {k.x}
  BY FullPair
<1>3. mode = "sim" => t[0] = {FMulOf(P, o.x, k.x)} /\ t[1] = {FMulOf(P, o.x, k.x)}
  BY <1>2 DEF Party
<1>4. mode = "sim" =>
        Circuit("fld", f, o, k) = Sharing("fld", Noted("fld", t), t, FMulOf(P, o.x, k.x))
  BY DEF Circuit, Lift2, FMulOf
<1>5. FMulOf(P, o.x, k.x) \in Val("fld") /\ "fld" \in Doms
  BY <1>1, FMulRange, Moduli, Vals DEF Doms
<1>6. mode = "sim" => \A z \in Sharing("fld", Noted("fld", t), t, FMulOf(P, o.x, k.x)) :
                          Meant(z) /\ (mode = "sim" => Full(z.t))
  <2> HIDE DEF t
  <2> QED
    BY <1>3, <1>5, CircuitMeant
<1>7. mode # "sim" => \A z \in FMulOt(o, k) : Meant(z)
  BY FMulOtMeant
<1> QED
  BY <1>4, <1>6, <1>7 DEF Circuit, Lift2

\* A shared value times a public one.
LEMMA FMulPubMeant ==
    ASSUME NEW o, Meant(o), o.dom = "fld", NEW n \in 0 .. P - 1
    PROVE  LET f(u) == (u * n) % P
               z == Obj("fld", [p \in Party |-> f(o.v[p])], Lift(f, o), f(o.x))
           IN  Meant(z) /\ (Full(o.t) => Full(z.t))
<1> DEFINE f(u) == (u * n) % P
           v == [p \in Party |-> FMulOf(P, o.v[p], n)]
           t == [p \in Party |-> {FMulOf(P, u, n) : u \in o.t[p]}]
           z == Obj("fld", [p \in Party |-> f(o.v[p])], Lift(f, o), f(o.x))
<1>1. z = Obj("fld", v, t, FMulOf(P, o.x, n))
  BY DEF Lift, FMulOf
<1>2. PICK u \in Int, w \in Int, i \in Int :
        u = o.v[0] /\ w = o.v[1] /\ i = o.x /\ Cong(P, u + w, i)
  <2>1. o.v[0] \in Int /\ o.v[1] \in Int /\ o.x \in Int
    BY FldShares, Moduli
  <2> QED
    BY <2>1, FldShares
<1>3. PICK b \in Int, d \in Int, e \in Int, q \in Int :
        b = u * n /\ d = w * n /\ e = (u + w) * n /\ q = i * n
  BY Moduli
<1>4. b + d = e
  BY <1>3, Moduli
<1>5. PICK k \in 0 .. P - 1 : k = FMulOf(P, i, n) /\ Cong(P, q, k)
  <2>1. n \in Int
    BY Moduli
  <2>2. FMulOf(P, i, n) \in 0 .. P - 1 /\ Cong(P, i * n, FMulOf(P, i, n))
    BY <2>1, FMulRange, Moduli
  <2> QED
    BY <2>2, <1>3
<1>6. Cong(P, e, q)
  <2>1. u + w \in Int /\ n \in Int
    BY Moduli
  <2>2. Cong(P, (u + w) * n, i * n)
    BY <1>2, <2>1, CongTimes, Moduli
  <2> QED
    BY <2>2, <1>3
<1>7. Cong(P, b + d, k)
  <2>1. k \in Int
    BY Moduli
  <2>2. Cong(P, e, k)
    BY <1>5, <1>6, <2>1, CongOver, Moduli
  <2> QED
    BY <2>2, <1>4
<1>8. b % P \in 0 .. P - 1 /\ d % P \in 0 .. P - 1 /\ ModSum(P, b % P, d % P) = k
  BY <1>7, JoinRest, Moduli
<1>9. v[0] = b % P /\ v[1] = d % P
  BY <1>2, <1>3 DEF Party, FMulOf
<1>10. v \in [Party -> 0 .. P - 1]
  <2>1. v = [p \in Party |-> v[p]]
    OBVIOUS
  <2> HIDE DEF v
  <2> QED
    BY <1>8, <1>9, <2>1 DEF Party
<1>11. t[0] = {FMulOf(P, r, n) : r \in o.t[0]} /\ t[1] = {FMulOf(P, r, n) : r \in o.t[1]}
  BY DEF Party
<1> HIDE DEF v, t
<1>12. Notes(t, FMulOf(P, i, n)) /\ (Full(o.t) => Full(t))
  BY <1>2, <1>11, FldShares DEF Notes, Full
<1>13. Meant(Obj("fld", v, t, k)) /\ Obj("fld", v, t, k).t = t
  BY <1>5, <1>8, <1>9, <1>10, <1>12, FldMeant
<1>14. z = Obj("fld", v, t, k)
  BY <1>1, <1>2, <1>5
<1> HIDE DEF z
<1>15. Meant(z) /\ (Full(o.t) => Full(z.t))
  BY <1>12, <1>13, <1>14
<1> QED
  BY <1>15 DEF z

\* Of two residues whose product is 1 neither is 0 modulo m, unless m is 1.
LEMMA Inverses ==
    ASSUME NEW n \in 1 .. P - 1
    PROVE  Inv[n] \in 0 .. P - 1 /\ Inv[n] \in Int /\ n \in Int /\ Cong(P, n * Inv[n], 1)
<1>1. n \in 0 .. P - 1
  BY Moduli
<1>2. Inv[n] \in 0 .. P - 1
  BY <1>1, FieldAssumption
<1>3. PICK k \in Int, i \in Int : k = Inv[n] /\ i = n * k
  BY <1>2, Moduli
<1>4. i % P = 1
  BY <1>3, FieldAssumption
<1>5. Cong(P, i, i % P)
  BY Rest, Moduli
<1> QED
  BY <1>2, <1>3, <1>4, <1>5, Moduli

LEMMA Regroup ==
    ASSUME NEW b \in Int, NEW d \in Int, NEW e \in Int, NEW h \in Int
    PROVE  /\ (b * d) * (e * h) = (b * e) * (d * h) /\ (b * d) * (e * h) = (e * d) * (b * h)
           /\ b * d \in Int /\ e * h \in Int /\ b * e \in Int /\ d * h \in Int
           /\ e * d \in Int /\ b * h \in Int
           /\ b * 1 = b /\ 1 * b = b /\ 0 * b = 0 /\ b * d = d * b
           /\ (b * d) * e = b * (d * e) /\ (b + d) * e = b * e + d * e
OBVIOUS

\* The inverse of a product times one factor is the inverse of the other.
LEMMA InverseOfProduct ==
    ASSUME NEW n \in 0 .. P - 1, NEW s \in 1 .. P - 1
    PROVE  /\ FMulOf(P, n, s) \in 0 .. P - 1 /\ Inv[FMulOf(P, n, s)] \in 0 .. P - 1
           /\ Cong(P, s * Inv[FMulOf(P, n, s)], Inv[n])
<1>1. PICK m \in 0 .. P - 1 : m = FMulOf(P, n, s) /\ Cong(P, n * s, m)
  <2>1. n \in Int /\ s \in Int
    BY Moduli
  <2>2. FMulOf(P, n, s) \in 0 .. P - 1 /\ Cong(P, n * s, FMulOf(P, n, s))
    BY <2>1, FMulRange, Moduli
  <2> QED
    BY <2>2
<1>2. Inv[m] \in 0 .. P - 1 /\ Inv[n] \in 0 .. P - 1
  BY FieldAssumption
<1>3. CASE n = 0
  <2>1. n * s = 0
    BY <1>3, Moduli
  <2>2. 0 % P = 0
    BY Moduli
  <2>3. m = 0
    BY <1>1, <2>1, <2>2 DEF FMulOf
  <2>4. Inv[m] = 0 /\ Inv[n] = 0
    BY <1>3, <2>3, FieldAssumption
  <2>5. s * 0 = 0
    BY Moduli
  <2>6. Cong(P, 0, 0)
    BY CongSame, Moduli
  <2> QED
    BY <1>1, <1>2, <2>4, <2>5, <2>6
<1>4. CASE n # 0
  <2>1. n \in 1 .. P - 1
    BY <1>4, Moduli
  <2>2. PICK ni \in Int, si \in Int, nn \in Int, ss \in Int, mm \in Int :
          /\ nn = n /\ ss = s /\ mm = m /\ ni = Inv[n] /\ si = Inv[s]
          /\ Cong(P, nn * ni, 1) /\ Cong(P, ss * si, 1) /\ Cong(P, nn * ss, mm)
    BY <1>1, <2>1, Inverses, Moduli
  \* (n s) (ni si) is 1, so m (ni si) is, and m is not 0
  <2>3. PICK q \in Int, r \in Int : q = nn * ss /\ r = ni * si
    OBVIOUS
  <2>4. Cong(P, q * r, 1)
    <3>1. Cong(P, (nn * ni) * (ss * si), 1 * 1)
      <4>1. nn * ni \in Int /\ ss * si \in Int /\ 1 \in Int
        OBVIOUS
      <4> QED
        BY <2>2, <4>1, CongProduct, Moduli
    <3>2. q * r = (nn * ni) * (ss * si)
      BY <2>3, Regroup
    <3>3. 1 * 1 = 1
      OBVIOUS
    <3> QED
      BY <3>1, <3>2, <3>3
  <2>5. Cong(P, mm * r, 1)
    <3>1. Cong(P, q * r, mm * r)
      BY <2>2, <2>3, CongTimes, Moduli
    <3>2. PICK i1 \in Int, i2 \in Int : i1 = q * r /\ i2 = mm * r
      OBVIOUS
    <3>3. Cong(P, i2, i1) /\ Cong(P, i1, 1)
      BY <2>4, <3>1, <3>2, CongBack, Moduli
    <3>4. Cong(P, i2, 1)
      BY <3>3, CongOver, Moduli
    <3> QED
      BY <3>2, <3>4
  <2>6. m # 0
    <3>1. SUFFICES ASSUME m = 0 PROVE FALSE
      OBVIOUS
    <3>2. mm * r = 0
      BY <2>2, <3>1
    <3>3. Cong(P, 0, 1)
      BY <2>5, <3>2
    <3>4. 0 \in 0 .. P - 1 /\ 1 \in 0 .. P - 1
      BY <2>1, Moduli
    <3>5. 0 = 1
      BY <3>3, <3>4, CongOnce, Moduli
    <3> QED
      BY <3>5
  <2>7. PICK mi \in Int : mi = Inv[m] /\ Cong(P, mm * mi, 1)
    <3>1. m \in 1 .. P - 1
      BY <2>6, Moduli
    <3> QED
      BY <3>1, <2>2, Inverses
  \* s mi is (s mi) (n ni), which is (n s mi) ni, which is ni
  <2>8. PICK e \in Int, f \in Int : e = ss * mi /\ f = nn * ni
    OBVIOUS
  <2>9. Cong(P, e * f, e * 1)
    <3>1. Cong(P, f, 1) /\ 1 \in Int
      BY <2>2, <2>8
    <3> QED
      BY <3>1, CongTimes, Moduli
  <2>10. Cong(P, q * mi, 1)
    <3>1. Cong(P, q * mi, mm * mi)
      BY <2>2, <2>3, CongTimes, Moduli
    <3>2. PICK i1 \in Int, i2 \in Int : i1 = q * mi /\ i2 = mm * mi
      OBVIOUS
    <3>3. Cong(P, i1, i2) /\ Cong(P, i2, 1)
      BY <2>7, <3>1, <3>2
    <3>4. Cong(P, i1, 1)
      BY <3>3, CongOver, Moduli
    <3> QED
      BY <3>2, <3>4
  <2>11. Cong(P, (q * mi) * ni, 1 * ni)
    <3>1. q * mi \in Int /\ 1 \in Int
      OBVIOUS
    <3> QED
      BY <3>1, <2>10, CongTimes, Moduli
  <2>12. e * f = (q * mi) * ni
    <3>1. e * f = (ss * mi) * (nn * ni)
      BY <2>8
    <3>2. (ss * mi) * (nn * ni) = ((nn * ss) * mi) * ni
      OBVIOUS
    <3> QED
      BY <3>1, <3>2, <2>3
  <2>13. PICK i1 \in Int : i1 = e * f
    OBVIOUS
  <2>14. Cong(P, i1, e) /\ Cong(P, i1, ni)
    <3>1. e * 1 = e /\ 1 * ni = ni
      OBVIOUS
    <3> QED
      BY <2>9, <2>11, <2>12, <2>13, <3>1
  <2>15. Cong(P, e, i1)
    BY <2>14, CongBack, Moduli
  <2>16. Cong(P, e, ni)
    BY <2>14, <2>15, CongOver, Moduli
  <2> QED
    BY <1>1, <1>2, <2>2, <2>7, <2>8, <2>16
<1> QED
  BY <1>3, <1>4

\* finv: what the parties open is the value times s, and s times the inverse
\* of that is shared by the shares of s times it.
LEMMA FInvShares ==
    ASSUME NEW n \in 0 .. P - 1, NEW u \in 0 .. P - 1, NEW w \in 0 .. P - 1, (u + w) % P # 0,
           NEW k, k = Inv[FMulOf(P, n, (u + w) % P)]
    PROVE  /\ FMulOf(P, u, k) \in 0 .. P - 1 /\ FMulOf(P, w, k) \in 0 .. P - 1
           /\ ModSum(P, FMulOf(P, u, k), FMulOf(P, w, k)) = Inv[n]
<1>1. PICK i \in Int : i = u + w
  BY Moduli
<1>2. PICK s \in 0 .. P - 1 : s = i % P /\ Cong(P, i, s)
  BY Rest, Moduli
<1>3. s \in 1 .. P - 1 /\ s \in Int
  BY <1>1, <1>2, Moduli
<1>4. k \in Int /\ Inv[n] \in 0 .. P - 1 /\ Cong(P, s * k, Inv[n])
  <2>1. k = Inv[FMulOf(P, n, s)]
    BY <1>1, <1>2
  <2>2. k \in 0 .. P - 1 /\ Cong(P, s * k, Inv[n])
    BY <1>3, <2>1, InverseOfProduct
  <2>3. Inv[n] \in 0 .. P - 1
    BY FieldAssumption
  <2> QED
    BY <2>2, <2>3, Moduli
<1>5. PICK m \in 0 .. P - 1 : m = Inv[n] /\ m \in Int
  BY <1>4, Moduli
<1>6. PICK b \in Int, d \in Int, e \in Int, q \in Int :
        b = u * k /\ d = w * k /\ e = i * k /\ q = s * k
  BY <1>3, <1>4, Moduli
<1>7. b + d = e
  BY ONLY <1>1, <1>6, <1>4, u \in 0 .. P - 1, w \in 0 .. P - 1, Moduli
<1>8. Cong(P, e, q)
  BY <1>2, <1>3, <1>4, <1>6, CongTimes, Moduli
<1>9. Cong(P, b + d, m)
  <2>1. Cong(P, q, m)
    BY <1>4, <1>5, <1>6
  <2>2. Cong(P, e, m)
    BY <1>5, <1>8, <2>1, CongOver, Moduli
  <2> QED
    BY <1>7, <2>2
<1>10. b % P \in 0 .. P - 1 /\ d % P \in 0 .. P - 1 /\ ModSum(P, b % P, d % P) = m
  BY <1>9, JoinRest, Moduli
<1>11. FMulOf(P, u, k) = b % P /\ FMulOf(P, w, k) = d % P
  BY <1>6 DEF FMulOf
<1> QED
  BY <1>5, <1>10, <1>11

LEMMA FInvMeant ==
    ASSUME NEW o, Meant(o), o.dom = "fld", ~ Unannotated(o, o),
           NEW r \in [Party -> 0 .. P - 1], (r[0] + r[1]) % P # 0
    PROVE  LET T(n) == ((IF mode = "sim" THEN Noted("fld", o.t) ELSE Join(o)) * n) % P
               z == Obj("fld", [p \in Party |-> (r[p] * Inv[T((r[0] + r[1]) % P)]) % P],
                        Lift(LAMBDA u : Inv[u], o), Inv[o.x])
           IN  Meant(z) /\ (Full(o.t) => Full(z.t))
<1> DEFINE T(n) == ((IF mode = "sim" THEN Noted("fld", o.t) ELSE Join(o)) * n) % P
           k == Inv[FMulOf(P, o.x, (r[0] + r[1]) % P)]
           v == [p \in Party |-> FMulOf(P, r[p], k)]
           t == [p \in Party |-> {Inv[u] : u \in o.t[p]}]
           z == Obj("fld", [p \in Party |-> (r[p] * Inv[T((r[0] + r[1]) % P)]) % P],
                    Lift(LAMBDA u : Inv[u], o), Inv[o.x])
<1>1. o.x \in 0 .. P - 1 /\ Join(o) = o.x /\ Notes(o.t, o.x)
  BY FldShares
<1>2. mode = "sim" => Noted("fld", o.t) = o.x
  <2>1. mode = "sim" => o.t[0] = {o.x} /\ o.t[1] = {o.x}
    BY FullPair
  <2> QED
    BY <2>1, FullNotes
<1>3. T((r[0] + r[1]) % P) = FMulOf(P, o.x, (r[0] + r[1]) % P)
  BY <1>1, <1>2 DEF FMulOf
<1>4. z = Obj("fld", v, t, Inv[o.x])
  BY <1>3 DEF Lift, FMulOf
<1>5. r[0] \in 0 .. P - 1 /\ r[1] \in 0 .. P - 1 /\ Inv[o.x] \in 0 .. P - 1
  BY <1>1, FieldAssumption DEF Party
<1>6. v[0] = FMulOf(P, r[0], k) /\ v[1] = FMulOf(P, r[1], k)
  BY DEF Party
<1> HIDE DEF z, T
<1>7. v[0] \in 0 .. P - 1 /\ v[1] \in 0 .. P - 1 /\ ModSum(P, v[0], v[1]) = Inv[o.x]
  <2>1. PICK n \in 0 .. P - 1, u \in 0 .. P - 1, w \in 0 .. P - 1 : n = o.x /\ u = r[0] /\ w = r[1]
    BY <1>1, <1>5
  <2>2. PICK h : h = Inv[FMulOf(P, n, (u + w) % P)]
    OBVIOUS
  <2>3. (u + w) % P # 0
    BY <2>1
  <2>4. /\ FMulOf(P, u, h) \in 0 .. P - 1 /\ FMulOf(P, w, h) \in 0 .. P - 1
        /\ ModSum(P, FMulOf(P, u, h), FMulOf(P, w, h)) = Inv[n]
    BY <2>2, <2>3, FInvShares
  <2>5. h = k
    BY <2>1, <2>2
  <2> HIDE DEF v, k
  <2> QED
    BY <1>6, <2>1, <2>4, <2>5
<1>8. v \in [Party -> 0 .. P - 1]
  <2>1. v = [p \in Party |-> v[p]]
    OBVIOUS
  <2> HIDE DEF v
  <2> QED
    BY <1>7, <2>1 DEF Party
<1>9. t[0] = {Inv[u] : u \in o.t[0]} /\ t[1] = {Inv[u] : u \in o.t[1]}
  BY DEF Party
<1> HIDE DEF v, t
<1>10. Notes(t, Inv[o.x]) /\ (Full(o.t) => Full(t))
  BY <1>1, <1>9 DEF Notes, Full
<1>11. Meant(Obj("fld", v, t, Inv[o.x])) /\ Obj("fld", v, t, Inv[o.x]).t = t
  BY <1>5, <1>7, <1>8, <1>10, FldMeant
<1>12. Meant(z) /\ (Full(o.t) => Full(z.t))
  BY <1>4, <1>10, <1>11
<1> QED
  BY <1>12 DEF z, T

\* The one reduction the sum of two residues needs.
LEMMA Reducing ==
    ASSUME NEW u \in 0 .. P - 1, NEW w \in 0 .. P - 1
    PROVE  Reduced(u, w) = ModSum(P, u, w)
<1>1. M \in Nat /\ P \in Nat /\ P < M /\ M <= 2 * P /\ P > 0
  BY Moduli
<1>2. PICK n \in Nat : n = u + w /\ n < 2 * P
  BY <1>1
<1>3. ASSUME NEW k \in Nat
      PROVE  /\ k < M => k % M = k /\ k \div M = 0
             /\ M <= k /\ k < 2 * M => k % M = k - M /\ k \div M = 1
  <2>1. PICK q \in Int, r \in 0 .. M - 1 : q = k \div M /\ r = k % M /\ k = M * q + r
    BY <1>1
  <2>2. CASE k < M
    <3>1. PICK h \in Int : /\ h = M * q /\ k = h + r
                            /\ (q >= 1 => h >= M) /\ (q <= -1 => h <= - M)
      BY <1>1, <2>1
    <3>2. ~ q >= 1 /\ ~ q <= -1
      BY ONLY <1>1, <2>2, <3>1, k \in Nat, r \in 0 .. M - 1, q \in Int
    <3>3. q = 0
      BY <3>2
    <3>4. h = 0
      BY <1>1, <3>1, <3>3
    <3> QED
      BY <1>1, <2>1, <2>2, <3>1, <3>3, <3>4
  <2>3. CASE M <= k /\ k < 2 * M
    <3>1. PICK h \in Int : /\ h = M * q /\ k = h + r
                            /\ (q >= 2 => h >= 2 * M) /\ (q <= 0 => h <= 0)
      BY <1>1, <2>1
    <3>2. ~ q >= 2 /\ ~ q <= 0
      BY ONLY <1>1, <2>3, <3>1, k \in Nat, r \in 0 .. M - 1, q \in Int
    <3>3. q = 1
      BY <3>2
    <3>4. h = M
      BY <1>1, <3>1, <3>3
    <3> QED
      BY <1>1, <2>1, <2>3, <3>1, <3>3, <3>4
  <2> QED
    BY <2>2, <2>3
<1>4. ModSum(P, u, w) = IF n < P THEN n ELSE n - P
  <2>1. CASE n < P
    <3>1. n % P = n
      BY <1>1, <2>1
    <3> QED
      BY <1>2, <2>1, <3>1 DEF ModSum
  <2>2. CASE ~ n < P
    <3>1. PICK r \in Int : r = n - P /\ r \in 0 .. P - 1
      BY <1>1, <1>2, <2>2
    <3>2. n = r + 1 * P
      BY <3>1, <1>1
    <3>3. Cong(P, n, r)
      BY <3>2 DEF Cong
    <3>4. n % P = r
      BY <3>1, <3>3, RestIs, Moduli
    <3> QED
      BY <1>2, <2>2, <3>1, <3>4 DEF ModSum
  <2> QED
    BY <2>1, <2>2
<1> DEFINE low == n % M
           ge == (low + M - P) \div M
           sel == (n \div M + ge) % 2
<1>5. Reduced(u, w) = IF sel = 1 THEN (low + M - P) % M ELSE low
  BY <1>2 DEF Reduced
<1>6. CASE n < P
  <2>1. low = n /\ n \div M = 0
    BY <1>1, <1>3, <1>6
  <2>2. PICK k \in Nat : k = low + M - P /\ k < M
    BY <1>1, <1>6, <2>1
  <2>3. ge = 0
    BY <1>3, <2>2
  <2> HIDE DEF low, ge
  <2>4. sel = 0
    BY <2>1, <2>3
  <2> QED
    BY <1>4, <1>5, <1>6, <2>1, <2>4
<1>7. CASE P <= n /\ n < M
  <2>1. low = n /\ n \div M = 0
    BY <1>1, <1>3, <1>7
  <2>2. PICK k \in Nat : k = low + M - P /\ M <= k /\ k < 2 * M
    BY <1>1, <1>2, <1>7, <2>1
  <2>3. ge = 1 /\ (low + M - P) % M = n - P
    BY <1>1, <1>3, <2>1, <2>2
  <2> HIDE DEF low, ge
  <2>4. sel = 1
    BY <2>1, <2>3
  <2> QED
    BY <1>4, <1>5, <1>7, <2>3, <2>4, <1>1
<1>8. CASE M <= n
  <2>1. low = n - M /\ n \div M = 1
    BY <1>1, <1>2, <1>3, <1>8
  <2>2. PICK k \in Nat : k = low + M - P /\ k = n - P /\ k < M
    BY <1>1, <1>2, <1>8, <2>1
  <2>3. ge = 0 /\ (low + M - P) % M = n - P
    BY <1>1, <1>3, <2>1, <2>2
  <2> HIDE DEF low, ge
  <2>4. sel = 1
    BY <2>1, <2>3
  <2> QED
    BY <1>4, <1>5, <1>8, <2>3, <2>4, <1>1
<1> QED
  BY <1>1, <1>2, <1>6, <1>7, <1>8

\* fld_to_bits: in mode "sim" side 1 works out the share of the other party.
LEMMA FldToBitsMeant ==
    ASSUME NEW o, Meant(o), o.dom = "fld", ~ Unannotated(o, o)
    PROVE  LET peer == IF mode = "sim" THEN (Noted("fld", o.t) - o.v[0]) % P ELSE o.v[1]
               out  == WordOf(Reduced(o.v[0], peer))
           IN  \A z \in Sharing("bits", out, Marked(out), WordOf(o.x)) :
                   Meant(z) /\ (mode = "sim" => Full(z.t))
<1> DEFINE peer == IF mode = "sim" THEN (Noted("fld", o.t) - o.v[0]) % P ELSE o.v[1]
           out == WordOf(Reduced(o.v[0], peer))
<1>1. /\ o.v[0] \in 0 .. P - 1 /\ o.v[1] \in 0 .. P - 1 /\ o.x \in 0 .. P - 1
      /\ Cong(P, o.v[0] + o.v[1], o.x) /\ ModSum(P, o.v[0], o.v[1]) = o.x
  BY FldShares
<1>2. mode = "sim" => Noted("fld", o.t) = o.x
  <2>1. mode = "sim" => o.t[0] = {o.x} /\ o.t[1] = {o.x}
    BY FullPair
  <2> QED
    BY <2>1, FullNotes
<1>3. PICK u \in Int, w \in Int, n \in Int :
        u = o.v[0] /\ w = o.v[1] /\ n = o.x /\ w \in 0 .. P - 1 /\ Cong(P, u + w, n)
  <2>1. o.v[0] \in Int /\ o.v[1] \in Int /\ o.x \in Int
    BY <1>1, Moduli
  <2> QED
    BY <1>1, <2>1
<1>4. (n - u) % P = w
  <2>1. PICK i \in Int, j \in Int : i = u + w /\ j = n - u
    OBVIOUS
  <2>2. Cong(P, n, i)
    BY <1>3, <2>1, CongBack, Moduli
  <2>3. Cong(P, n - u, i - u)
    BY <2>2, CongSum, CongSame, Moduli
  <2>4. i - u = w
    BY <2>1
  <2>5. Cong(P, j, w)
    BY <2>1, <2>3, <2>4
  <2>6. j % P = w
    BY <1>3, <2>5, RestIs, Moduli
  <2> QED
    BY <2>1, <2>6
<1>5. peer = o.v[1]
  BY <1>2, <1>3, <1>4
<1> HIDE DEF peer
<1>6. Reduced(o.v[0], peer) = o.x
  BY <1>1, <1>5, Reducing
<1>7. out = WordOf(o.x)
  BY <1>6
<1> HIDE DEF out
<1>8. o.x \in 0 .. M - 1
  BY <1>1, Moduli
<1>9. out \in Val("bits") /\ "bits" \in Doms
  BY <1>7, <1>8, WordOfNum, Vals DEF Doms
<1>10. \A z \in Sharing("bits", out, Marked(out), out) : Meant(z) /\ z.t = Marked(out)
  BY <1>9, MarkedNotes, SharingMeant
<1>11. \A z \in Sharing("bits", out, Marked(out), WordOf(o.x)) :
           Meant(z) /\ (mode = "sim" => Full(z.t))
  BY <1>7, <1>10, MarkedNotes
<1> QED
  BY <1>11 DEF out, peer

(***************************************************************************)
(* Operations on any domain.                                               *)
(***************************************************************************)
LEMMA AddMeant ==
    ASSUME NEW o, NEW k, Meant(o), Meant(k), k.dom = o.dom
    PROVE  LET f(u, w) == Plus(o.dom, u, w)
               z == Obj(o.dom, [p \in Party |-> f(o.v[p], k.v[p])], Lift2(f, o, k), f(o.x, k.x))
           IN  Meant(z) /\ (Full(o.t) /\ Full(k.t) => Full(z.t))
<1> DEFINE d == o.dom
           f(u, w) == Plus(o.dom, u, w)
           v == [p \in Party |-> Plus(d, o.v[p], k.v[p])]
           t == [p \in Party |-> {Plus(d, u, w) : u \in o.t[p], w \in k.t[p]}]
           z == Obj(o.dom, [p \in Party |-> f(o.v[p], k.v[p])], Lift2(f, o, k), f(o.x, k.x))
<1>1. z = Obj(d, v, t, Plus(d, o.x, k.x))
  BY DEF Lift2
<1>2. /\ t[0] = {Plus(d, u, w) : u \in o.t[0], w \in k.t[0]}
      /\ t[1] = {Plus(d, u, w) : u \in o.t[1], w \in k.t[1]}
  BY DEF Party
<1>3. v[0] = Plus(d, o.v[0], k.v[0]) /\ v[1] = Plus(d, o.v[1], k.v[1])
  BY DEF Party
<1>4. v = [p \in Party |-> v[p]]
  OBVIOUS
<1> HIDE DEF z, v, t
<1>5. /\ d \in Doms /\ o.v[0] \in Val(d) /\ o.v[1] \in Val(d) /\ o.x \in Val(d)
      /\ k.v[0] \in Val(d) /\ k.v[1] \in Val(d) /\ k.x \in Val(d)
      /\ Plus(d, o.v[0], o.v[1]) = o.x /\ Plus(d, k.v[0], k.v[1]) = k.x
      /\ Notes(o.t, o.x) /\ Notes(k.t, k.x)
  BY MeantShares
<1> HIDE DEF d
<1>6. v[0] \in Val(d) /\ v[1] \in Val(d) /\ Plus(d, o.x, k.x) \in Val(d)
  BY <1>3, <1>5, Joining
<1>7. v \in [Party -> Val(d)]
  BY <1>4, <1>6 DEF Party
<1>8. Plus(d, v[0], v[1]) = Plus(d, o.x, k.x)
  <2>1. PICK u \in Val(d), w \in Val(d), r \in Val(d), s \in Val(d) :
          u = o.v[0] /\ w = k.v[0] /\ r = o.v[1] /\ s = k.v[1]
    BY <1>5
  <2>2. Plus(d, Plus(d, u, w), Plus(d, r, s)) = Plus(d, Plus(d, u, r), Plus(d, w, s))
    BY <1>5, JoinSums
  <2> QED
    BY ONLY <1>3, <1>5, <2>1, <2>2
<1>9. Notes(t, Plus(d, o.x, k.x)) /\ (Full(o.t) /\ Full(k.t) => Full(t))
  BY <1>2, <1>5 DEF Notes, Full
<1>10. Meant(Obj(d, v, t, Plus(d, o.x, k.x))) /\ Obj(d, v, t, Plus(d, o.x, k.x)).t = t
  BY <1>5, <1>6, <1>7, <1>8, <1>9, MakeMeant
<1>11. Meant(z) /\ (Full(o.t) /\ Full(k.t) => Full(z.t))
  BY <1>1, <1>9, <1>10
<1> QED
  BY <1>11 DEF z

LEMMA SubMeant ==
    ASSUME NEW o, NEW k, Meant(o), Meant(k), k.dom = o.dom
    PROVE  LET f(u, w) == Minus(o.dom, u, w)
               z == Obj(o.dom, [p \in Party |-> f(o.v[p], k.v[p])], Lift2(f, o, k), f(o.x, k.x))
           IN  Meant(z) /\ (Full(o.t) /\ Full(k.t) => Full(z.t))
<1> DEFINE d == o.dom
           f(u, w) == Minus(o.dom, u, w)
           v == [p \in Party |-> Minus(d, o.v[p], k.v[p])]
           t == [p \in Party |-> {Minus(d, u, w) : u \in o.t[p], w \in k.t[p]}]
           z == Obj(o.dom, [p \in Party |-> f(o.v[p], k.v[p])], Lift2(f, o, k), f(o.x, k.x))
<1>1. z = Obj(d, v, t, Minus(d, o.x, k.x))
  BY DEF Lift2
<1>2. /\ t[0] = {Minus(d, u, w) : u \in o.t[0], w \in k.t[0]}
      /\ t[1] = {Minus(d, u, w) : u \in o.t[1], w \in k.t[1]}
  BY DEF Party
<1>3. v[0] = Minus(d, o.v[0], k.v[0]) /\ v[1] = Minus(d, o.v[1], k.v[1])
  BY DEF Party
<1>4. v = [p \in Party |-> v[p]]
  OBVIOUS
<1> HIDE DEF z, v, t
<1>5. /\ d \in Doms /\ o.v[0] \in Val(d) /\ o.v[1] \in Val(d) /\ o.x \in Val(d)
      /\ k.v[0] \in Val(d) /\ k.v[1] \in Val(d) /\ k.x \in Val(d)
      /\ Plus(d, o.v[0], o.v[1]) = o.x /\ Plus(d, k.v[0], k.v[1]) = k.x
      /\ Notes(o.t, o.x) /\ Notes(k.t, k.x)
  BY MeantShares
<1> HIDE DEF d
<1>6. v[0] \in Val(d) /\ v[1] \in Val(d) /\ Minus(d, o.x, k.x) \in Val(d)
  BY <1>3, <1>5, Joining
<1>7. v \in [Party -> Val(d)]
  BY <1>4, <1>6 DEF Party
<1>8. Plus(d, v[0], v[1]) = Minus(d, o.x, k.x)
  <2>1. PICK u \in Val(d), w \in Val(d), r \in Val(d), s \in Val(d) :
          u = o.v[0] /\ w = k.v[0] /\ r = o.v[1] /\ s = k.v[1]
    BY <1>5
  <2>2. Plus(d, Minus(d, u, w), Minus(d, r, s)) = Minus(d, Plus(d, u, r), Plus(d, w, s))
    BY <1>5, JoinSums
  <2> QED
    BY ONLY <1>3, <1>5, <2>1, <2>2
<1>9. Notes(t, Minus(d, o.x, k.x)) /\ (Full(o.t) /\ Full(k.t) => Full(t))
  BY <1>2, <1>5 DEF Notes, Full
<1>10. Meant(Obj(d, v, t, Minus(d, o.x, k.x))) /\ Obj(d, v, t, Minus(d, o.x, k.x)).t = t
  BY <1>5, <1>6, <1>7, <1>8, <1>9, MakeMeant
<1>11. Meant(z) /\ (Full(o.t) /\ Full(k.t) => Full(z.t))
  BY <1>1, <1>9, <1>10
<1> QED
  BY <1>11 DEF z

LEMMA MadeMeant ==
    ASSUME NEW d \in Doms, NEW z \in ShareOf(d) \cup ConstOf(d) \cup RandOf(d)
    PROVE  Meant(z) /\ (mode = "sim" => Full(z.t))
<1>1. CASE z \in ShareOf(d)
  <2>1. PICK held \in Party, w \in Val(d), r \in Val(d) :
          z = Obj(d, [p \in Party |-> IF p = held THEN Minus(d, w, r) ELSE r], Marked(w), w)
    BY <1>1 DEF ShareOf, Party
  <2> DEFINE v == [p \in Party |-> IF p = held THEN Minus(d, w, r) ELSE r]
  <2>2. Minus(d, w, r) \in Val(d) /\ Plus(d, r, Minus(d, w, r)) = w
        /\ Plus(d, Minus(d, w, r), r) = w
    BY Joining
  <2>3. v \in [Party -> Val(d)]
    BY <2>2
  <2>4. \/ v[0] = r /\ v[1] = Minus(d, w, r)
        \/ v[0] = Minus(d, w, r) /\ v[1] = r
    BY DEF Party
  <2>5. z = Obj(d, v, Marked(w), w)
    BY <2>1
  <2> HIDE DEF v
  <2>6. Plus(d, v[0], v[1]) = w
    BY <2>2, <2>4
  <2> QED
    BY <2>3, <2>5, <2>6, MarkedNotes, MakeMeant
<1>2. CASE z \in ConstOf(d)
  <2>1. PICK w \in Val(d) :
          z = Obj(d, [p \in Party |-> IF p = 0 THEN w ELSE None(d)], Marked(w), w)
    BY <1>2 DEF ConstOf
  <2> DEFINE v == [p \in Party |-> IF p = 0 THEN w ELSE None(d)]
  <2>2. v[0] = w /\ v[1] = None(d) /\ v = [p \in Party |-> v[p]]
    BY DEF Party
  <2>3. z = Obj(d, v, Marked(w), w)
    BY <2>1
  <2> HIDE DEF v
  <2>4. v \in [Party -> Val(d)]
    BY <2>2, Joining DEF Party
  <2>5. Plus(d, v[0], v[1]) = w
    BY <2>2, Joining
  <2> QED
    BY <2>3, <2>4, <2>5, MarkedNotes, MakeMeant
<1>3. CASE z \in RandOf(d)
  <2>1. PICK v \in [Party -> Val(d)] :
          z = Obj(d, v, Marked(Plus(d, v[0], v[1])), Plus(d, v[0], v[1]))
    BY <1>3 DEF RandOf
  <2>2. Plus(d, v[0], v[1]) \in Val(d)
    BY Joining DEF Party
  <2> QED
    BY <2>1, <2>2, MarkedNotes, MakeMeant
<1> QED
  BY <1>1, <1>2, <1>3

\* and_pairs: filling in an annotation that is there changes nothing.
LEMMA FilledMeant ==
    ASSUME NEW o, Meant(o), o.dom = "bits", Full(o.t)
    PROVE  Meant(Filled(o)) /\ Filled(o).dom = "bits" /\ Full(Filled(o).t)
<1>1. /\ o = Obj("bits", o.v, o.t, o.x) /\ o.v \in [Party -> Word] /\ o.x \in Word
      /\ Xor(o.v[0], o.v[1]) = o.x /\ Notes(o.t, o.x)
  BY BitShares, Vals DEF Meant
<1>2. o.t[0] = {o.x} /\ o.t[1] = {o.x} /\ Noted("bits", o.t) = o.x
  <2>1. o.t[0] = {o.x} /\ o.t[1] = {o.x}
    BY <1>1, NotesFull
  <2> QED
    BY <2>1, FullNotes
<1>3. PICK t : t = [p \in Party |-> {o.x}]
  OBVIOUS
<1>4. Filled(o) = [o EXCEPT !.t = t]
  BY <1>2, <1>3 DEF Filled
<1>5. PICK b, r, s : o = [dom |-> "bits", v |-> b, t |-> r, x |-> s]
  BY <1>1 DEF Obj
<1>6. [o EXCEPT !.t = t] = [dom |-> "bits", v |-> b, t |-> t, x |-> s]
  BY ONLY <1>5
<1>7. Filled(o) = Obj("bits", o.v, t, o.x)
  BY <1>4, <1>5, <1>6 DEF Obj
<1>8. t[0] = {o.x} /\ t[1] = {o.x}
  BY <1>3 DEF Party
<1>9. Notes(t, o.x) /\ Full(t)
  BY <1>8, FullNotes
<1> QED
  BY <1>1, <1>7, <1>9, BitsMeant

(***************************************************************************)
(* Products in GF(2^W).                                                    *)
(***************************************************************************)
LEMMA Least ==
    ASSUME NEW T, T \subseteq Nat, T # {}
    PROVE  \E n \in T : \A k \in T : n <= k
<1> DEFINE R == OpToRel(<, Nat)
<1>1. IsWellFoundedOn(R, Nat)
  BY NatLessThanWellFounded
<1>2. \A i \in Nat, j \in Nat : <<j, i>> \in R <=> j < i
  BY DEF OpToRel
<1>3. PICK n \in T : \A j \in T : ~ (<<j, n>> \in R)
  <2> HIDE DEF R
  <2> QED
    BY <1>1, WFMin
<1>4. ASSUME NEW k \in T PROVE n <= k
  <2>1. ~ (k < n)
    <3> HIDE DEF R
    <3> QED
      BY <1>2, <1>3
  <2> QED
    BY <2>1
<1> QED
  BY <1>4

Shifted(u) == [i \in Idx |-> IF i = 0 THEN 0 ELSE u[i - 1]]

LEMMA Indices == /\ W \in Nat \ {0} /\ 0 \in Idx /\ W - 1 \in Idx /\ Idx \subseteq Nat
                 /\ \A i \in Idx : i # 0 => i - 1 \in Idx
BY WordAssumption DEF Idx

LEMMA ShiftedWord ==
    ASSUME NEW u \in Word, NEW w \in Word
    PROVE  Shifted(u) \in Word /\ Shifted(Xor(u, w)) = Xor(Shifted(u), Shifted(w))
<1>1. ASSUME NEW r \in Word
      PROVE  /\ Shifted(r) \in Word
             /\ \A i \in Idx : Shifted(r)[i] = IF i = 0 THEN 0 ELSE r[i - 1]
  BY Indices, WordBits DEF Shifted, Word
<1>2. Xor(u, w) \in Word /\ Shifted(u) \in Word /\ Shifted(w) \in Word
  BY <1>1, XorWord
<1>3. Shifted(Xor(u, w)) \in Word /\ Xor(Shifted(u), Shifted(w)) \in Word
  BY <1>1, <1>2, XorWord
<1>4. ASSUME NEW i \in Idx
      PROVE  Shifted(Xor(u, w))[i] = Xor(Shifted(u), Shifted(w))[i]
  <2>1. Xor(Shifted(u), Shifted(w))[i] = IF Shifted(u)[i] = Shifted(w)[i] THEN 0 ELSE 1
    BY <1>2, XorWord
  <2>2. Shifted(Xor(u, w))[i] = IF i = 0 THEN 0 ELSE Xor(u, w)[i - 1]
    BY <1>1, <1>2
  <2>3. i # 0 => Xor(u, w)[i - 1] = IF u[i - 1] = w[i - 1] THEN 0 ELSE 1
    BY Indices, XorWord
  <2>4. Shifted(u)[i] = (IF i = 0 THEN 0 ELSE u[i - 1]) /\ Shifted(w)[i] = (IF i = 0 THEN 0 ELSE w[i - 1])
    BY <1>1
  <2> QED
    BY <2>1, <2>2, <2>3, <2>4
<1> QED
  BY <1>2, <1>3, <1>4, SameWord

\* Multiplying by x is linear, whatever the polynomial is.
LEMMA XtimeXor ==
    ASSUME NEW u \in Word, NEW w \in Word
    PROVE  Xtime(u) \in Word /\ Xtime(Xor(u, w)) = Xor(Xtime(u), Xtime(w))
<1>1. Poly \in Word
  BY DepthAssumption
<1>2. ASSUME NEW r \in Word
      PROVE  /\ Xtime(r) = IF r[W - 1] = 1 THEN Xor(Shifted(r), Poly) ELSE Shifted(r)
             /\ Xtime(r) \in Word /\ Shifted(r) \in Word
  <2>1. Shifted(r) \in Word
    BY ShiftedWord
  <2> QED
    BY <1>1, <2>1, XorWord DEF Xtime, Shifted
<1>3. Xor(u, w) \in Word /\ Xor(u, w)[W - 1] = IF u[W - 1] = w[W - 1] THEN 0 ELSE 1
  BY Indices, XorWord
<1>4. PICK b \in Word, d \in Word, e \in Word :
        /\ b = Shifted(u) /\ d = Shifted(w) /\ e = Xor(b, d) /\ e = Shifted(Xor(u, w))
  BY ShiftedWord, XorWord
<1>5. /\ Xor(Xor(b, Poly), d) = Xor(e, Poly) /\ Xor(b, Xor(d, Poly)) = Xor(e, Poly)
      /\ Xor(Xor(b, Poly), Xor(d, Poly)) = e
  <2>1. Xor(Xor(b, d), Poly) = Xor(b, Xor(d, Poly))
    BY <1>1, XorSwap
  <2>2. Xor(Xor(b, Poly), d) = Xor(b, Xor(Poly, d)) /\ Xor(Poly, d) = Xor(d, Poly)
    BY <1>1, XorSwap, XorLaws
  <2>3. Xor(Xor(b, Poly), Xor(d, Poly)) = Xor(Xor(b, d), Xor(Poly, Poly))
    BY <1>1, XorSwap
  <2>4. Xor(Poly, Poly) = Zero /\ Xor(e, Zero) = e
    BY <1>1, XorLaws
  <2> QED
    BY <1>4, <2>1, <2>2, <2>3, <2>4
<1>6. u[W - 1] \in {0, 1} /\ w[W - 1] \in {0, 1}
  BY Indices, WordBits
<1>7. Xtime(Xor(u, w)) = IF u[W - 1] = w[W - 1] THEN e ELSE Xor(e, Poly)
  BY <1>2, <1>3, <1>4
<1>8. /\ Xtime(u) = IF u[W - 1] = 1 THEN Xor(b, Poly) ELSE b
      /\ Xtime(w) = IF w[W - 1] = 1 THEN Xor(d, Poly) ELSE d
  BY <1>2, <1>4
<1> QED
  BY <1>2, <1>4, <1>5, <1>6, <1>7, <1>8

LEMMA XtimeZero == Xtime(Zero) = Zero
<1>1. Zero \in Word /\ Xor(Zero, Zero) = Zero /\ Xtime(Zero) \in Word
  BY ZeroWord, XorLaws, XtimeXor
<1>2. Xtime(Xor(Zero, Zero)) = Xor(Xtime(Zero), Xtime(Zero))
  BY <1>1, XtimeXor
<1>3. Xor(Xtime(Zero), Xtime(Zero)) = Zero
  BY <1>1, XorLaws
<1> QED
  BY <1>1, <1>2, <1>3

\* The two functions of the definition: the multiples x^j u, and the sums of
\* those that the bits of w choose.
IsPow(f, u) == f = [j \in Idx |-> IF j = 0 THEN u ELSE Xtime(f[j - 1])]
IsAcc(f, w, h) ==
    f = [j \in 0 .. W |-> IF j = 0 THEN Zero
                          ELSE IF w[j - 1] = 1 THEN Xor(f[j - 1], h[j - 1]) ELSE f[j - 1]]

LEMMA PowIs ==
    ASSUME NEW u, NEW f, IsPow(f, u)
    PROVE  /\ DOMAIN f = Idx /\ f[0] = u
           /\ \A j \in Idx : j # 0 => j - 1 \in Idx /\ f[j] = Xtime(f[j - 1])
<1>1. f = [j \in Idx |-> IF j = 0 THEN u ELSE Xtime(f[j - 1])]
  BY DEF IsPow
<1> QED
  BY ONLY <1>1, Indices

LEMMA AccIs ==
    ASSUME NEW w, NEW h, NEW f, IsAcc(f, w, h)
    PROVE  /\ DOMAIN f = 0 .. W /\ f[0] = Zero
           /\ \A j \in 0 .. W : j # 0 =>
                 /\ j - 1 \in Idx /\ j - 1 \in 0 .. W
                 /\ f[j] = IF w[j - 1] = 1 THEN Xor(f[j - 1], h[j - 1]) ELSE f[j - 1]
<1>1. f = [j \in 0 .. W |-> IF j = 0 THEN Zero
                          ELSE IF w[j - 1] = 1 THEN Xor(f[j - 1], h[j - 1]) ELSE f[j - 1]]
  BY DEF IsAcc
<1>2. W \in Nat /\ 0 \in 0 .. W /\ \A j \in 0 .. W : j # 0 => j - 1 \in Idx /\ j - 1 \in 0 .. W
  BY Indices DEF Idx
<1> QED
  BY ONLY <1>1, <1>2

LEMMA PowWord ==
    ASSUME NEW u \in Word, NEW f, IsPow(f, u)
    PROVE  f \in [Idx -> Word]
<1>1. \A j \in Idx : f[j] \in Word
  <2> SUFFICES ASSUME ~ \A j \in Idx : f[j] \in Word PROVE FALSE
    OBVIOUS
  <2> DEFINE T == {j \in Idx : f[j] \notin Word}
  <2>1. T \subseteq Nat /\ T # {}
    BY Indices
  <2>2. PICK n \in T : \A k \in T : n <= k
    <3> HIDE DEF T
    <3> QED
      BY <2>1, Least
  <2>3. n # 0 /\ n \in Idx /\ n \in Nat
    BY PowIs, Indices
  <2>4. n - 1 \in Idx /\ f[n] = Xtime(f[n - 1]) /\ n - 1 \notin T
    BY <2>2, <2>3, PowIs
  <2>5. f[n - 1] \in Word
    BY <2>4
  <2> QED
    BY <2>4, <2>5, XtimeXor
<1>2. f = [j \in Idx |-> f[j]]
  BY DEF IsPow
<1> QED
  BY <1>1, <1>2

LEMMA PowOnce ==
    ASSUME NEW u, NEW f, NEW h, IsPow(f, u), IsPow(h, u)
    PROVE  f = h
<1>1. \A j \in Idx : f[j] = h[j]
  <2> SUFFICES ASSUME ~ \A j \in Idx : f[j] = h[j] PROVE FALSE
    OBVIOUS
  <2> DEFINE T == {j \in Idx : f[j] # h[j]}
  <2>1. T \subseteq Nat /\ T # {}
    BY Indices
  <2>2. PICK n \in T : \A k \in T : n <= k
    <3> HIDE DEF T
    <3> QED
      BY <2>1, Least
  <2>3. n # 0 /\ n \in Idx /\ n \in Nat
    BY PowIs, Indices
  <2>4. n - 1 \in Idx /\ f[n] = Xtime(f[n - 1]) /\ h[n] = Xtime(h[n - 1]) /\ n - 1 \notin T
    BY <2>2, <2>3, PowIs
  <2> QED
    BY <2>2, <2>4
<1>2. f = [j \in Idx |-> f[j]] /\ h = [j \in Idx |-> h[j]]
  BY DEF IsPow
<1> QED
  BY <1>1, <1>2

LEMMA AccWord ==
    ASSUME NEW w, NEW h \in [Idx -> Word], NEW f, IsAcc(f, w, h)
    PROVE  f \in [0 .. W -> Word]
<1>1. \A j \in 0 .. W : f[j] \in Word
  <2> SUFFICES ASSUME ~ \A j \in 0 .. W : f[j] \in Word PROVE FALSE
    OBVIOUS
  <2> DEFINE T == {j \in 0 .. W : f[j] \notin Word}
  <2>1. T \subseteq Nat /\ T # {}
    OBVIOUS
  <2>2. PICK n \in T : \A k \in T : n <= k
    <3> HIDE DEF T
    <3> QED
      BY <2>1, Least
  <2>3. n # 0 /\ n \in 0 .. W /\ n \in Nat
    BY AccIs, ZeroWord
  <2>4. /\ n - 1 \in Idx /\ n - 1 \in 0 .. W /\ n - 1 \notin T
        /\ f[n] = IF w[n - 1] = 1 THEN Xor(f[n - 1], h[n - 1]) ELSE f[n - 1]
    BY <2>2, <2>3, AccIs
  <2>5. f[n - 1] \in Word /\ h[n - 1] \in Word
    BY <2>4
  <2> QED
    BY <2>4, <2>5, XorWord
<1>2. f = [j \in 0 .. W |-> f[j]]
  BY DEF IsAcc
<1> QED
  BY <1>1, <1>2

LEMMA AccOnce ==
    ASSUME NEW w, NEW h, NEW f, NEW e, IsAcc(f, w, h), IsAcc(e, w, h)
    PROVE  f = e
<1>1. \A j \in 0 .. W : f[j] = e[j]
  <2> SUFFICES ASSUME ~ \A j \in 0 .. W : f[j] = e[j] PROVE FALSE
    OBVIOUS
  <2> DEFINE T == {j \in 0 .. W : f[j] # e[j]}
  <2>1. T \subseteq Nat /\ T # {}
    OBVIOUS
  <2>2. PICK n \in T : \A k \in T : n <= k
    <3> HIDE DEF T
    <3> QED
      BY <2>1, Least
  <2>3. n # 0 /\ n \in 0 .. W /\ n \in Nat
    BY AccIs
  <2>4. /\ n - 1 \in Idx /\ n - 1 \in 0 .. W /\ n - 1 \notin T
        /\ f[n] = IF w[n - 1] = 1 THEN Xor(f[n - 1], h[n - 1]) ELSE f[n - 1]
        /\ e[n] = IF w[n - 1] = 1 THEN Xor(e[n - 1], h[n - 1]) ELSE e[n - 1]
    BY <2>2, <2>3, AccIs
  <2> QED
    BY <2>2, <2>4
<1>2. f = [j \in 0 .. W |-> f[j]] /\ e = [j \in 0 .. W |-> e[j]]
  BY DEF IsAcc
<1> QED
  BY <1>1, <1>2

\* Such functions there are: a shortest stretch without one would have one.
LEMMA PowThere ==
    ASSUME NEW u
    PROVE  \E f : IsPow(f, u)
<1> DEFINE Has(n) == \E f : f = [j \in 0 .. n |-> IF j = 0 THEN u ELSE Xtime(f[j - 1])]
<1>1. Has(0)
  <2>1. PICK f : f = [j \in 0 .. 0 |-> u]
    OBVIOUS
  <2>2. f = [j \in 0 .. 0 |-> IF j = 0 THEN u ELSE Xtime(f[j - 1])]
    BY <2>1
  <2> QED
    BY <2>2
<1>2. ASSUME NEW n \in Nat, Has(n) PROVE Has(n + 1)
  <2>1. PICK f : f = [j \in 0 .. n |-> IF j = 0 THEN u ELSE Xtime(f[j - 1])]
    BY <1>2
  <2>2. PICK h : h = [j \in 0 .. n + 1 |-> IF j \in 0 .. n THEN f[j] ELSE Xtime(f[j - 1])]
    OBVIOUS
  <2>3. \A j \in 0 .. n : h[j] = f[j] /\ f[j] = IF j = 0 THEN u ELSE Xtime(f[j - 1])
    BY ONLY <2>1, <2>2, n \in Nat
  <2>4. \A j \in 0 .. n + 1 : j # 0 => j - 1 \in 0 .. n
    OBVIOUS
  <2>5. \A j \in 0 .. n + 1 : h[j] = IF j = 0 THEN u ELSE Xtime(h[j - 1])
    <3> SUFFICES ASSUME NEW j \in 0 .. n + 1
                 PROVE  h[j] = IF j = 0 THEN u ELSE Xtime(h[j - 1])
      OBVIOUS
    <3>1. CASE j \in 0 .. n
      BY <2>3, <2>4, <3>1
    <3>2. CASE j \notin 0 .. n
      <4>1. h[j] = Xtime(f[j - 1]) /\ j # 0
        BY <2>2, <3>2
      <4> QED
        BY <2>3, <2>4, <4>1
    <3> QED
      BY <3>1, <3>2
  <2>6. h = [j \in 0 .. n + 1 |-> h[j]]
    BY <2>2
  <2>7. h = [j \in 0 .. n + 1 |-> IF j = 0 THEN u ELSE Xtime(h[j - 1])]
    BY ONLY <2>5, <2>6
  <2> QED
    BY <2>7
<1>3. \A n \in Nat : Has(n)
  <2> SUFFICES ASSUME ~ \A n \in Nat : Has(n) PROVE FALSE
    OBVIOUS
  <2> DEFINE T == {n \in Nat : ~ Has(n)}
  <2> HIDE DEF Has
  <2>1. T \subseteq Nat /\ T # {}
    OBVIOUS
  <2>2. PICK n \in T : \A k \in T : n <= k
    <3> HIDE DEF T
    <3> QED
      BY <2>1, Least
  <2>3. n \in Nat /\ n # 0 /\ n - 1 \in Nat /\ n - 1 \notin T
    BY <1>1, <2>2
  <2>4. Has((n - 1) + 1)
    BY <1>2, <2>3
  <2> QED
    BY <2>2, <2>3, <2>4
<1>4. Has(W - 1) /\ Idx = 0 .. W - 1
  BY <1>3, Indices DEF Idx
<1> QED
  BY <1>4 DEF IsPow

LEMMA AccThere ==
    ASSUME NEW w, NEW h
    PROVE  \E f : IsAcc(f, w, h)
<1> DEFINE Has(n) == \E f : f = [j \in 0 .. n |-> IF j = 0 THEN Zero
                          ELSE IF w[j - 1] = 1 THEN Xor(f[j - 1], h[j - 1]) ELSE f[j - 1]]
<1>1. Has(0)
  <2>1. PICK f : f = [j \in 0 .. 0 |-> Zero]
    OBVIOUS
  <2>2. f = [j \in 0 .. 0 |-> IF j = 0 THEN Zero
                          ELSE IF w[j - 1] = 1 THEN Xor(f[j - 1], h[j - 1]) ELSE f[j - 1]]
    BY <2>1
  <2> QED
    BY <2>2
<1>2. ASSUME NEW n \in Nat, Has(n) PROVE Has(n + 1)
  <2> DEFINE Step(f, j) == IF w[j - 1] = 1 THEN Xor(f[j - 1], h[j - 1]) ELSE f[j - 1]
  <2>1. PICK f : f = [j \in 0 .. n |-> IF j = 0 THEN Zero ELSE Step(f, j)]
    BY <1>2
  <2>2. PICK e : e = [j \in 0 .. n + 1 |-> IF j \in 0 .. n THEN f[j] ELSE Step(f, j)]
    OBVIOUS
  <2>3. ASSUME NEW j, NEW b, NEW d, b[j - 1] = d[j - 1] PROVE Step(b, j) = Step(d, j)
    BY <2>3
  <2> HIDE DEF Step
  <2>4. \A j \in 0 .. n : e[j] = f[j] /\ f[j] = IF j = 0 THEN Zero ELSE Step(f, j)
    BY ONLY <2>1, <2>2, n \in Nat
  <2>5. \A j \in 0 .. n + 1 : j # 0 => j - 1 \in 0 .. n
    OBVIOUS
  <2>6. \A j \in 0 .. n + 1 : e[j] = IF j = 0 THEN Zero ELSE Step(e, j)
    <3> SUFFICES ASSUME NEW j \in 0 .. n + 1
                 PROVE  e[j] = IF j = 0 THEN Zero ELSE Step(e, j)
      OBVIOUS
    <3>1. j # 0 => Step(e, j) = Step(f, j)
      <4>1. j # 0 => e[j - 1] = f[j - 1]
        BY <2>4, <2>5
      <4> QED
        BY <2>3, <4>1
    <3>2. CASE j \in 0 .. n
      BY <2>4, <3>1, <3>2
    <3>3. CASE j \notin 0 .. n
      <4>1. e[j] = Step(f, j) /\ j # 0
        BY <2>2, <3>3
      <4> QED
        BY <3>1, <4>1
    <3> QED
      BY <3>2, <3>3
  <2>7. e = [j \in 0 .. n + 1 |-> e[j]]
    BY <2>2
  <2>8. e = [j \in 0 .. n + 1 |-> IF j = 0 THEN Zero ELSE Step(e, j)]
    BY ONLY <2>6, <2>7
  <2> QED
    BY <2>8 DEF Step
<1>3. \A n \in Nat : Has(n)
  <2> SUFFICES ASSUME ~ \A n \in Nat : Has(n) PROVE FALSE
    OBVIOUS
  <2> DEFINE T == {n \in Nat : ~ Has(n)}
  <2> HIDE DEF Has
  <2>1. T \subseteq Nat /\ T # {}
    OBVIOUS
  <2>2. PICK n \in T : \A k \in T : n <= k
    <3> HIDE DEF T
    <3> QED
      BY <2>1, Least
  <2>3. n \in Nat /\ n # 0 /\ n - 1 \in Nat /\ n - 1 \notin T
    BY <1>1, <2>2
  <2>4. Has((n - 1) + 1)
    BY <1>2, <2>3
  <2> QED
    BY <2>2, <2>3, <2>4
<1>4. Has(W)
  BY <1>3, Indices
<1> QED
  BY <1>4 DEF IsAcc

\* What a product is: the last sum.
LEMMA GMulIs ==
    ASSUME NEW u \in Word, NEW w \in Word, NEW h, NEW f, IsPow(h, u), IsAcc(f, w, h)
    PROVE  GMul(u, w) = f[W]
<1> DEFINE pow == CHOOSE r : r = [j \in Idx |-> IF j = 0 THEN u ELSE Xtime(r[j - 1])]
           acc == CHOOSE r : r = [j \in 0 .. W |-> IF j = 0 THEN Zero
                             ELSE IF w[j - 1] = 1 THEN Xor(r[j - 1], pow[j - 1])
                             ELSE r[j - 1]]
<1>1. GMul(u, w) = acc[W]
  BY DEF GMul, Product
<1>2. IsPow(pow, u)
  BY PowThere DEF IsPow
<1>3. pow = h
  <2> HIDE DEF pow
  <2> QED
    BY <1>2, PowOnce
<1>4. IsAcc(acc, w, pow)
  <2>1. \E r : r = [j \in 0 .. W |-> IF j = 0 THEN Zero
                             ELSE IF w[j - 1] = 1 THEN Xor(r[j - 1], pow[j - 1])
                             ELSE r[j - 1]]
    <3> HIDE DEF pow, acc
    <3>1. PICK r : IsAcc(r, w, pow)
      BY AccThere
    <3> QED
      BY <3>1 DEF IsAcc
  <2> HIDE DEF pow
  <2> QED
    BY <2>1 DEF IsAcc
<1>5. acc = f
  <2> HIDE DEF pow, acc
  <2> QED
    BY <1>3, <1>4, AccOnce
<1> QED
  BY <1>1, <1>5

LEMMA GMulHas ==
    ASSUME NEW u \in Word, NEW w \in Word
    PROVE  /\ GMul(u, w) \in Word
           /\ \E h, f : /\ h \in [Idx -> Word] /\ f \in [0 .. W -> Word]
                        /\ IsPow(h, u) /\ IsAcc(f, w, h) /\ GMul(u, w) = f[W]
<1>1. PICK h : IsPow(h, u)
  BY PowThere
<1>2. PICK f : IsAcc(f, w, h)
  BY AccThere
<1>3. h \in [Idx -> Word]
  BY <1>1, PowWord
<1>4. f \in [0 .. W -> Word]
  BY <1>2, <1>3, AccWord
<1>5. GMul(u, w) = f[W]
  BY <1>1, <1>2, GMulIs
<1>6. f[W] \in Word
  BY <1>4, Indices
<1> QED
  BY <1>1, <1>2, <1>3, <1>4, <1>5, <1>6

LEMMA MakePow ==
    ASSUME NEW f, f = [j \in Idx |-> f[j]], NEW u, f[0] = u,
           \A j \in Idx : j # 0 => f[j] = Xtime(f[j - 1])
    PROVE  IsPow(f, u)
<1>1. \A j \in Idx : f[j] = IF j = 0 THEN u ELSE Xtime(f[j - 1])
  OBVIOUS
<1>2. f = [j \in Idx |-> IF j = 0 THEN u ELSE Xtime(f[j - 1])]
  BY <1>1
<1> QED
  BY <1>2 DEF IsPow

LEMMA MakeAcc ==
    ASSUME NEW f, f = [j \in 0 .. W |-> f[j]], NEW w, NEW h, f[0] = Zero,
           \A j \in 0 .. W : j # 0 =>
              f[j] = IF w[j - 1] = 1 THEN Xor(f[j - 1], h[j - 1]) ELSE f[j - 1]
    PROVE  IsAcc(f, w, h)
<1>1. \A j \in 0 .. W : f[j] = IF j = 0 THEN Zero
                               ELSE IF w[j - 1] = 1 THEN Xor(f[j - 1], h[j - 1]) ELSE f[j - 1]
  OBVIOUS
<1>2. f = [j \in 0 .. W |-> IF j = 0 THEN Zero
                            ELSE IF w[j - 1] = 1 THEN Xor(f[j - 1], h[j - 1]) ELSE f[j - 1]]
  BY <1>1
<1> QED
  BY <1>2 DEF IsAcc

\* A product is linear in its first factor, and commutes with times x there.
LEMMA GMulXor ==
    ASSUME NEW u \in Word, NEW b \in Word, NEW w \in Word
    PROVE  GMul(Xor(u, b), w) = Xor(GMul(u, w), GMul(b, w))
<1>1. PICK h, f : /\ h \in [Idx -> Word] /\ f \in [0 .. W -> Word]
                 /\ IsPow(h, u) /\ IsAcc(f, w, h) /\ GMul(u, w) = f[W]
  BY GMulHas
<1>2. PICK k, e : /\ k \in [Idx -> Word] /\ e \in [0 .. W -> Word]
                 /\ IsPow(k, b) /\ IsAcc(e, w, k) /\ GMul(b, w) = e[W]
  BY GMulHas
<1>3. PICK hh : hh = [j \in Idx |-> Xor(h[j], k[j])]
  OBVIOUS
<1>4. PICK ff : ff = [j \in 0 .. W |-> Xor(f[j], e[j])]
  OBVIOUS
<1>5. IsPow(hh, Xor(u, b))
  <2>1. hh[0] = Xor(u, b)
    BY <1>1, <1>2, <1>3, PowIs, Indices
  <2>2. ASSUME NEW j \in Idx, j # 0 PROVE hh[j] = Xtime(hh[j - 1])
    <3>1. j - 1 \in Idx /\ h[j] = Xtime(h[j - 1]) /\ k[j] = Xtime(k[j - 1])
      BY <1>1, <1>2, <2>2, PowIs
    <3>2. hh[j] = Xor(h[j], k[j]) /\ hh[j - 1] = Xor(h[j - 1], k[j - 1])
      BY <1>3, <3>1
    <3>3. h[j - 1] \in Word /\ k[j - 1] \in Word
      BY <1>1, <1>2, <3>1
    <3> QED
      BY <3>1, <3>2, <3>3, XtimeXor
  <2>3. hh = [j \in Idx |-> hh[j]]
    BY <1>3
  <2> QED
    BY <2>1, <2>2, <2>3, MakePow
<1>6. IsAcc(ff, w, hh)
  <2>1. ff[0] = Zero
    <3>1. f[0] = Zero /\ e[0] = Zero /\ 0 \in 0 .. W
      BY <1>1, <1>2, AccIs, Indices
    <3> QED
      BY <1>4, <3>1, ZeroWord, XorLaws
  <2>2. ASSUME NEW j \in 0 .. W, j # 0
        PROVE  ff[j] = IF w[j - 1] = 1 THEN Xor(ff[j - 1], hh[j - 1]) ELSE ff[j - 1]
    <3>1. /\ j - 1 \in Idx /\ j - 1 \in 0 .. W
          /\ f[j] = IF w[j - 1] = 1 THEN Xor(f[j - 1], h[j - 1]) ELSE f[j - 1]
          /\ e[j] = IF w[j - 1] = 1 THEN Xor(e[j - 1], k[j - 1]) ELSE e[j - 1]
      <4>1. IsAcc(f, w, h) /\ IsAcc(e, w, k)
        BY <1>1, <1>2
      <4>2. \A i \in 0 .. W : i # 0 =>
                 /\ i - 1 \in Idx /\ i - 1 \in 0 .. W
                 /\ f[i] = IF w[i - 1] = 1 THEN Xor(f[i - 1], h[i - 1]) ELSE f[i - 1]
        BY ONLY <4>1, AccIs
      <4>3. \A i \in 0 .. W : i # 0 =>
                 e[i] = IF w[i - 1] = 1 THEN Xor(e[i - 1], k[i - 1]) ELSE e[i - 1]
        BY ONLY <4>1, AccIs
      <4> QED
        BY <2>2, <4>2, <4>3
    <3>2. PICK r \in Word, s \in Word, m \in Word, n \in Word :
            r = f[j - 1] /\ s = h[j - 1] /\ m = e[j - 1] /\ n = k[j - 1]
      BY <1>1, <1>2, <3>1
    <3>3. Xor(Xor(r, s), Xor(m, n)) = Xor(Xor(r, m), Xor(s, n))
      BY XorSwap
    <3>4. ff[j] = Xor(f[j], e[j]) /\ ff[j - 1] = Xor(r, m) /\ hh[j - 1] = Xor(s, n)
      BY <1>3, <1>4, <3>1, <3>2
    <3> QED
      BY <3>1, <3>2, <3>3, <3>4
  <2>3. ff = [j \in 0 .. W |-> ff[j]]
    BY <1>4
  <2> QED
    BY <2>1, <2>2, <2>3, MakeAcc
<1>7. Xor(u, b) \in Word
  BY XorWord
<1>8. GMul(Xor(u, b), w) = ff[W]
  BY <1>5, <1>6, <1>7, GMulIs
<1>9. W \in 0 .. W
  BY Indices
<1> QED
  BY <1>1, <1>2, <1>4, <1>8, <1>9

LEMMA GMulXtime ==
    ASSUME NEW u \in Word, NEW w \in Word
    PROVE  GMul(Xtime(u), w) = Xtime(GMul(u, w))
<1>1. PICK h, f : /\ h \in [Idx -> Word] /\ f \in [0 .. W -> Word]
                 /\ IsPow(h, u) /\ IsAcc(f, w, h) /\ GMul(u, w) = f[W]
  BY GMulHas
<1>3. PICK hh : hh = [j \in Idx |-> Xtime(h[j])]
  OBVIOUS
<1>4. PICK ff : ff = [j \in 0 .. W |-> Xtime(f[j])]
  OBVIOUS
<1>5. IsPow(hh, Xtime(u))
  <2>1. hh[0] = Xtime(u)
    BY <1>1, <1>3, PowIs, Indices
  <2>2. ASSUME NEW j \in Idx, j # 0 PROVE hh[j] = Xtime(hh[j - 1])
    <3>1. j - 1 \in Idx /\ h[j] = Xtime(h[j - 1])
      BY <1>1, <2>2, PowIs
    <3> QED
      BY <1>3, <3>1
  <2>3. hh = [j \in Idx |-> hh[j]]
    BY <1>3
  <2> QED
    BY <2>1, <2>2, <2>3, MakePow
<1>6. IsAcc(ff, w, hh)
  <2>1. ff[0] = Zero
    <3>1. f[0] = Zero /\ 0 \in 0 .. W
      BY <1>1, AccIs, Indices
    <3> QED
      BY <1>4, <3>1, XtimeZero
  <2>2. ASSUME NEW j \in 0 .. W, j # 0
        PROVE  ff[j] = IF w[j - 1] = 1 THEN Xor(ff[j - 1], hh[j - 1]) ELSE ff[j - 1]
    <3>1. /\ j - 1 \in Idx /\ j - 1 \in 0 .. W
          /\ f[j] = IF w[j - 1] = 1 THEN Xor(f[j - 1], h[j - 1]) ELSE f[j - 1]
      <4>1. IsAcc(f, w, h)
        BY <1>1
      <4>2. \A i \in 0 .. W : i # 0 =>
                 /\ i - 1 \in Idx /\ i - 1 \in 0 .. W
                 /\ f[i] = IF w[i - 1] = 1 THEN Xor(f[i - 1], h[i - 1]) ELSE f[i - 1]
        BY ONLY <4>1, AccIs
      <4> QED
        BY <2>2, <4>2
    <3>2. PICK r \in Word, s \in Word : r = f[j - 1] /\ s = h[j - 1]
      BY <1>1, <3>1
    <3>3. Xtime(Xor(r, s)) = Xor(Xtime(r), Xtime(s))
      BY XtimeXor
    <3>4. ff[j] = Xtime(f[j]) /\ ff[j - 1] = Xtime(r) /\ hh[j - 1] = Xtime(s)
      BY <1>3, <1>4, <3>1, <3>2
    <3> QED
      BY <3>1, <3>2, <3>3, <3>4
  <2>3. ff = [j \in 0 .. W |-> ff[j]]
    BY <1>4
  <2> QED
    BY <2>1, <2>2, <2>3, MakeAcc
<1>7. Xtime(u) \in Word
  BY XtimeXor
<1>8. GMul(Xtime(u), w) = ff[W]
  BY <1>5, <1>6, <1>7, GMulIs
<1>9. W \in 0 .. W
  BY Indices
<1> QED
  BY <1>1, <1>4, <1>8, <1>9

Unit(j) == [i \in Idx |-> IF i = j THEN 1 ELSE 0]
Below(w, j) == [i \in Idx |-> IF i < j THEN w[i] ELSE 0]

LEMMA Units ==
    /\ \A j \in Idx : Unit(j) \in Word
    /\ Unit(0) = One /\ One \in Word
    /\ \A j \in Idx : j # 0 => Unit(j) = Xtime(Unit(j - 1))
<1>1. \A j \in Idx : Unit(j) \in Word
  BY DEF Unit, Word
<1>2. Unit(0) = One
  BY DEF Unit, One
<1>3. ASSUME NEW j \in Idx, j # 0 PROVE Unit(j) = Xtime(Unit(j - 1))
  <2>1. PICK k \in Idx : k = j - 1 /\ k # W - 1 /\ k \in Int /\ j = k + 1 /\ j \in Int
    BY <1>3, Indices DEF Idx
  <2>2. Unit(k)[W - 1] = 0
    BY <2>1, Indices DEF Unit
  <2>3. Xtime(Unit(k)) = Shifted(Unit(k))
    BY <2>2 DEF Xtime, Shifted
  <2>4. Shifted(Unit(k)) \in Word /\ Unit(j) \in Word
    BY <1>1, ShiftedWord
  <2>5. ASSUME NEW i \in Idx PROVE Shifted(Unit(k))[i] = Unit(j)[i]
    <3>1. Shifted(Unit(k))[i] = IF i = 0 THEN 0 ELSE Unit(k)[i - 1]
      BY DEF Shifted
    <3>2. i # 0 => i - 1 \in Idx /\ Unit(k)[i - 1] = IF i - 1 = k THEN 1 ELSE 0
      BY Indices DEF Unit
    <3>3. Unit(j)[i] = IF i = j THEN 1 ELSE 0
      BY DEF Unit
    <3>4. i \in Int
      BY Indices
    <3> QED
      BY <2>1, <1>3, <3>1, <3>2, <3>3, <3>4
  <2> QED
    BY <2>1, <2>3, <2>4, <2>5, SameWord
<1> QED
  BY <1>1, <1>2, <1>3, Indices

LEMMA Belows ==
    ASSUME NEW w \in Word
    PROVE  /\ \A j \in 0 .. W : Below(w, j) \in Word
           /\ Below(w, 0) = Zero /\ Below(w, W) = w
           /\ \A j \in 0 .. W : j # 0 =>
                 /\ j - 1 \in 0 .. W /\ j - 1 \in Idx
                 /\ Below(w, j) = IF w[j - 1] = 1 THEN Xor(Below(w, j - 1), Unit(j - 1))
                                  ELSE Below(w, j - 1)
<1>1. \A j \in 0 .. W : Below(w, j) \in Word
  BY WordBits DEF Below, Word
<1>2. /\ \A i \in Idx : i \in Nat /\ i < W /\ ~ i < 0
      /\ W \in 0 .. W /\ 0 \in 0 .. W
  BY Indices DEF Idx
<1>3. Below(w, 0) = Zero
  BY <1>2 DEF Below, Zero
<1>4. Below(w, W) = w
  <2>1. \A i \in Idx : Below(w, W)[i] = w[i]
    BY <1>2 DEF Below
  <2> QED
    BY <1>1, <1>2, <2>1, SameWord
<1>5. ASSUME NEW j \in 0 .. W, j # 0
      PROVE  /\ j - 1 \in 0 .. W /\ j - 1 \in Idx
             /\ Below(w, j) = IF w[j - 1] = 1 THEN Xor(Below(w, j - 1), Unit(j - 1))
                              ELSE Below(w, j - 1)
  <2>1. PICK k \in Idx : k = j - 1 /\ k \in 0 .. W /\ k \in Int /\ j = k + 1 /\ j \in Int
    BY <1>5, Indices DEF Idx
  <2>2. PICK b \in Word, d \in Word, e \in Word : b = Below(w, k) /\ d = Unit(k) /\ e = Below(w, j)
    BY <1>1, <2>1, Units
  <2>3. ASSUME NEW i \in Idx
        PROVE  /\ e[i] = IF w[k] = 1 THEN Xor(b, d)[i] ELSE b[i]
    <3>1. Xor(b, d)[i] = IF b[i] = d[i] THEN 0 ELSE 1
      BY XorWord
    <3>2. /\ b[i] = IF i < k THEN w[i] ELSE 0
          /\ d[i] = IF i = k THEN 1 ELSE 0
          /\ e[i] = IF i < j THEN w[i] ELSE 0
      BY <2>2 DEF Below, Unit
    <3>3. w[i] \in {0, 1} /\ w[k] \in {0, 1} /\ i \in Int
      BY <1>2, WordBits
    <3>4. CASE i < k
      BY <2>1, <3>1, <3>2, <3>3, <3>4
    <3>5. CASE i = k
      BY <2>1, <3>1, <3>2, <3>3, <3>5
    <3>6. CASE i > k
      BY <2>1, <3>1, <3>2, <3>3, <3>6
    <3> QED
      BY <2>1, <3>3, <3>4, <3>5, <3>6
  <2>4. Xor(b, d) \in Word
    BY XorWord
  <2>5. e = IF w[k] = 1 THEN Xor(b, d) ELSE b
    BY <2>3, <2>4, SameWord
  <2> QED
    BY <2>1, <2>2, <2>5
<1> QED
  BY <1>1, <1>3, <1>4, <1>5

\* A linear map that commutes with times x is the product with what it makes
\* of 1.  The laws of the product follow from it.
LEMMA Linear ==
    ASSUME NEW L \in [Word -> Word],
           \A u, w \in Word : L[Xor(u, w)] = Xor(L[u], L[w]),
           \A u \in Word : L[Xtime(u)] = Xtime(L[u]),
           NEW w \in Word
    PROVE  L[w] = GMul(L[One], w)
<1>1. L[Zero] = Zero
  <2>1. Zero \in Word /\ Xor(Zero, Zero) = Zero /\ L[Zero] \in Word
    BY ZeroWord, XorLaws
  <2>2. L[Zero] = Xor(L[Zero], L[Zero])
    BY <2>1
  <2>3. Xor(L[Zero], L[Zero]) = Zero
    BY <2>1, XorLaws
  <2> QED
    BY <2>2, <2>3
<1>2. PICK h : h = [j \in Idx |-> L[Unit(j)]]
  OBVIOUS
<1>3. PICK f : f = [j \in 0 .. W |-> L[Below(w, j)]]
  OBVIOUS
<1>4. IsPow(h, L[One])
  <2>1. h[0] = L[One]
    BY <1>2, Units, Indices
  <2>2. ASSUME NEW j \in Idx, j # 0 PROVE h[j] = Xtime(h[j - 1])
    <3>1. j - 1 \in Idx /\ Unit(j) = Xtime(Unit(j - 1))
      BY <2>2, Indices, Units
    <3>2. Unit(j - 1) \in Word
      BY <3>1, Units
    <3>3. h[j] = L[Unit(j)] /\ h[j - 1] = L[Unit(j - 1)]
      BY <1>2, <3>1
    <3> QED
      BY <3>1, <3>2, <3>3
  <2>3. h = [j \in Idx |-> h[j]]
    BY <1>2
  <2> QED
    BY <2>1, <2>2, <2>3, MakePow
<1>5. IsAcc(f, w, h)
  <2>1. f[0] = Zero
    BY <1>1, <1>3, Belows, Indices
  <2>2. ASSUME NEW j \in 0 .. W, j # 0
        PROVE  f[j] = IF w[j - 1] = 1 THEN Xor(f[j - 1], h[j - 1]) ELSE f[j - 1]
    <3>1. /\ j - 1 \in 0 .. W /\ j - 1 \in Idx
          /\ Below(w, j) = IF w[j - 1] = 1 THEN Xor(Below(w, j - 1), Unit(j - 1))
                           ELSE Below(w, j - 1)
      BY <2>2, Belows
    <3>2. PICK r \in Word, s \in Word : r = Below(w, j - 1) /\ s = Unit(j - 1)
      BY <3>1, Belows, Units
    <3>3. f[j] = L[Below(w, j)] /\ f[j - 1] = L[r] /\ h[j - 1] = L[s]
      BY <1>2, <1>3, <3>1, <3>2
    <3>4. L[Xor(r, s)] = Xor(L[r], L[s])
      OBVIOUS
    <3> QED
      BY <3>1, <3>2, <3>3, <3>4
  <2>3. f = [j \in 0 .. W |-> f[j]]
    BY <1>3
  <2> QED
    BY <2>1, <2>2, <2>3, MakeAcc
<1>6. L[One] \in Word
  BY Units
<1>7. GMul(L[One], w) = f[W]
  BY <1>4, <1>5, <1>6, GMulIs
<1>8. f[W] = L[w]
  BY <1>3, Belows, Indices
<1> QED
  BY <1>7, <1>8

LEMMA GMulOne ==
    ASSUME NEW w \in Word
    PROVE  GMul(One, w) = w
<1> DEFINE L == [u \in Word |-> u]
<1>1. L \in [Word -> Word] /\ \A u \in Word : L[u] = u
  OBVIOUS
<1> HIDE DEF L
<1>2. \A u, r \in Word : L[Xor(u, r)] = Xor(L[u], L[r])
  BY <1>1, XorWord
<1>3. \A u \in Word : L[Xtime(u)] = Xtime(L[u])
  BY <1>1, XtimeXor
<1>4. L[w] = GMul(L[One], w)
  BY <1>1, <1>2, <1>3, Linear
<1> QED
  BY <1>1, <1>4, Units

LEMMA GMulSwap ==
    ASSUME NEW u \in Word, NEW w \in Word
    PROVE  GMul(u, w) = GMul(w, u)
<1> DEFINE L == [r \in Word |-> GMul(r, w)]
<1>1. L \in [Word -> Word] /\ \A r \in Word : L[r] = GMul(r, w)
  BY GMulHas
<1> HIDE DEF L
<1>2. \A r, s \in Word : L[Xor(r, s)] = Xor(L[r], L[s])
  BY <1>1, XorWord, GMulXor
<1>3. \A r \in Word : L[Xtime(r)] = Xtime(L[r])
  BY <1>1, XtimeXor, GMulXtime
<1>4. L[u] = GMul(L[One], u)
  BY <1>1, <1>2, <1>3, Linear
<1>5. L[One] = w
  BY <1>1, Units, GMulOne
<1> QED
  BY <1>1, <1>4, <1>5

LEMMA GMulRegroup ==
    ASSUME NEW u \in Word, NEW w \in Word, NEW b \in Word
    PROVE  GMul(GMul(u, w), b) = GMul(u, GMul(w, b))
<1> DEFINE L == [r \in Word |-> GMul(GMul(r, w), b)]
<1>1. L \in [Word -> Word] /\ \A r \in Word : L[r] = GMul(GMul(r, w), b)
  BY GMulHas
<1> HIDE DEF L
<1>2. ASSUME NEW r \in Word, NEW s \in Word PROVE L[Xor(r, s)] = Xor(L[r], L[s])
  <2>1. Xor(r, s) \in Word /\ GMul(r, w) \in Word /\ GMul(s, w) \in Word
    BY XorWord, GMulHas
  <2>2. GMul(Xor(r, s), w) = Xor(GMul(r, w), GMul(s, w))
    BY GMulXor
  <2>3. GMul(Xor(GMul(r, w), GMul(s, w)), b) = Xor(GMul(GMul(r, w), b), GMul(GMul(s, w), b))
    BY <2>1, GMulXor
  <2> QED
    BY <1>1, <2>1, <2>2, <2>3
<1>3. ASSUME NEW r \in Word PROVE L[Xtime(r)] = Xtime(L[r])
  <2>1. Xtime(r) \in Word /\ GMul(r, w) \in Word
    BY XtimeXor, GMulHas
  <2>2. GMul(Xtime(r), w) = Xtime(GMul(r, w))
    BY GMulXtime
  <2>3. GMul(Xtime(GMul(r, w)), b) = Xtime(GMul(GMul(r, w), b))
    BY <2>1, GMulXtime
  <2> QED
    BY <1>1, <2>1, <2>2, <2>3
<1>4. L[u] = GMul(L[One], u)
  BY <1>1, <1>2, <1>3, Linear
<1>5. L[One] = GMul(w, b)
  BY <1>1, Units, GMulOne
<1>6. GMul(GMul(w, b), u) = GMul(u, GMul(w, b))
  BY GMulHas, GMulSwap
<1> QED
  BY <1>1, <1>4, <1>5, <1>6

LEMMA GMulZero ==
    ASSUME NEW u \in Word
    PROVE  GMul(Zero, u) = Zero /\ GMul(u, Zero) = Zero
<1>1. Zero \in Word /\ Xor(Zero, Zero) = Zero /\ GMul(Zero, u) \in Word
  BY ZeroWord, XorLaws, GMulHas
<1>2. GMul(Xor(Zero, Zero), u) = Xor(GMul(Zero, u), GMul(Zero, u))
  BY <1>1, GMulXor
<1>3. Xor(GMul(Zero, u), GMul(Zero, u)) = Zero
  BY <1>1, XorLaws
<1> QED
  BY <1>1, <1>2, <1>3, GMulSwap

\* The inverse of a word that is not 0, and what the equation of GInverse
\* has for solutions.
LEMMA GInverseIs ==
    ASSUME NEW u \in Word, u # Zero
    PROVE  /\ GInverse[u] \in Word /\ GMul(u, GInverse[u]) = One
           /\ \A w \in Word : GMul(u, w) = One => w = GInverse[u]
<1>1. PICK b \in Word : GMul(u, b) = One
  BY GfAssumption
<1>2. ASSUME NEW w \in Word, GMul(GMul(u, w), u) = u PROVE w = b
  <2>1. GMul(u, w) \in Word
    BY GMulHas
  <2>2. GMul(GMul(GMul(u, w), u), b) = GMul(GMul(u, w), GMul(u, b))
    BY <2>1, GMulRegroup
  <2>3. GMul(GMul(u, w), One) = GMul(u, w)
    BY <2>1, Units, GMulOne, GMulSwap
  <2>4. GMul(u, w) = One
    BY <1>1, <1>2, <2>2, <2>3
  <2>5. GMul(GMul(b, u), w) = GMul(b, GMul(u, w))
    BY GMulRegroup
  <2>6. GMul(b, u) = One
    BY <1>1, GMulSwap
  <2>7. GMul(b, One) = b
    BY Units, GMulOne, GMulSwap
  <2> QED
    BY <2>4, <2>5, <2>6, <2>7, GMulOne
<1>3. ASSUME NEW w \in Word, GMul(u, w) = One PROVE GMul(GMul(u, w), u) = u
  BY <1>3, GMulOne
<1>4. GInverse[u] = CHOOSE w \in Word : GMul(GMul(u, w), u) = u
  BY DEF GInverse
<1>5. GInverse[u] \in Word /\ GMul(GMul(u, GInverse[u]), u) = u
  BY <1>1, <1>3, <1>4
<1>6. GInverse[u] = b
  BY <1>2, <1>5
<1> QED
  BY <1>1, <1>2, <1>3, <1>6

\* The mask times the inverse of the masked value is the inverse of the value.
LEMMA GInverseOfProduct ==
    ASSUME NEW u \in Word, NEW n \in Word, u # Zero => n # Zero
    PROVE  GInverse[GMul(u, n)] \in Word /\ GMul(n, GInverse[GMul(u, n)]) = GInverse[u]
<1>1. CASE u = Zero
  <2>1. GMul(u, n) = Zero /\ GInverse[Zero] = Zero
    BY <1>1, GMulZero, ZeroWord DEF GInverse
  <2> QED
    BY <1>1, <2>1, GMulZero, ZeroWord
<1>2. CASE u # Zero
  <2>1. PICK b \in Word, d \in Word : GMul(u, b) = One /\ GMul(n, d) = One
    BY <1>2, GfAssumption
  <2>2. GMul(u, n) \in Word /\ GMul(b, d) \in Word /\ One \in Word
    BY GMulHas, Units
  <2>3. GMul(u, n) # Zero
    <3> SUFFICES ASSUME GMul(u, n) = Zero PROVE FALSE
      OBVIOUS
    <3>1. GMul(GMul(u, n), d) = GMul(u, GMul(n, d))
      BY <2>1, GMulRegroup
    <3>2. GMul(Zero, d) = Zero
      BY GMulZero
    <3>3. GMul(u, One) = u
      BY <2>2, GMulOne, GMulSwap
    <3> QED
      BY <1>2, <2>1, <3>1, <3>2, <3>3
  <2>4. PICK e \in Word : e = GInverse[GMul(u, n)] /\ GMul(GMul(u, n), e) = One
    BY <2>2, <2>3, GInverseIs
  <2>5. GMul(u, GMul(n, e)) = One
    BY <2>4, GMulRegroup
  <2>6. GMul(n, e) \in Word
    BY GMulHas
  <2>7. GMul(n, e) = GInverse[u]
    BY <1>2, <2>5, <2>6, GInverseIs
  <2> QED
    BY <2>4, <2>7
<1> QED
  BY <1>1, <1>2

LEMMA GfMulMeant ==
    ASSUME NEW o, NEW k, Meant(o), Meant(k), o.dom = "bits", k.dom = "bits",
           ~ Unannotated(o, k), NEW z \in Circuit("bits", GMul, o, k)
    PROVE  Meant(z) /\ (mode = "sim" => Full(z.t))
<1> DEFINE t == Lift2(GMul, o, k)
<1>1. o.x \in Word /\ k.x \in Word /\ Join(o) = o.x /\ Join(k) = k.x
  BY BitShares
<1>2. /\ t[0] = {GMul(u, w) : u \in o.t[0], w \in k.t[0]}
      /\ t[1] = {GMul(u, w) : u \in o.t[1], w \in k.t[1]}
  BY DEF Lift2, Party
<1>3. mode = "sim" => t[0] = {GMul(o.x, k.x)} /\ t[1] = {GMul(o.x, k.x)}
  <2> HIDE DEF t
  <2> QED
    BY <1>2, FullPair
<1>4. z \in IF mode = "sim" THEN Sharing("bits", Noted("bits", t), t, GMul(o.x, k.x))
                            ELSE Sharing("bits", GMul(o.x, k.x), Bare, GMul(o.x, k.x))
  BY <1>1 DEF Circuit
<1>5. GMul(o.x, k.x) \in Val("bits") /\ "bits" \in Doms
  BY <1>1, GMulHas, Vals DEF Doms
<1> HIDE DEF t
<1> QED
  BY <1>3, <1>4, <1>5, CircuitMeant

LEMMA GfInvMeant ==
    ASSUME NEW o, Meant(o), o.dom = "bits",
           NEW r \in [Party -> Word], o.x # Zero => Xor(r[0], r[1]) # Zero
    PROVE  LET u(n) == GInverse[GMul(Join(o), n)]
               z == Obj("bits", [p \in Party |-> GMul(r[p], u(Xor(r[0], r[1])))],
                        Marked(GMul(Xor(r[0], r[1]), u(Xor(r[0], r[1])))), GInverse[o.x])
           IN  Meant(z) /\ (mode = "sim" => Full(z.t))
<1>1. o.x \in Word /\ Join(o) = o.x
  BY BitShares
<1>2. PICK b \in Word, d \in Word, n \in Word : b = r[0] /\ d = r[1] /\ n = Xor(r[0], r[1])
  BY XorWord DEF Party
<1>3. PICK k \in Word : k = GInverse[GMul(o.x, n)] /\ GMul(n, k) = GInverse[o.x]
  BY <1>1, <1>2, GInverseOfProduct
<1>4. GMul(n, k) = Xor(GMul(b, k), GMul(d, k))
  BY <1>2, GMulXor
<1> DEFINE v == [p \in Party |-> GMul(r[p], k)]
           u(m) == GInverse[GMul(Join(o), m)]
           z == Obj("bits", [p \in Party |-> GMul(r[p], u(Xor(r[0], r[1])))],
                    Marked(GMul(Xor(r[0], r[1]), u(Xor(r[0], r[1])))), GInverse[o.x])
<1>5. v[0] = GMul(b, k) /\ v[1] = GMul(d, k) /\ v \in [Party -> Word]
  <2>1. v[0] = GMul(b, k) /\ v[1] = GMul(d, k) /\ v = [p \in Party |-> v[p]]
    BY <1>2 DEF Party
  <2> HIDE DEF v
  <2>2. v[0] \in Word /\ v[1] \in Word
    BY <2>1, GMulHas
  <2> QED
    BY <2>1, <2>2 DEF Party
<1>6. z = Obj("bits", v, Marked(GMul(n, k)), GMul(n, k))
  BY <1>1, <1>2, <1>3
<1> HIDE DEF v, z
<1>7. GMul(n, k) \in Word
  BY GMulHas
<1>8. Meant(z) /\ z.t = Marked(GMul(n, k))
  BY <1>4, <1>5, <1>6, <1>7, MarkedNotes, BitsMeant
<1>9. Meant(z) /\ (mode = "sim" => Full(z.t))
  BY <1>8, MarkedNotes
<1> QED
  BY <1>9 DEF z

(***************************************************************************)
(* The invariant.                                                          *)
(***************************************************************************)
EngInv ==
    /\ mode \in {"ot", "sim"} /\ stack \in Seq({"ot", "sim"})
    /\ fate \in {"runs", "raised", "mixed"}
    /\ reg = [i \in Reg |-> reg[i]]
    /\ fate # "mixed" => \A i \in Reg : Meant(reg[i])
    /\ alone => /\ mode = "sim" /\ stack = <<>> /\ fate = "runs"
                /\ \A i \in Reg : Full(reg[i].t)

LEMMA BecomesKeeps ==
    ASSUME EngInv, fate = "runs", NEW i \in Reg, NEW z, Becomes(i, z), UNCHANGED fate,
           Meant(z), alone => Full(z.t)
    PROVE  EngInv'
<1>1. /\ reg' = [reg EXCEPT ![i] = z] /\ mode' = mode /\ stack' = stack /\ alone' = alone
      /\ fate' = "runs" /\ reg = [j \in Reg |-> reg[j]]
  BY DEF Becomes, EngInv
<1>2. reg' = [j \in Reg |-> reg'[j]]
  BY <1>1
<1>3. \A j \in Reg : reg'[j] = IF j = i THEN z ELSE reg[j]
  BY <1>1
<1>4. \A j \in Reg : Meant(reg'[j])
  BY <1>3 DEF EngInv
<1>5. alone => \A j \in Reg : Full(reg'[j].t)
  BY <1>3 DEF EngInv
<1> QED
  BY <1>1, <1>2, <1>4, <1>5 DEF EngInv

LEMMA NeedsKeeps ==
    ASSUME EngInv, fate = "runs", NEW i \in Reg, NEW o, NEW k, NEW results,
           alone => Full(o.t) /\ Full(k.t), Needs(i, o, k, results),
           ~ Unannotated(o, k) => \A z \in results : Meant(z) /\ (alone => Full(z.t))
    PROVE  EngInv'
<1>1. CASE Unannotated(o, k)
  <2>1. fate' = "raised" /\ UNCHANGED <<mode, stack, reg, alone>> /\ ~ alone
    BY <1>1, LacksFull DEF Needs, Unannotated
  <2> QED
    BY <2>1 DEF EngInv
<1>2. CASE ~ Unannotated(o, k)
  <2>1. PICK z \in results : Becomes(i, z) /\ UNCHANGED fate
    BY <1>2 DEF Needs, Gets
  <2> QED
    BY <1>2, <2>1, BecomesKeeps
<1> QED
  BY <1>1, <1>2

LEMMA TrustsKeeps ==
    ASSUME EngInv, fate = "runs", NEW i \in Reg, NEW o, NEW k, NEW results,
           alone => Full(o.t) /\ Full(k.t), Trusts(i, o, k, results),
           ~ Unannotated(o, k) => \A z \in results : Meant(z) /\ (alone => Full(z.t))
    PROVE  EngInv'
<1>1. PICK z \in results : Becomes(i, z)
  BY DEF Trusts
<1>2. CASE Unannotated(o, k)
  <2>1. fate' = "mixed" /\ ~ alone
    BY <1>2, LacksFull DEF Trusts, Unannotated
  <2>2. reg' = [reg EXCEPT ![i] = z] /\ mode' = mode /\ stack' = stack /\ alone' = alone
        /\ reg = [j \in Reg |-> reg[j]]
    BY <1>1 DEF Becomes, EngInv
  <2>3. reg' = [j \in Reg |-> reg'[j]]
    BY <2>2
  <2> QED
    BY <2>1, <2>2, <2>3 DEF EngInv
<1>3. CASE ~ Unannotated(o, k)
  <2>1. UNCHANGED fate
    BY <1>3 DEF Trusts
  <2> QED
    BY <1>1, <1>3, <2>1, BecomesKeeps
<1> QED
  BY <1>2, <1>3

\* What an operation finds in a register.
LEMMA Found ==
    ASSUME EngInv, fate = "runs", NEW i \in Reg
    PROVE  /\ Meant(reg[i]) /\ (alone => Full(reg[i].t)) /\ (alone => mode = "sim")
BY DEF EngInv

LEMMA EngInvInit ==
    ASSUME Init
    PROVE  EngInv
<1> DEFINE z == Obj("bits", [p \in Party |-> Zero], Marked(Zero), Zero)
           v == [p \in Party |-> Zero]
<1>1. v \in [Party -> Word] /\ v[0] = Zero /\ v[1] = Zero
  BY ZeroWord DEF Party
<1>2. Zero \in Word /\ Xor(Zero, Zero) = Zero
  BY ZeroWord, XorLaws
<1>3. z = Obj("bits", v, Marked(Zero), Zero)
  OBVIOUS
<1> HIDE DEF v, z
<1>4. Meant(z) /\ z.t = Marked(Zero)
  BY <1>1, <1>2, <1>3, MarkedNotes, BitsMeant
<1>5. reg = [i \in Reg |-> z] /\ stack = <<>> /\ fate = "runs" /\ (alone = (mode = "sim"))
      /\ mode \in {"ot", "sim"}
  BY DEF Init, z
<1>6. \A i \in Reg : reg[i] = z
  BY <1>5
<1>7. reg = [i \in Reg |-> reg[i]]
  BY <1>5
<1>8. mode = "sim" => Full(z.t)
  BY <1>4, MarkedNotes
<1>9. stack \in Seq({"ot", "sim"})
  BY <1>5
<1> QED
  BY <1>4, <1>5, <1>6, <1>7, <1>8, <1>9 DEF EngInv

(***************************************************************************)
(* The operations keep the invariant.                                      *)
(***************************************************************************)
\* An operation that cannot fail keeps it if its result is what it is meant
\* to be, and is annotated where the operands are.
LEMMA GetsKeeps ==
    ASSUME EngInv, fate = "runs", NEW i \in Reg, NEW z, Gets(i, z),
           Meant(z), alone => Full(z.t)
    PROVE  EngInv'
BY BecomesKeeps DEF Gets

LEMMA MakeKeeps ==
    ASSUME EngInv, NEW i \in Reg, NEW d \in Doms, Make(i, d)
    PROVE  EngInv'
<1>1. PICK z \in ShareOf(d) \cup ConstOf(d) \cup RandOf(d) : Gets(i, z)
  BY DEF Make
<1>2. fate = "runs" /\ (alone => mode = "sim")
  BY DEF Make, EngInv
<1>3. Meant(z) /\ (mode = "sim" => Full(z.t))
  BY MadeMeant
<1> QED
  BY <1>1, <1>2, <1>3, GetsKeeps

LEMMA AddKeeps ==
    ASSUME EngInv, NEW i \in Reg, NEW j \in Reg, Add(i, j)
    PROVE  EngInv'
<1> DEFINE f(u, w) == Plus(reg[i].dom, u, w)
           z == Obj(reg[i].dom, [p \in Party |-> f(reg[i].v[p], reg[j].v[p])],
                    Lift2(f, reg[i], reg[j]), f(reg[i].x, reg[j].x))
<1>1. fate = "runs" /\ reg[j].dom = reg[i].dom /\ Gets(i, z)
  BY DEF Add, On
<1>2. Meant(reg[i]) /\ Meant(reg[j]) /\ (alone => Full(reg[i].t) /\ Full(reg[j].t))
  BY <1>1, Found
<1>3. Meant(z) /\ (Full(reg[i].t) /\ Full(reg[j].t) => Full(z.t))
  BY <1>1, <1>2, AddMeant
<1> HIDE DEF z
<1> QED
  BY <1>1, <1>2, <1>3, GetsKeeps

LEMMA SubKeeps ==
    ASSUME EngInv, NEW i \in Reg, NEW j \in Reg, Sub(i, j)
    PROVE  EngInv'
<1> DEFINE f(u, w) == Minus(reg[i].dom, u, w)
           z == Obj(reg[i].dom, [p \in Party |-> f(reg[i].v[p], reg[j].v[p])],
                    Lift2(f, reg[i], reg[j]), f(reg[i].x, reg[j].x))
<1>1. fate = "runs" /\ reg[j].dom = reg[i].dom /\ Gets(i, z)
  BY DEF Sub, On
<1>2. Meant(reg[i]) /\ Meant(reg[j]) /\ (alone => Full(reg[i].t) /\ Full(reg[j].t))
  BY <1>1, Found
<1>3. Meant(z) /\ (Full(reg[i].t) /\ Full(reg[j].t) => Full(z.t))
  BY <1>1, <1>2, SubMeant
<1> HIDE DEF z
<1> QED
  BY <1>1, <1>2, <1>3, GetsKeeps

LEMMA NotKeeps ==
    ASSUME EngInv, NEW i \in Reg, NotBits(i)
    PROVE  EngInv'
<1> DEFINE o == reg[i]
           z == [o EXCEPT !.v[0] = Not(@), !.t = Lift(Not, o), !.x = Not(@)]
<1>1. fate = "runs" /\ reg[i].dom = "bits" /\ Gets(i, z)
  BY DEF NotBits, On
<1>2. Meant(reg[i]) /\ (alone => Full(reg[i].t))
  BY <1>1, Found
<1>3. Meant(z) /\ (Full(reg[i].t) => Full(z.t))
  BY <1>1, <1>2, NotMeant
<1> HIDE DEF z
<1> QED
  BY <1>1, <1>2, <1>3, GetsKeeps

LEMMA PlaceKeeps ==
    ASSUME EngInv, NEW i \in Reg, Place(i)
    PROVE  EngInv'
<1>1. PICK m \in Places : Gets(i, PickOf(m, reg[i]))
  BY DEF Place
<1>2. fate = "runs" /\ reg[i].dom = "bits"
  BY DEF Place, On
<1>3. Meant(reg[i]) /\ (alone => Full(reg[i].t))
  BY <1>2, Found
<1>4. Meant(PickOf(m, reg[i])) /\ (Full(reg[i].t) => Full(PickOf(m, reg[i]).t))
  BY <1>2, <1>3, PickMeant
<1> QED
  BY <1>1, <1>2, <1>3, <1>4, GetsKeeps

LEMMA ConcatKeeps ==
    ASSUME EngInv, NEW i \in Reg, NEW j \in Reg, Concat(i, j)
    PROVE  EngInv'
<1>1. PICK n \in 1 .. W - 1 :
         LET f(hi, lo) == [b \in Idx |-> IF b < n THEN lo[b] ELSE hi[b - n]]
         IN  Gets(i, Obj("bits", [p \in Party |-> f(reg[i].v[p], reg[j].v[p])],
                         Lift2(f, reg[i], reg[j]), f(reg[i].x, reg[j].x)))
  BY DEF Concat
<1> DEFINE f(hi, lo) == [b \in Idx |-> IF b < n THEN lo[b] ELSE hi[b - n]]
           z == Obj("bits", [p \in Party |-> f(reg[i].v[p], reg[j].v[p])],
                    Lift2(f, reg[i], reg[j]), f(reg[i].x, reg[j].x))
<1>2. fate = "runs" /\ reg[i].dom = "bits" /\ reg[j].dom = "bits"
  BY DEF Concat, On
<1>3. Meant(reg[i]) /\ Meant(reg[j]) /\ (alone => Full(reg[i].t) /\ Full(reg[j].t))
  BY <1>2, Found
<1>4. Meant(z) /\ (Full(reg[i].t) /\ Full(reg[j].t) => Full(z.t))
  BY <1>2, <1>3, ConcatMeant
<1>5. Gets(i, z)
  BY <1>1
<1> HIDE DEF z
<1> QED
  BY <1>2, <1>3, <1>4, <1>5, GetsKeeps

LEMMA FMulPubKeeps ==
    ASSUME EngInv, NEW i \in Reg, FMulPub(i)
    PROVE  EngInv'
<1>1. PICK n \in 0 .. P - 1 :
         LET f(u) == (u * n) % P
         IN  Gets(i, Obj("fld", [p \in Party |-> f(reg[i].v[p])],
                         Lift(f, reg[i]), f(reg[i].x)))
  BY DEF FMulPub
<1> DEFINE f(u) == (u * n) % P
           z == Obj("fld", [p \in Party |-> f(reg[i].v[p])], Lift(f, reg[i]), f(reg[i].x))
<1>2. fate = "runs" /\ reg[i].dom = "fld"
  BY DEF FMulPub, On
<1>3. Meant(reg[i]) /\ (alone => Full(reg[i].t))
  BY <1>2, Found
<1>4. Meant(z) /\ (Full(reg[i].t) => Full(z.t))
  BY <1>2, <1>3, FMulPubMeant
<1>5. Gets(i, z)
  BY <1>1
<1> HIDE DEF z
<1> QED
  BY <1>2, <1>3, <1>4, <1>5, GetsKeeps

LEMMA AndKeeps ==
    ASSUME EngInv, NEW i \in Reg, NEW j \in Reg, AndBits(i, j)
    PROVE  EngInv'
<1>1. fate = "runs" /\ reg[i].dom = "bits" /\ reg[j].dom = "bits"
      /\ Needs(i, reg[i], reg[j], AndOf(reg[i], reg[j]))
  BY DEF AndBits, On
<1>2. /\ Meant(reg[i]) /\ Meant(reg[j]) /\ (alone => mode = "sim")
      /\ (alone => Full(reg[i].t) /\ Full(reg[j].t))
  BY <1>1, Found
<1>3. ~ Unannotated(reg[i], reg[j]) =>
        \A z \in AndOf(reg[i], reg[j]) : Meant(z) /\ (alone => Full(z.t))
  BY <1>1, <1>2, AndMeant
<1> QED
  BY <1>1, <1>2, <1>3, NeedsKeeps

LEMMA AddBitsKeeps ==
    ASSUME EngInv, NEW i \in Reg, NEW j \in Reg, AddBits(i, j)
    PROVE  EngInv'
<1>1. fate = "runs" /\ reg[i].dom = "bits" /\ reg[j].dom = "bits"
      /\ Needs(i, reg[i], reg[j], Circuit("bits", Sum, reg[i], reg[j]))
  BY DEF AddBits, On
<1>2. /\ Meant(reg[i]) /\ Meant(reg[j]) /\ (alone => mode = "sim")
      /\ (alone => Full(reg[i].t) /\ Full(reg[j].t))
  BY <1>1, Found
<1>3. ~ Unannotated(reg[i], reg[j]) =>
        \A z \in Circuit("bits", Sum, reg[i], reg[j]) : Meant(z) /\ (alone => Full(z.t))
  BY <1>1, <1>2, SumMeant
<1> QED
  BY <1>1, <1>2, <1>3, NeedsKeeps

LEMMA GfMulKeeps ==
    ASSUME EngInv, NEW i \in Reg, NEW j \in Reg, GfMul(i, j)
    PROVE  EngInv'
<1>1. fate = "runs" /\ reg[i].dom = "bits" /\ reg[j].dom = "bits"
      /\ Needs(i, reg[i], reg[j], Circuit("bits", GMul, reg[i], reg[j]))
  BY DEF GfMul, On
<1>2. /\ Meant(reg[i]) /\ Meant(reg[j]) /\ (alone => mode = "sim")
      /\ (alone => Full(reg[i].t) /\ Full(reg[j].t))
  BY <1>1, Found
<1>3. ~ Unannotated(reg[i], reg[j]) =>
        \A z \in Circuit("bits", GMul, reg[i], reg[j]) : Meant(z) /\ (alone => Full(z.t))
  BY <1>1, <1>2, GfMulMeant
<1> QED
  BY <1>1, <1>2, <1>3, NeedsKeeps

LEMMA A2BKeeps ==
    ASSUME EngInv, NEW i \in Reg, A2B(i)
    PROVE  EngInv'
<1> DEFINE f(u, w) == WordOf(u)
           results == Circuit("bits", f, reg[i], reg[i])
<1>1. fate = "runs" /\ reg[i].dom = "arith" /\ Needs(i, reg[i], reg[i], results)
  BY DEF A2B, On
<1>2. Meant(reg[i]) /\ (alone => mode = "sim") /\ (alone => Full(reg[i].t))
  BY <1>1, Found
<1>3. ~ Unannotated(reg[i], reg[i]) => \A z \in results : Meant(z) /\ (mode = "sim" => Full(z.t))
  BY <1>1, <1>2, A2BMeant
<1> HIDE DEF results
<1> QED
  BY <1>1, <1>2, <1>3, NeedsKeeps

LEMMA B2AKeeps ==
    ASSUME EngInv, NEW i \in Reg, B2A(i)
    PROVE  EngInv'
<1> DEFINE t == Lift(LAMBDA u : Num[u], reg[i])
           results == IF mode = "sim"
                        THEN Sharing("arith", Noted("arith", t), t, Num[reg[i].x])
                        ELSE B2AOt(reg[i])
<1>1. fate = "runs" /\ reg[i].dom = "bits" /\ Trusts(i, reg[i], reg[i], results)
  BY DEF B2A, On
<1>2. Meant(reg[i]) /\ (alone => mode = "sim") /\ (alone => Full(reg[i].t))
  BY <1>1, Found
<1>3. ~ Unannotated(reg[i], reg[i]) => \A z \in results : Meant(z) /\ (mode = "sim" => Full(z.t))
  BY <1>1, <1>2, B2AMeant
<1> HIDE DEF results
<1> QED
  BY <1>1, <1>2, <1>3, TrustsKeeps

LEMMA FMulKeeps ==
    ASSUME EngInv, NEW i \in Reg, NEW j \in Reg, FMul(i, j)
    PROVE  EngInv'
<1> DEFINE f(u, w) == (u * w) % P
           results == IF mode = "sim" THEN Circuit("fld", f, reg[i], reg[j])
                                      ELSE FMulOt(reg[i], reg[j])
<1>1. /\ fate = "runs" /\ reg[i].dom = "fld" /\ reg[j].dom = "fld"
      /\ Trusts(i, reg[i], reg[j], results)
  BY DEF FMul, On
<1>2. /\ Meant(reg[i]) /\ Meant(reg[j]) /\ (alone => mode = "sim")
      /\ (alone => Full(reg[i].t) /\ Full(reg[j].t))
  BY <1>1, Found
<1>3. ~ Unannotated(reg[i], reg[j]) => \A z \in results : Meant(z) /\ (mode = "sim" => Full(z.t))
  BY <1>1, <1>2, FMulMeant
<1> HIDE DEF results
<1> QED
  BY <1>1, <1>2, <1>3, TrustsKeeps

LEMMA FInvKeeps ==
    ASSUME EngInv, NEW i \in Reg, FInv(i)
    PROVE  EngInv'
<1> DEFINE o == reg[i]
           T(n) == ((IF mode = "sim" THEN Noted("fld", o.t) ELSE Join(o)) * n) % P
           out(r) == Obj("fld", [p \in Party |-> (r[p] * Inv[T((r[0] + r[1]) % P)]) % P],
                         Lift(LAMBDA u : Inv[u], o), Inv[o.x])
           results == {out(r) : r \in {s \in [Party -> 0 .. P - 1] : (s[0] + s[1]) % P # 0}}
<1>1. fate = "runs" /\ o.dom = "fld" /\ Trusts(i, o, o, results)
  BY DEF FInv, On
<1>2. Meant(o) /\ (alone => Full(o.t))
  BY <1>1, Found
<1>3. ASSUME ~ Unannotated(o, o), NEW z \in results
      PROVE  Meant(z) /\ (Full(o.t) => Full(z.t))
  <2>1. PICK r \in [Party -> 0 .. P - 1] : (r[0] + r[1]) % P # 0 /\ z = out(r)
    BY <1>3
  <2>2. Meant(out(r)) /\ (Full(o.t) => Full(out(r).t))
    BY <1>1, <1>2, <1>3, <2>1, FInvMeant
  <2> HIDE DEF out
  <2> QED
    BY <2>1, <2>2
<1> HIDE DEF results, o
<1> QED
  BY <1>1, <1>2, <1>3, TrustsKeeps

LEMMA GfInvKeeps ==
    ASSUME EngInv, NEW i \in Reg, GfInv(i)
    PROVE  EngInv'
<1> DEFINE o == reg[i]
           u(n) == GInverse[GMul(Join(o), n)]
           out(r) == Obj("bits", [p \in Party |-> GMul(r[p], u(Xor(r[0], r[1])))],
                         Marked(GMul(Xor(r[0], r[1]), u(Xor(r[0], r[1])))), GInverse[o.x])
           results == {out(r) : r \in {s \in [Party -> Word] :
                                            o.x # Zero => Xor(s[0], s[1]) # Zero}}
<1>1. fate = "runs" /\ o.dom = "bits" /\ Needs(i, o, o, results)
  BY DEF GfInv, On
<1>2. Meant(o) /\ (alone => Full(o.t)) /\ (alone => mode = "sim")
  BY <1>1, Found
<1>3. ASSUME NEW z \in results
      PROVE  Meant(z) /\ (mode = "sim" => Full(z.t))
  <2>1. PICK r \in [Party -> Word] : (o.x # Zero => Xor(r[0], r[1]) # Zero) /\ z = out(r)
    BY <1>3
  <2>2. Meant(out(r)) /\ (mode = "sim" => Full(out(r).t))
    BY <1>1, <1>2, <2>1, GfInvMeant
  <2> HIDE DEF out
  <2> QED
    BY <2>1, <2>2
<1> HIDE DEF results, o
<1> QED
  BY <1>1, <1>2, <1>3, NeedsKeeps

LEMMA FldToBitsKeeps ==
    ASSUME EngInv, NEW i \in Reg, FldToBits(i)
    PROVE  EngInv'
<1> DEFINE o == reg[i]
           peer == IF mode = "sim" THEN (Noted("fld", o.t) - o.v[0]) % P ELSE o.v[1]
           out == WordOf(Reduced(o.v[0], peer))
           right == Sharing("bits", out, Marked(out), WordOf(o.x))
           results == IF Unannotated(o, o)
                        THEN {Obj("bits", v, Bare, WordOf(o.x)) : v \in [Party -> Word]}
                        ELSE right
<1>1. fate = "runs" /\ o.dom = "fld" /\ Trusts(i, o, o, results)
  BY DEF FldToBits, On
<1>2. Meant(o) /\ (alone => Full(o.t)) /\ (alone => mode = "sim")
  BY <1>1, Found
<1>3. ~ Unannotated(o, o) => \A z \in right : Meant(z) /\ (mode = "sim" => Full(z.t))
  BY <1>1, <1>2, FldToBitsMeant
<1>4. ~ Unannotated(o, o) => results = right
  OBVIOUS
<1> HIDE DEF results, right, o
<1> QED
  BY <1>1, <1>2, <1>3, <1>4, TrustsKeeps

LEMMA MuxKeeps ==
    ASSUME EngInv, NEW i \in Reg, NEW j \in Reg, Mux(i, j)
    PROVE  EngInv'
<1> DEFINE o == reg[i]
           d == XorOf(reg[i], reg[j])
<1>1. PICK b \in Idx :
        LET sel == PickOf(Rep(b), o)
        IN  Needs(i, sel, d, {XorOf(o, z) : z \in AndOf(sel, d)})
  BY DEF Mux
<1> DEFINE sel == PickOf(Rep(b), o)
           results == {XorOf(o, z) : z \in AndOf(sel, d)}
<1>2. fate = "runs" /\ o.dom = "bits" /\ reg[j].dom = "bits" /\ Needs(i, sel, d, results)
  BY <1>1 DEF Mux, On
<1>3. /\ Meant(o) /\ Meant(reg[j]) /\ (alone => mode = "sim")
      /\ (alone => Full(o.t) /\ Full(reg[j].t))
  BY <1>2, Found
<1>4. alone => Full(sel.t) /\ Full(d.t)
  BY <1>2, <1>3, PickMeant, XorMeant
<1>5. ASSUME ~ Unannotated(sel, d), NEW z \in results
      PROVE  Meant(z) /\ (alone => Full(z.t))
  <2>1. PICK y \in AndOf(sel, d) : z = XorOf(o, y)
    BY <1>5
  <2>2. Meant(XorOf(o, y)) /\ (mode = "sim" /\ Full(o.t) => Full(XorOf(o, y).t))
    BY <1>2, <1>3, <1>5, <2>1, MuxMeant
  <2> QED
    BY <1>3, <2>1, <2>2
<1> HIDE DEF sel, d, results, o
<1> QED
  BY <1>2, <1>4, <1>5, NeedsKeeps

LEMMA AndPairsKeeps ==
    ASSUME EngInv, AndPairs
    PROVE  EngInv'
<1>1. fate = "runs" /\ reg[1].dom = "bits" /\ reg[2].dom = "bits" /\ 1 \in Reg /\ 2 \in Reg
  BY DEF AndPairs, On, Reg
<1>2. /\ Meant(reg[1]) /\ Meant(reg[2]) /\ (alone => mode = "sim")
      /\ (alone => Full(reg[1].t) /\ Full(reg[2].t))
  BY <1>1, Found
<1>3. CASE mode = "sim" /\ Lacks(reg[2])
  <2>1. fate' = "raised" /\ UNCHANGED <<mode, stack, reg, alone>> /\ ~ alone
    BY <1>2, <1>3, LacksFull DEF AndPairs
  <2> QED
    BY <1>1, <2>1 DEF EngInv
<1>4. CASE ~ (mode = "sim" /\ Lacks(reg[2]))
  <2> DEFINE a == IF mode = "sim" THEN Filled(reg[1]) ELSE reg[1]
  <2>1. PICK y \in AndOf(a, reg[2]), z \in AndOf(reg[2], reg[2]) :
          reg' = [reg EXCEPT ![1] = y, ![2] = z]
    BY <1>4 DEF AndPairs
  <2>2. /\ fate' = IF Unannotated(reg[1], reg[1]) THEN "mixed" ELSE fate
        /\ UNCHANGED <<mode, stack, alone>>
    BY <1>4 DEF AndPairs
  <2>3. reg' = [i \in Reg |-> reg'[i]] /\ \A i \in Reg : reg'[i] = IF i = 1 THEN y ELSE z
    <3>1. reg = [i \in Reg |-> reg[i]]
      BY DEF EngInv
    <3>2. PICK m : m = [reg EXCEPT ![1] = y]
      OBVIOUS
    <3>3. m = [i \in Reg |-> m[i]] /\ m[1] = y
      BY <1>1, <3>1, <3>2
    <3>4. reg' = [m EXCEPT ![2] = z]
      BY <2>1, <3>2
    <3>5. reg' = [i \in Reg |-> reg'[i]] /\ reg'[2] = z /\ reg'[1] = y
      BY <1>1, <3>3, <3>4
    <3> QED
      BY <3>5 DEF Reg
  <2>4. CASE Unannotated(reg[1], reg[1])
    <3>1. fate' = "mixed" /\ ~ alone
      BY <1>2, <2>2, <2>4, LacksFull DEF Unannotated
    <3> QED
      BY <2>2, <2>3, <3>1 DEF EngInv
  <2>5. CASE ~ Unannotated(reg[1], reg[1])
    <3>1. Meant(a) /\ a.dom = "bits" /\ ~ Unannotated(a, reg[2])
      <4>1. CASE mode = "sim"
        <5>1. Full(reg[1].t)
          BY <2>5, <4>1, LacksFull DEF Unannotated
        <5>2. Meant(Filled(reg[1])) /\ Filled(reg[1]).dom = "bits" /\ Full(Filled(reg[1]).t)
          BY <1>1, <1>2, <5>1, FilledMeant
        <5> QED
          BY <1>4, <4>1, <5>2, LacksFull DEF Unannotated
      <4>2. CASE mode # "sim"
        BY <1>1, <1>2, <4>2 DEF Unannotated
      <4> QED
        BY <4>1, <4>2
    <3>2. ~ Unannotated(reg[2], reg[2])
      BY <1>4 DEF Unannotated
    <3> HIDE DEF a
    <3>3. Meant(y) /\ (mode = "sim" => Full(y.t)) /\ Meant(z) /\ (mode = "sim" => Full(z.t))
      BY <1>1, <1>2, <2>1, <3>1, <3>2, AndMeant
    <3>4. \A i \in Reg : Meant(reg'[i]) /\ (mode = "sim" => Full(reg'[i].t))
      BY <2>3, <3>3
    <3>5. fate' = fate
      BY <2>2, <2>5
    <3> QED
      BY <1>2, <2>2, <2>3, <3>4, <3>5 DEF EngInv
  <2> QED
    BY <2>4, <2>5
<1> QED
  BY <1>3, <1>4

LEMMA UseKeeps ==
    ASSUME EngInv, Use
    PROVE  EngInv'
<1>1. /\ mode' \in {"ot", "sim"} /\ mode' # mode /\ stack' = Append(stack, mode)
      /\ alone' = (alone /\ mode' = "sim") /\ reg' = reg /\ fate' = fate
  BY DEF Use
<1>2. stack' \in Seq({"ot", "sim"})
  BY <1>1 DEF EngInv
<1>3. ~ alone'
  BY <1>1 DEF EngInv
<1> QED
  BY <1>1, <1>2, <1>3 DEF EngInv

\* The backends a with-block returns to are those it was entered under.
LEMMA ExitKeeps ==
    ASSUME EngInv, Exit
    PROVE  EngInv'
<1>1. /\ stack # <<>> /\ mode' = stack[Len(stack)] /\ stack' = SubSeq(stack, 1, Len(stack) - 1)
      /\ alone' = (alone /\ mode' = "sim") /\ reg' = reg /\ fate' = fate
  BY DEF Exit
<1>2. stack \in Seq({"ot", "sim"})
  BY DEF EngInv
<1>3. Len(stack) \in 1 .. Len(stack) /\ Len(stack) - 1 \in 0 .. Len(stack)
  BY <1>1, <1>2
<1>4. mode' \in {"ot", "sim"}
  BY <1>1, <1>2, <1>3
<1>5. stack' \in Seq({"ot", "sim"})
  BY <1>1, <1>2, <1>3
<1>6. ~ alone'
  BY <1>1 DEF EngInv
<1> QED
  BY <1>1, <1>4, <1>5, <1>6 DEF EngInv

LEMMA EngInvStep == EngInv /\ [Next]_vars => EngInv'
<1> SUFFICES ASSUME EngInv, [Next]_vars PROVE EngInv'
  OBVIOUS
<1>1. ASSUME NEW i \in Reg, Unary(i) PROVE EngInv'
  <2>1. ASSUME NEW d \in {"bits", "arith", "fld"}, Make(i, d) PROVE EngInv'
    BY <2>1, MakeKeeps DEF Doms
  <2>2. CASE NotBits(i)
    BY <2>2, NotKeeps
  <2>3. CASE Place(i)
    BY <2>3, PlaceKeeps
  <2>4. CASE A2B(i)
    BY <2>4, A2BKeeps
  <2>5. CASE B2A(i)
    BY <2>5, B2AKeeps
  <2>6. CASE FMulPub(i)
    BY <2>6, FMulPubKeeps
  <2>7. CASE FInv(i)
    BY <2>7, FInvKeeps
  <2>8. CASE GfInv(i)
    BY <2>8, GfInvKeeps
  <2>9. CASE FldToBits(i)
    BY <2>9, FldToBitsKeeps
  <2> QED
    BY <1>1, <2>1, <2>2, <2>3, <2>4, <2>5, <2>6, <2>7, <2>8, <2>9 DEF Unary
<1>2. ASSUME NEW i \in Reg, NEW j \in Reg, Binary(i, j) PROVE EngInv'
  <2>1. CASE Add(i, j)
    BY <2>1, AddKeeps
  <2>2. CASE Sub(i, j)
    BY <2>2, SubKeeps
  <2>3. CASE Concat(i, j)
    BY <2>3, ConcatKeeps
  <2>4. CASE AndBits(i, j)
    BY <2>4, AndKeeps
  <2>5. CASE Mux(i, j)
    BY <2>5, MuxKeeps
  <2>6. CASE AddBits(i, j)
    BY <2>6, AddBitsKeeps
  <2>7. CASE FMul(i, j)
    BY <2>7, FMulKeeps
  <2>8. CASE GfMul(i, j)
    BY <2>8, GfMulKeeps
  <2> QED
    BY <1>2, <2>1, <2>2, <2>3, <2>4, <2>5, <2>6, <2>7, <2>8 DEF Binary
<1>3. CASE AndPairs
  BY <1>3, AndPairsKeeps
<1>4. CASE Use
  BY <1>4, UseKeeps
<1>5. CASE Exit
  BY <1>5, ExitKeeps
<1>6. CASE UNCHANGED vars
  BY <1>6 DEF EngInv, vars
<1> QED
  BY <1>1, <1>2, <1>3, <1>4, <1>5, <1>6 DEF Next

\* Whatever program the parties run, and in whatever mode, the invariant
\* holds: the objects are what they are meant to be until an operation that
\* computes from annotations is given an object without one.
THEOREM EngineInvariant == Spec => []EngInv
<1>1. Init => EngInv
  BY EngInvInit
<1> QED
  BY <1>1, EngInvStep, PTL DEF Spec

\* The shares of every object join to the value it is meant to have: the
\* arithmetic of every circuit and conversion of the engine, in both modes
\* and over every change between them, for words of every width, every prime
\* and every irreducible polynomial.
THEOREM SharesRejoin == Spec => []Rejoins
<1>1. EngInv => Rejoins
  BY DEF EngInv, Rejoins, Meant
<1> QED
  BY <1>1, EngineInvariant, PTL

\* The parties agree on every annotation, and it is the value the shares
\* join to, also of an object that was kept across operations in mode "ot".
THEOREM AnnotationsAreTrue == Spec => []Annotated
<1>1. EngInv => Annotated
  BY DEF EngInv, Annotated, Meant, Notes
<1> QED
  BY <1>1, EngineInvariant, PTL

\* A program that stays in mode "sim" meets no object without an annotation,
\* and no assertion of the engine fails in it.
THEOREM SimulationIsWhole == Spec => []SimAlone
<1>1. EngInv => SimAlone
  BY LacksFull DEF EngInv, SimAlone
<1> QED
  BY <1>1, EngineInvariant, PTL

=============================================================================
