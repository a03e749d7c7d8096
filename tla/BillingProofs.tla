--------------------------- MODULE BillingProofs ----------------------------
(***************************************************************************)
(* For every block size, every length and content of the tag, and every    *)
(* strings and counts of a JSON response: the window of the billing proof  *)
(* fits, its scans know the depth of every byte, a right claim in a prefix *)
(* window is accepted and an accepted claim is written in the response.    *)
(***************************************************************************)
EXTENDS Billing, SequenceTheorems, TLAPS

Bytes == [c : Letters, depth : 0 .. 2, inside : BOOLEAN]

(***************************************************************************)
(* What the annotations of a text mean: the text begins and ends outside   *)
(* of a string, at depths d0 and d1, and from each byte to the next they   *)
(* change as the byte says.  es are the bytes behind an active backslash.  *)
(***************************************************************************)
In(p, n) == n \in DOMAIN p /\ p[n].inside
At(p, d, n) == IF n \in DOMAIN p THEN p[n].depth ELSE d
Deeper(b) == IF ~ b.inside /\ b.c = "open" THEN 1
             ELSE IF ~ b.inside /\ b.c = "close" THEN -1 ELSE 0

Depths(p, d0, d1) ==
    /\ At(p, d1, 1) = d0
    /\ \A n \in DOMAIN p : At(p, d1, n + 1) = p[n].depth + Deeper(p[n])

Strings(p, es) ==
    /\ es \in SUBSET DOMAIN p
    /\ 1 \notin es /\ ~ In(p, 1)
    /\ \A n \in DOMAIN p :
         /\ In(p, n + 1) <=> ~ (p[n].inside <=> p[n].c = "Q" /\ n \notin es)
         /\ n + 1 \in es <=> p[n].inside /\ p[n].c = "B" /\ n \notin es

Fair(p, d0, d1) == p \in Seq(Bytes) /\ Depths(p, d0, d1) /\ \E es : Strings(p, es)

\* Outside of strings there is no "t", and only the byte k is a colon.
Outside(p, k) ==
    \A n \in DOMAIN p : ~ p[n].inside =>
        p[n].c # "t" /\ (p[n].c = "colon" => n = k)

(***************************************************************************)
(* The inductive invariant.                                                *)
(***************************************************************************)
Claims == [v : Count, at : Count, truth : Count, d : {1, 2},
           com : BOOLEAN, share : BOOLEAN]

Given ==
    /\ claim \in Claims
    /\ tag \in [1 .. TagLen -> TagByte]
    /\ \E echo \in Echo, id \in Id : resp = Response(echo, claim.truth, id)

BTyped ==
    /\ phase \in {"claim", "fwd", "esc", "rev", "decide", "done", "raised"}
    /\ pos \in Nat /\ inStr \in BOOLEAN /\ escd \in BOOLEAN
    /\ depth \in 0 .. 255 /\ esc \in Seq(BOOLEAN) /\ dep \in Seq(0 .. 255)
    /\ accept \in BOOLEAN

Chosen == \E s \in Found(claim.at) :
              win = SelectWindow(Len(Wire), s, s + Len(Pair(claim.at)))

Fresh == /\ win = NoWindow /\ pos = 0 /\ ~ inStr /\ ~ escd /\ depth = 0
         /\ esc = <<>> /\ dep = <<>>

\* The bytes of the response behind an active backslash.
Escapes == CHOOSE es : Strings(resp, es)

\* The byte of the response that byte n of the window is.
Abs(n) == BS * win.o + n

FwdRight ==
    claim.share =>
        /\ pos < Len(resp) =>
             /\ inStr <=> resp[pos + 1].inside
             /\ escd <=> pos + 1 \in Escapes
             /\ depth = resp[pos + 1].depth
        /\ \A n \in 1 .. pos : n <= Len(resp) => dep[n] = resp[n].depth

\* A suffix window the backward scan can be right about.
Clean ==
    /\ claim.share
    /\ \A n \in DOMAIN tag : tag[n] \notin {"Q", "open", "close", "B"}
    /\ ~ resp[Abs(1)].inside

EscRight ==
    Clean =>
        /\ Abs(pos) <= Len(resp) =>
             /\ inStr <=> In(resp, Abs(pos) + 1)
             /\ escd <=> Abs(pos) + 1 \in Escapes
        /\ \A n \in 1 .. pos :
             Abs(n) <= Len(resp) => (esc[n] <=> Abs(n) \in Escapes)

RevRight ==
    Clean =>
        /\ \A n \in 1 .. Len(Window) :
             Abs(n) <= Len(resp) => (esc[n] <=> Abs(n) \in Escapes)
        /\ inStr <=> In(resp, Abs(pos) + 1)
        /\ depth = At(resp, 0, Abs(pos) + 1)
        /\ \A n \in 1 .. Len(dep) :
             Abs(pos) + n <= Len(resp) => dep[n] = resp[Abs(pos) + n].depth

Scanning ==
    /\ phase = "claim" => Fresh
    /\ phase = "fwd" => /\ Chosen /\ win.rho = "fwd"
                        /\ pos <= Len(Window) /\ Len(dep) = pos /\ FwdRight
    /\ phase = "esc" => /\ Chosen /\ win.rho = "rev"
                        /\ pos <= Len(Window) /\ Len(esc) = pos
                        /\ depth = 0 /\ dep = <<>> /\ EscRight
    /\ phase = "rev" => /\ Chosen /\ win.rho = "rev"
                        /\ pos <= Len(Window) /\ Len(esc) = Len(Window)
                        /\ Len(dep) = Len(Window) - pos /\ RevRight
    /\ phase \in {"decide", "done"} =>
           /\ Chosen /\ Len(dep) = Len(Window)
           /\ ForwardExact /\ BackwardExact
    /\ phase = "raised" => win = NoWindow \/ Chosen

Decided ==
    /\ accept => phase = "done"
    /\ phase = "done" => /\ win.k - win.j + 1 = Len(Pair(claim.v))
                         /\ accept <=> Accepts

BillInv == Given /\ BTyped /\ Scanning /\ Decided

-----------------------------------------------------------------------------
(***************************************************************************)
(* Texts are put together from pieces.                                     *)
(***************************************************************************)
LEMMA Joined ==
    ASSUME NEW S, NEW p \in Seq(S), NEW q \in Seq(S)
    PROVE  /\ p \o q \in Seq(S)
           /\ Len(p) \in Nat /\ Len(q) \in Nat
           /\ DOMAIN p = 1 .. Len(p) /\ DOMAIN q = 1 .. Len(q)
           /\ Len(p \o q) = Len(p) + Len(q)
           /\ DOMAIN (p \o q) = 1 .. Len(p) + Len(q)
           /\ \A n \in 1 .. Len(p) : (p \o q)[n] = p[n]
           /\ \A n \in 1 .. Len(q) : (p \o q)[Len(p) + n] = q[n]
           /\ \A n \in Len(p) + 1 .. Len(p) + Len(q) :
                  (p \o q)[n] = q[n - Len(p)]
OBVIOUS

LEMMA Single ==
    ASSUME NEW S, NEW x \in S
    PROVE  <<x>> \in Seq(S) /\ Len(<<x>>) = 1 /\ <<x>>[1] = x
OBVIOUS

LEMMA Appended ==
    ASSUME NEW S, NEW s \in Seq(S), NEW x \in S
    PROVE  /\ s \o <<x>> \in Seq(S) /\ Len(s \o <<x>>) = Len(s) + 1
           /\ (s \o <<x>>)[Len(s) + 1] = x
           /\ \A n \in 1 .. Len(s) : (s \o <<x>>)[n] = s[n]
OBVIOUS

LEMMA DepthsJoin ==
    ASSUME NEW p \in Seq(Bytes), NEW q \in Seq(Bytes), NEW a, NEW b, NEW c,
           Depths(p, a, b), Depths(q, b, c)
    PROVE  Depths(p \o q, a, c)
<1> DEFINE r == p \o q
           m == Len(p)
<1>1. /\ m \in Nat /\ Len(q) \in Nat
      /\ DOMAIN p = 1 .. m /\ DOMAIN q = 1 .. Len(q)
      /\ DOMAIN r = 1 .. m + Len(q)
      /\ \A n \in 1 .. m : r[n] = p[n]
      /\ \A n \in m + 1 .. m + Len(q) : r[n] = q[n - m]
  BY Joined
<1> HIDE DEF r, m
<1>2. \A n \in 1 .. m : At(r, c, n) = At(p, b, n)
  BY <1>1 DEF At
<1>3. ASSUME NEW n \in Nat, n > m PROVE At(r, c, n) = At(q, c, n - m)
  <2>1. n \in DOMAIN r <=> n - m \in DOMAIN q
    BY <1>1, <1>3
  <2>2. CASE n \in DOMAIN r
    BY <1>1, <1>3, <2>1, <2>2 DEF At
  <2>3. CASE n \notin DOMAIN r
    BY <2>1, <2>3 DEF At
  <2> QED
    BY <2>2, <2>3
<1>4. At(p, b, m + 1) = b /\ At(q, c, 1) = b
  BY <1>1 DEF At, Depths
<1>5. At(r, c, 1) = a
  <2>1. CASE m = 0
    BY <1>1, <1>3, <1>4, <2>1 DEF Depths
  <2>2. CASE m > 0
    BY <1>1, <1>2, <2>2 DEF Depths
  <2> QED
    BY <1>1, <2>1, <2>2
<1>6. ASSUME NEW n \in DOMAIN r PROVE At(r, c, n + 1) = r[n].depth + Deeper(r[n])
  <2>1. n \in Nat /\ n >= 1
    BY <1>1
  <2>2. CASE n < m
    <3>1. At(p, b, n + 1) = p[n].depth + Deeper(p[n]) /\ r[n] = p[n]
      BY <1>1, <2>1, <2>2 DEF Depths
    <3>2. At(r, c, n + 1) = At(p, b, n + 1)
      BY <1>1, <1>2, <2>1, <2>2
    <3> QED
      BY <3>1, <3>2
  <2>3. CASE n = m
    <3>1. At(p, b, n + 1) = p[n].depth + Deeper(p[n]) /\ r[n] = p[n]
      BY <1>1, <2>1, <2>3 DEF Depths
    <3>2. At(r, c, n + 1) = At(q, c, 1)
      BY <1>1, <1>3, <2>1, <2>3
    <3> QED
      BY <1>4, <2>3, <3>1, <3>2
  <2>4. CASE n > m
    <3>1. n - m \in DOMAIN q /\ r[n] = q[n - m]
      BY <1>1, <2>1, <2>4
    <3>2. At(q, c, (n - m) + 1) = q[n - m].depth + Deeper(q[n - m])
      BY <3>1 DEF Depths
    <3>3. At(r, c, n + 1) = At(q, c, (n - m) + 1)
      BY <1>1, <1>3, <2>1, <2>4
    <3> QED
      BY <3>1, <3>2, <3>3
  <2> QED
    BY <1>1, <2>1, <2>2, <2>3, <2>4
<1> QED
  BY <1>5, <1>6 DEF Depths, r

LEMMA StringsJoin ==
    ASSUME NEW p \in Seq(Bytes), NEW q \in Seq(Bytes), NEW e, NEW f,
           Strings(p, e), Strings(q, f)
    PROVE  Strings(p \o q, e \cup {Len(p) + n : n \in f})
<1> DEFINE r == p \o q
           m == Len(p)
           es == e \cup {m + n : n \in f}
<1>1. /\ m \in Nat /\ Len(q) \in Nat
      /\ DOMAIN p = 1 .. m /\ DOMAIN q = 1 .. Len(q)
      /\ DOMAIN r = 1 .. m + Len(q)
      /\ \A n \in 1 .. m : r[n] = p[n]
      /\ \A n \in m + 1 .. m + Len(q) : r[n] = q[n - m]
  BY Joined
<1> HIDE DEF r, m
<1>2. /\ e \subseteq 1 .. m /\ f \subseteq 1 .. Len(q)
      /\ 1 \notin e /\ 1 \notin f /\ ~ In(p, 1) /\ ~ In(q, 1)
  BY <1>1 DEF Strings
<1>a. \A x : x \in es <=> x \in e \/ \E n \in f : x = m + n
  OBVIOUS
<1>b. es \in SUBSET DOMAIN r
  <2> SUFFICES ASSUME NEW x \in es PROVE x \in 1 .. m + Len(q)
    BY <1>1
  <2>1. CASE x \in e
    BY <1>1, <1>2, <2>1
  <2>2. CASE x \notin e
    <3>1. PICK n \in f : x = m + n
      BY <1>a, <2>2
    <3> QED
      BY <1>1, <1>2, <3>1
  <2> QED
    BY <2>1, <2>2
<1> HIDE DEF es
<1>3. \A n \in Nat : /\ n <= m => (n \in es <=> n \in e)
                     /\ n > m => (n \in es <=> n - m \in f)
  <2> SUFFICES ASSUME NEW n \in Nat
               PROVE  /\ n <= m => (n \in es <=> n \in e)
                      /\ n > m => (n \in es <=> n - m \in f)
    OBVIOUS
  <2>1. \A k \in f : k \in Nat /\ k >= 1
    BY <1>1, <1>2
  <2>2. CASE n <= m
    <3>1. \A k \in f : n # m + k
      BY <1>1, <2>1, <2>2
    <3> QED
      BY <1>1, <1>a, <2>2, <3>1
  <2>3. CASE n > m
    <3>1. n \notin e
      BY <1>1, <1>2, <2>3
    <3>2. \A k \in f : n = m + k <=> k = n - m
      BY <1>1, <2>1, <2>3
    <3> QED
      BY <1>1, <1>a, <2>3, <3>1, <3>2
  <2> QED
    BY <1>1, <2>2, <2>3
<1>4. \A n \in Nat : /\ n <= m => (In(r, n) <=> In(p, n))
                     /\ n > m => (In(r, n) <=> In(q, n - m))
  BY <1>1 DEF In
<1>5. ~ In(p, m + 1) /\ m + 1 \notin e
  BY <1>1, <1>2 DEF In
<1>7. 1 \notin es /\ ~ In(r, 1)
  <2>1. CASE m = 0
    BY <1>1, <1>2, <1>3, <1>4, <2>1
  <2>2. CASE m > 0
    BY <1>1, <1>2, <1>3, <1>4, <2>2
  <2> QED
    BY <1>1, <2>1, <2>2
<1>8. ASSUME NEW n \in DOMAIN r
      PROVE  /\ In(r, n + 1) <=> ~ (r[n].inside <=> r[n].c = "Q" /\ n \notin es)
             /\ n + 1 \in es <=> r[n].inside /\ r[n].c = "B" /\ n \notin es
  <2>1. n \in Nat /\ n >= 1
    BY <1>1
  <2>2. CASE n <= m
    <3>1. /\ In(p, n + 1) <=> ~ (p[n].inside <=> p[n].c = "Q" /\ n \notin e)
          /\ n + 1 \in e <=> p[n].inside /\ p[n].c = "B" /\ n \notin e
          /\ r[n] = p[n]
      BY <1>1, <2>1, <2>2 DEF Strings
    <3>2. n \in es <=> n \in e
      BY <1>3, <2>1, <2>2
    <3>3. (In(r, n + 1) <=> In(p, n + 1)) /\ (n + 1 \in es <=> n + 1 \in e)
      <4>1. CASE n < m
        BY <1>1, <1>3, <1>4, <2>1, <4>1
      <4>2. CASE n = m
        <5>1. (n + 1) - m = 1 /\ n + 1 > m /\ n + 1 \in Nat
          BY <1>1, <2>1, <4>2
        <5> QED
          BY <1>2, <1>3, <1>4, <1>5, <4>2, <5>1
      <4> QED
        BY <1>1, <2>1, <2>2, <4>1, <4>2
    <3> QED
      BY <3>1, <3>2, <3>3
  <2>3. CASE n > m
    <3>1. n - m \in DOMAIN q /\ r[n] = q[n - m]
      BY <1>1, <2>1, <2>3
    <3>2. /\ In(q, (n - m) + 1) <=> ~ (q[n - m].inside <=> q[n - m].c = "Q" /\ n - m \notin f)
          /\ (n - m) + 1 \in f <=> q[n - m].inside /\ q[n - m].c = "B" /\ n - m \notin f
      BY <3>1 DEF Strings
    <3>3. /\ n \in es <=> n - m \in f
          /\ n + 1 \in es <=> (n + 1) - m \in f
          /\ In(r, n + 1) <=> In(q, (n + 1) - m)
      BY <1>1, <1>3, <1>4, <2>1, <2>3
    <3>4. (n + 1) - m = (n - m) + 1
      BY <1>1, <2>1
    <3> QED
      BY <3>1, <3>2, <3>3, <3>4
  <2> QED
    BY <1>1, <2>1, <2>2, <2>3
<1> QED
  BY <1>b, <1>7, <1>8 DEF Strings, r, es, m

LEMMA FairJoin ==
    ASSUME NEW p, NEW q, NEW a, NEW b, NEW c, Fair(p, a, b), Fair(q, b, c)
    PROVE  Fair(p \o q, a, c)
<1>1. p \in Seq(Bytes) /\ q \in Seq(Bytes) /\ p \o q \in Seq(Bytes)
  BY DEF Fair
<1>2. PICK e, f : Strings(p, e) /\ Strings(q, f)
  BY DEF Fair
<1>3. Strings(p \o q, e \cup {Len(p) + n : n \in f})
  BY <1>1, <1>2, StringsJoin
<1> QED
  BY <1>1, <1>3, DepthsJoin DEF Fair

LEMMA OuterIs ==
    ASSUME NEW cs \in Seq(Letters), NEW d \in 0 .. 2
    PROVE  /\ Outer(cs, d) \in Seq(Bytes)
           /\ Len(Outer(cs, d)) = Len(cs)
           /\ DOMAIN Outer(cs, d) = 1 .. Len(cs)
           /\ \A n \in 1 .. Len(cs) : /\ Outer(cs, d)[n].c = cs[n]
                                      /\ Outer(cs, d)[n].depth = d
                                      /\ ~ Outer(cs, d)[n].inside
<1>1. \A n \in 1 .. Len(cs) :
          [c |-> cs[n], depth |-> d, inside |-> FALSE] \in Bytes
  BY DEF Bytes
<1>2. Outer(cs, d) \in [1 .. Len(cs) -> Bytes]
  BY <1>1 DEF Outer
<1>3. /\ Outer(cs, d) \in Seq(Bytes) /\ Len(Outer(cs, d)) = Len(cs)
      /\ DOMAIN Outer(cs, d) = 1 .. Len(cs)
  BY <1>2
<1>4. \A n \in 1 .. Len(cs) : /\ Outer(cs, d)[n].c = cs[n]
                              /\ Outer(cs, d)[n].depth = d
                              /\ ~ Outer(cs, d)[n].inside
  BY DEF Outer
<1> QED
  BY <1>3, <1>4

LEMMA InnerIs ==
    ASSUME NEW cs \in Seq(Letters), NEW d \in 0 .. 2
    PROVE  /\ Inner(cs, d) \in Seq(Bytes)
           /\ Len(Inner(cs, d)) = Len(cs)
           /\ DOMAIN Inner(cs, d) = 1 .. Len(cs)
           /\ \A n \in 1 .. Len(cs) : /\ Inner(cs, d)[n].c = cs[n]
                                      /\ Inner(cs, d)[n].depth = d
                                      /\ Inner(cs, d)[n].inside
<1>1. \A n \in 1 .. Len(cs) :
          [c |-> cs[n], depth |-> d, inside |-> TRUE] \in Bytes
  BY DEF Bytes
<1>2. Inner(cs, d) \in [1 .. Len(cs) -> Bytes]
  BY <1>1 DEF Inner
<1>3. /\ Inner(cs, d) \in Seq(Bytes) /\ Len(Inner(cs, d)) = Len(cs)
      /\ DOMAIN Inner(cs, d) = 1 .. Len(cs)
  BY <1>2
<1>4. \A n \in 1 .. Len(cs) : /\ Inner(cs, d)[n].c = cs[n]
                              /\ Inner(cs, d)[n].depth = d
                              /\ Inner(cs, d)[n].inside
  BY DEF Inner
<1> QED
  BY <1>3, <1>4

\* Bytes outside of a string that are neither quotes nor braces.
LEMMA FairText ==
    ASSUME NEW cs \in Seq(Letters), NEW d \in 0 .. 2,
           \A n \in DOMAIN cs : cs[n] \notin {"Q", "open", "close"}
    PROVE  Fair(Outer(cs, d), d, d)
<1> DEFINE p == Outer(cs, d)
<1>1. /\ p \in Seq(Bytes) /\ DOMAIN p = DOMAIN cs
      /\ DOMAIN p = 1 .. Len(cs) /\ Len(cs) \in Nat
      /\ \A n \in DOMAIN p : p[n].c = cs[n] /\ p[n].depth = d /\ ~ p[n].inside
  BY OuterIs
<1> HIDE DEF p
<1>2. \A n \in Nat : At(p, d, n) = d /\ ~ In(p, n)
  BY <1>1 DEF At, In
<1>3. \A n \in DOMAIN p : Deeper(p[n]) = 0 /\ p[n].c # "Q" /\ n + 1 \in Nat
  BY <1>1 DEF Deeper
<1>4. Depths(p, d, d)
  BY <1>1, <1>2, <1>3 DEF Depths
<1>5. Strings(p, {})
  BY <1>1, <1>2, <1>3 DEF Strings
<1> QED
  BY <1>1, <1>4, <1>5 DEF Fair, p

\* The same with a brace at the end.
LEMMA FairBrace ==
    ASSUME NEW cs \in Seq(Letters), Len(cs) > 0, NEW d \in 0 .. 2, NEW e \in Int,
           \A n \in 1 .. Len(cs) - 1 : cs[n] \notin {"Q", "open", "close"},
           \/ cs[Len(cs)] = "open" /\ e = d + 1
           \/ cs[Len(cs)] = "close" /\ e = d - 1
    PROVE  Fair(Outer(cs, d), d, e)
<1> DEFINE p == Outer(cs, d)
           m == Len(cs)
<1>1. /\ p \in Seq(Bytes) /\ DOMAIN p = 1 .. m /\ m \in Nat /\ m > 0
      /\ \A n \in 1 .. m : p[n].c = cs[n] /\ p[n].depth = d /\ ~ p[n].inside
  BY OuterIs
<1> HIDE DEF p
<1>2. \A n \in 1 .. m - 1 : p[n].c \notin {"Q", "open", "close"}
  BY <1>1
<1>3. p[m].c # "Q" /\ d + Deeper(p[m]) = e
  BY <1>1 DEF Deeper
<1> HIDE DEF m
<1>4. \A n \in 1 .. m - 1 : Deeper(p[n]) = 0
  BY <1>2 DEF Deeper
<1>5. /\ \A n \in 1 .. m : At(p, e, n) = d
      /\ At(p, e, m + 1) = e
  BY <1>1 DEF At
<1>6. ASSUME NEW n \in DOMAIN p PROVE At(p, e, n + 1) = p[n].depth + Deeper(p[n])
  <2>1. CASE n = m
    BY <1>1, <1>3, <1>5, <2>1
  <2>2. CASE n # m
    <3>1. n \in 1 .. m - 1 /\ n + 1 \in 1 .. m
      BY <1>1, <2>2
    <3> QED
      BY <1>1, <1>4, <1>5, <3>1
  <2> QED
    BY <2>1, <2>2
<1>7. Depths(p, d, e)
  BY <1>1, <1>5, <1>6 DEF Depths
<1>8. \A n \in Nat : ~ In(p, n)
  BY <1>1 DEF In
<1>9. \A n \in DOMAIN p : ~ p[n].inside /\ p[n].c # "Q" /\ n + 1 \in Nat
  BY <1>1, <1>2, <1>3
<1>10. Strings(p, {})
  BY <1>1, <1>8, <1>9 DEF Strings
<1> QED
  BY <1>1, <1>7, <1>10 DEF Fair, p

LEMMA StrIs ==
    ASSUME NEW cs \in Seq(Letters), NEW d \in 0 .. 2
    PROVE  /\ Str(cs, d) \in Seq(Bytes)
           /\ Len(Str(cs, d)) = Len(cs) + 2
           /\ DOMAIN Str(cs, d) = 1 .. Len(cs) + 2
           /\ \A n \in 1 .. Len(cs) + 2 :
                /\ Str(cs, d)[n].depth = d
                /\ Str(cs, d)[n].inside <=> n # 1
           /\ Str(cs, d)[1].c = "Q"
           /\ \A n \in 1 .. Len(cs) : Str(cs, d)[n + 1].c = cs[n]
           /\ Str(cs, d)[Len(cs) + 2].c = "Q"
<1> DEFINE xs == cs \o <<"Q">>
           ys == <<"Q">>
           a == Outer(ys, d)
           b == Inner(xs, d)
<1>1. /\ xs \in Seq(Letters) /\ Len(xs) = Len(cs) + 1 /\ Len(cs) \in Nat
      /\ \A n \in 1 .. Len(cs) : xs[n] = cs[n]
      /\ xs[Len(cs) + 1] = "Q"
  BY Appended, "Q" \in Letters DEF Letters
<1> HIDE DEF xs
<1>2. /\ b \in Seq(Bytes) /\ Len(b) = Len(cs) + 1
      /\ \A n \in 1 .. Len(cs) + 1 : /\ b[n].c = xs[n] /\ b[n].depth = d
                                     /\ b[n].inside
  BY <1>1, InnerIs
<1>3. /\ a \in Seq(Bytes) /\ Len(a) = 1
      /\ a[1].c = "Q" /\ a[1].depth = d /\ ~ a[1].inside
  <2>1. ys \in Seq(Letters) /\ Len(ys) = 1 /\ ys[1] = "Q"
    BY Single, "Q" \in Letters DEF Letters
  <2> HIDE DEF ys
  <2> QED
    BY <2>1, OuterIs
<1>4. Str(cs, d) = a \o b
  BY DEF Str, xs
<1> HIDE DEF a, b
<1> DEFINE r == a \o b
<1>5. /\ r \in Seq(Bytes) /\ Len(r) = Len(cs) + 2
      /\ DOMAIN r = 1 .. Len(cs) + 2
      /\ r[1] = a[1]
      /\ \A n \in 2 .. Len(cs) + 2 : r[n] = b[n - 1]
  <2>0. a \in Seq(Bytes) /\ b \in Seq(Bytes)
    BY <1>2, <1>3
  <2>1. /\ r \in Seq(Bytes) /\ Len(r) = Len(a) + Len(b)
        /\ DOMAIN r = 1 .. Len(a) + Len(b)
        /\ \A n \in 1 .. Len(a) : r[n] = a[n]
        /\ \A n \in Len(a) + 1 .. Len(a) + Len(b) : r[n] = b[n - Len(a)]
    BY <2>0, Joined
  <2> HIDE DEF r
  <2> QED
    BY <2>1, <1>1, <1>2, <1>3
<1> HIDE DEF r
<1>6. \A n \in 2 .. Len(cs) + 2 : n - 1 \in 1 .. Len(cs) + 1
  BY <1>1
<1>7. \A n \in 2 .. Len(cs) + 2 : /\ r[n].c = xs[n - 1] /\ r[n].depth = d
                                  /\ r[n].inside
  BY <1>2, <1>5, <1>6
<1>8. \A n \in 1 .. Len(cs) : r[n + 1].c = cs[n]
  <2> SUFFICES ASSUME NEW n \in 1 .. Len(cs) PROVE r[n + 1].c = cs[n]
    OBVIOUS
  <2>1. n + 1 \in 2 .. Len(cs) + 2 /\ (n + 1) - 1 = n
    BY <1>1
  <2> QED
    BY <1>1, <1>7, <2>1
<1>9. r[Len(cs) + 2].c = "Q"
  <2>1. Len(cs) + 2 \in 2 .. Len(cs) + 2 /\ (Len(cs) + 2) - 1 = Len(cs) + 1
    BY <1>1
  <2> QED
    BY <1>1, <1>7, <2>1
<1>10. \A n \in 1 .. Len(cs) + 2 : r[n].depth = d /\ (r[n].inside <=> n # 1)
  BY <1>1, <1>3, <1>5, <1>7
<1> QED
  BY <1>3, <1>4, <1>5, <1>8, <1>9, <1>10 DEF r

\* A string: its quotes are at one depth, and inside are escaped.
LEMMA FairStr ==
    ASSUME NEW cs \in Seq(Letters), Escaped(cs), NEW d \in 0 .. 2
    PROVE  Fair(Str(cs, d), d, d)
<1> DEFINE p == Str(cs, d)
           m == Len(cs)
<1>1. /\ p \in Seq(Bytes) /\ m \in Nat /\ DOMAIN p = 1 .. m + 2
      /\ DOMAIN cs = 1 .. m
      /\ \A n \in 1 .. m + 2 : p[n].depth = d /\ (p[n].inside <=> n # 1)
      /\ p[1].c = "Q" /\ p[m + 2].c = "Q"
      /\ \A n \in 1 .. m : p[n + 1].c = cs[n]
  BY StrIs
<1> HIDE DEF p, m
<1>3. \A n \in 2 .. m + 1 : p[n].c = cs[n - 1] /\ n - 1 \in 1 .. m
  <2> SUFFICES ASSUME NEW n \in 2 .. m + 1
               PROVE  p[n].c = cs[n - 1] /\ n - 1 \in 1 .. m
    OBVIOUS
  <2>1. n - 1 \in 1 .. m /\ (n - 1) + 1 = n
    BY <1>1
  <2> QED
    BY <1>1, <2>1
<1>5. \A n \in Nat : At(p, d, n) = d
  BY <1>1 DEF At
<1>6. \A n \in DOMAIN p : Deeper(p[n]) = 0
  BY <1>1 DEF Deeper
<1>7. Depths(p, d, d)
  BY <1>1, <1>5, <1>6 DEF Depths
<1>8. PICK es \in SUBSET DOMAIN cs :
          /\ 1 \notin es
          /\ \A n \in DOMAIN cs :
               /\ n + 1 \in es <=> cs[n] = "B" /\ n \notin es
               /\ cs[n] = "Q" => n \in es
  BY DEF Escaped
<1> DEFINE e == {n \in 2 .. m + 1 : n - 1 \in es}
<1>9. \A n \in 1 .. m + 3 : n \in e <=> n - 1 \in es
  BY <1>1, <1>8
<1>10. e \in SUBSET DOMAIN p /\ 1 \notin e
  BY <1>1
<1> HIDE DEF e
<1>11. \A n \in 1 .. m + 3 : In(p, n) <=> n # 1 /\ n # m + 3
  BY <1>1 DEF In
<1>12. ASSUME NEW n \in DOMAIN p
       PROVE  /\ In(p, n + 1) <=> ~ (p[n].inside <=> p[n].c = "Q" /\ n \notin e)
              /\ n + 1 \in e <=> p[n].inside /\ p[n].c = "B" /\ n \notin e
  <2>1. n + 1 \in 1 .. m + 3 /\ n \in 1 .. m + 3 /\ (p[n].inside <=> n # 1)
    BY <1>1
  <2>2. CASE n = 1
    <3>1. In(p, n + 1)
      BY <1>1, <1>11, <2>1, <2>2
    <3>2. n + 1 \notin e
      BY <1>1, <1>8, <1>9, <2>1, <2>2
    <3> QED
      BY <1>1, <1>10, <2>1, <2>2, <3>1, <3>2
  <2>3. CASE n \in 2 .. m + 1
    <3>1. p[n].c = cs[n - 1] /\ p[n].inside /\ n - 1 \in DOMAIN cs
      BY <1>1, <1>3, <2>1, <2>3
    <3>2. /\ (n - 1) + 1 \in es <=> cs[n - 1] = "B" /\ n - 1 \notin es
          /\ cs[n - 1] = "Q" => n - 1 \in es
      BY <1>8, <3>1
    <3>3. (n \in e <=> n - 1 \in es) /\ (n + 1 \in e <=> n \in es)
      BY <1>1, <1>9, <2>1
    <3>4. (n - 1) + 1 = n /\ n + 1 # 1 /\ n + 1 # m + 3
      BY <1>1, <2>3
    <3>5. In(p, n + 1)
      BY <1>11, <2>1, <3>4
    <3> QED
      BY <3>1, <3>2, <3>3, <3>4, <3>5
  <2>4. CASE n = m + 2
    <3>1. n \notin e /\ n + 1 \notin e /\ ~ In(p, n + 1)
      BY <1>1, <1>8, <1>9, <1>11, <2>1, <2>4
    <3> QED
      BY <1>1, <2>1, <2>4, <3>1
  <2> QED
    BY <1>1, <2>2, <2>3, <2>4
<1>13. Strings(p, e)
  BY <1>1, <1>10, <1>11, <1>12 DEF Strings
<1> QED
  BY <1>1, <1>7, <1>13 DEF Fair, p

(***************************************************************************)
(* The response: its annotations are fair, and the billed pair is at m.    *)
(***************************************************************************)
KeyAt(p, count, m) ==
    /\ m \in Nat /\ m + 4 + Len(count) < Len(p)
    /\ p[m + 1].depth = 2 /\ ~ p[m + 1].inside
    /\ \A t \in DOMAIN Pair(count) : p[m + t].c = Pair(count)[t]
    /\ Outside(p, m + 4)

LEMMA OutsideJoin ==
    ASSUME NEW p \in Seq(Bytes), NEW q \in Seq(Bytes), NEW k \in Int,
           Outside(p, k), Outside(q, k - Len(p))
    PROVE  Outside(p \o q, k)
<1> DEFINE r == p \o q
           m == Len(p)
<1>1. /\ m \in Nat /\ Len(q) \in Nat
      /\ DOMAIN p = 1 .. m /\ DOMAIN q = 1 .. Len(q)
      /\ DOMAIN r = 1 .. m + Len(q)
      /\ \A n \in 1 .. m : r[n] = p[n]
      /\ \A n \in m + 1 .. m + Len(q) : r[n] = q[n - m]
  BY Joined
<1> HIDE DEF r
<1>2. ASSUME NEW n \in DOMAIN r, ~ r[n].inside
      PROVE  r[n].c # "t" /\ (r[n].c = "colon" => n = k)
  <2>1. CASE n <= m
    BY <1>1, <1>2, <2>1 DEF Outside
  <2>2. CASE n > m
    <3>1. n - m \in DOMAIN q /\ r[n] = q[n - m]
      BY <1>1, <2>2
    <3>2. r[n].c # "t" /\ (r[n].c = "colon" => n - m = k - m)
      BY <1>2, <3>1 DEF Outside
    <3> QED
      BY <1>1, <3>2
  <2> QED
    BY <1>1, <2>1, <2>2
<1> QED
  BY <1>2 DEF Outside, r

LEMMA OutsideText ==
    ASSUME NEW cs \in Seq(Letters), NEW d \in 0 .. 2, NEW k,
           \A n \in 1 .. Len(cs) : cs[n] # "t" /\ (cs[n] = "colon" => n = k)
    PROVE  Outside(Outer(cs, d), k)
<1>1. \A n \in DOMAIN Outer(cs, d) :
          n \in 1 .. Len(cs) /\ Outer(cs, d)[n].c = cs[n]
  BY OuterIs
<1> QED
  BY <1>1 DEF Outside

LEMMA OutsideStr ==
    ASSUME NEW cs \in Seq(Letters), NEW d \in 0 .. 2, NEW k
    PROVE  Outside(Str(cs, d), k)
<1>1. /\ DOMAIN Str(cs, d) = 1 .. Len(cs) + 2
      /\ \A n \in 1 .. Len(cs) + 2 : Str(cs, d)[n].inside <=> n # 1
      /\ Str(cs, d)[1].c = "Q"
  BY StrIs
<1> QED
  BY <1>1 DEF Outside

LEMMA CountLetters ==
    ASSUME NEW count \in Seq(Figures)
    PROVE  /\ count \in Seq(Letters) /\ Len(count) \in Nat
           /\ DOMAIN count = 1 .. Len(count)
           /\ \A n \in 1 .. Len(count) :
                  count[n] \notin {"Q", "open", "close", "t", "colon", "comma"}
<1>1. Figures \subseteq Letters
  BY DEF Letters
<1>2. \A x \in Figures : x \notin {"Q", "open", "close", "t", "colon", "comma"}
  BY DEF Figures
<1> QED
  BY <1>1, <1>2

\* Behind the billed key: a colon, the count and a closing brace.
LEMMA Billed ==
    ASSUME NEW count \in Seq(Figures)
    PROVE  LET cs == <<"colon">> \o count \o <<"close">>
           IN  /\ cs \in Seq(Letters) /\ Len(cs) = Len(count) + 2
               /\ cs[1] = "colon" /\ cs[Len(count) + 2] = "close"
               /\ \A n \in 1 .. Len(count) : cs[n + 1] = count[n]
               /\ \A n \in 2 .. Len(count) + 1 :
                    cs[n] \notin {"Q", "open", "close", "t", "colon", "comma"}
<1> DEFINE a == <<"colon">>
           b == a \o count
           z == <<"close">>
           cs == b \o z
<1>1. /\ a \in Seq(Letters) /\ Len(a) = 1 /\ a[1] = "colon"
      /\ z \in Seq(Letters) /\ Len(z) = 1 /\ z[1] = "close"
  BY Single, "colon" \in Letters, "close" \in Letters DEF Letters
<1>2. /\ count \in Seq(Letters) /\ Len(count) \in Nat
      /\ \A n \in 1 .. Len(count) :
             count[n] \notin {"Q", "open", "close", "t", "colon", "comma"}
  BY CountLetters
<1> HIDE DEF a, z
<1>3. a \in Seq(Letters) /\ count \in Seq(Letters) /\ z \in Seq(Letters)
  BY <1>1, <1>2
<1>4. /\ b \in Seq(Letters) /\ Len(b) = Len(a) + Len(count)
      /\ \A n \in 1 .. Len(a) : b[n] = a[n]
      /\ \A n \in 1 .. Len(count) : b[Len(a) + n] = count[n]
  BY <1>3, Joined
<1> HIDE DEF b
<1>5. /\ cs \in Seq(Letters) /\ Len(cs) = Len(b) + Len(z)
      /\ \A n \in 1 .. Len(b) : cs[n] = b[n]
      /\ \A n \in 1 .. Len(z) : cs[Len(b) + n] = z[n]
  <2>1. b \in Seq(Letters) /\ z \in Seq(Letters)
    BY <1>3, <1>4
  <2> QED
    BY <2>1, Joined
<1> HIDE DEF cs
<1>6. Len(b) = Len(count) + 1 /\ Len(cs) = Len(count) + 2
  BY <1>1, <1>2, <1>4, <1>5
<1>7. cs[1] = "colon" /\ cs[Len(count) + 2] = "close"
  <2>1. cs[1] = b[1] /\ b[1] = a[1]
    BY <1>1, <1>2, <1>4, <1>5, <1>6
  <2>2. cs[Len(b) + 1] = z[1] /\ Len(b) + 1 = Len(count) + 2
    BY <1>1, <1>2, <1>5, <1>6
  <2> QED
    BY <1>1, <2>1, <2>2
<1>8. ASSUME NEW n \in 1 .. Len(count) PROVE cs[n + 1] = count[n]
  <2>1. Len(a) + n = n + 1 /\ n + 1 \in 1 .. Len(b)
    BY <1>1, <1>2, <1>6
  <2> QED
    BY <1>4, <1>5, <2>1
<1>9. ASSUME NEW n \in 2 .. Len(count) + 1
      PROVE  cs[n] \notin {"Q", "open", "close", "t", "colon", "comma"}
  <2>1. n - 1 \in 1 .. Len(count) /\ (n - 1) + 1 = n
    BY <1>2
  <2>2. cs[n] = count[n - 1]
    BY <1>8, <2>1
  <2> QED
    BY <1>2, <2>1, <2>2
<1> QED
  BY <1>5, <1>6, <1>7, <1>8, <1>9 DEF cs, b, a, z

\* What the pieces of a response are, and what they are put together to.
Piece(p, a, b, k) == Fair(p, a, b) /\ Outside(p, k)

LEMMA PieceJoin ==
    ASSUME NEW p, NEW q, NEW a, NEW b, NEW c, NEW k \in Int,
           Piece(p, a, b, k), Piece(q, b, c, k - Len(p))
    PROVE  Piece(p \o q, a, c, k) /\ p \in Seq(Bytes) /\ q \in Seq(Bytes)
<1>1. /\ Fair(p, a, b) /\ Fair(q, b, c)
      /\ p \in Seq(Bytes) /\ q \in Seq(Bytes)
      /\ Outside(p, k) /\ Outside(q, k - Len(p))
  BY DEF Piece, Fair
<1> QED
  BY <1>1, FairJoin, OutsideJoin DEF Piece

\* The pieces between the strings.
LEMMA OpenPiece == \A k : Piece(Outer(<<"open">>, 0), 0, 1, k)
<1> DEFINE cs == <<"open">>
<1>1. cs \in Seq(Letters) /\ Len(cs) = 1 /\ cs[1] = "open"
  BY Single, "open" \in Letters DEF Letters
<1> HIDE DEF cs
<1>2. (\A n \in 1 .. Len(cs) - 1 : cs[n] \notin {"Q", "open", "close"})
  BY <1>1
<1>3. Fair(Outer(cs, 0), 0, 1)
  BY <1>1, <1>2, 0 \in 0 .. 2, 1 \in Int, 1 = 0 + 1, FairBrace
<1>4. \A k : Outside(Outer(cs, 0), k)
  BY <1>1, OutsideText
<1> QED
  BY <1>3, <1>4 DEF Piece, cs

LEMMA UsagePiece == \A k : Piece(Outer(<<"comma", "open">>, 1), 1, 2, k)
<1> DEFINE cs == <<"comma", "open">>
<1>1. /\ cs \in Seq(Letters) /\ Len(cs) = 2
      /\ cs[1] = "comma" /\ cs[2] = "open"
  BY "comma" \in Letters, "open" \in Letters DEF Letters
<1> HIDE DEF cs
<1>2. (\A n \in 1 .. Len(cs) - 1 : cs[n] \notin {"Q", "open", "close"})
  BY <1>1
<1>3. Fair(Outer(cs, 1), 1, 2)
  <2>1. /\ cs \in Seq(Letters) /\ Len(cs) > 0 /\ 1 \in 0 .. 2 /\ 2 \in Int
        /\ cs[Len(cs)] = "open" /\ 2 = 1 + 1
    BY <1>1
  <2> QED
    BY ONLY <1>2, <2>1, FairBrace
<1>4. \A k : Outside(Outer(cs, 1), k)
  BY <1>1, OutsideText
<1> QED
  BY <1>3, <1>4 DEF Piece, cs

LEMMA CommaPiece == \A k : Piece(Outer(<<"comma">>, 1), 1, 1, k)
<1> DEFINE cs == <<"comma">>
<1>1. cs \in Seq(Letters) /\ Len(cs) = 1 /\ cs[1] = "comma" /\ DOMAIN cs = 1 .. 1
  BY Single, "comma" \in Letters DEF Letters
<1> HIDE DEF cs
<1>2. (\A n \in DOMAIN cs : cs[n] \notin {"Q", "open", "close"})
  BY <1>1
<1>3. Fair(Outer(cs, 1), 1, 1)
  BY <1>1, <1>2, 1 \in 0 .. 2, FairText
<1>4. \A k : Outside(Outer(cs, 1), k)
  BY <1>1, OutsideText
<1> QED
  BY <1>3, <1>4 DEF Piece, cs

LEMMA EndPiece ==
    /\ \A k : Piece(Outer(<<"close">>, 1), 1, 0, k)
    /\ Len(Outer(<<"close">>, 1)) = 1
<1> DEFINE cs == <<"close">>
<1>1. cs \in Seq(Letters) /\ Len(cs) = 1 /\ cs[1] = "close"
  BY Single, "close" \in Letters DEF Letters
<1> HIDE DEF cs
<1>2. (\A n \in 1 .. Len(cs) - 1 : cs[n] \notin {"Q", "open", "close"})
  BY <1>1
<1>3. Fair(Outer(cs, 1), 1, 0)
  BY <1>1, <1>2, 1 \in 0 .. 2, 0 \in Int, 0 = 1 - 1, FairBrace
<1>4. \A k : Outside(Outer(cs, 1), k)
  BY <1>1, OutsideText
<1>5. Len(Outer(cs, 1)) = 1
  BY <1>1, OuterIs
<1> QED
  BY <1>3, <1>4, <1>5 DEF Piece, cs

LEMMA CountPiece ==
    ASSUME NEW ys \in Seq(Letters), NEW m \in Nat, Len(ys) = m + 2,
           ys[1] = "colon", ys[m + 2] = "close",
           \A n \in 2 .. m + 1 :
               ys[n] \notin {"Q", "open", "close", "t", "colon", "comma"}
    PROVE  Piece(Outer(ys, 2), 2, 1, 1)
<1>2. (\A n \in 1 .. Len(ys) - 1 : ys[n] \notin {"Q", "open", "close"})
  <2> SUFFICES ASSUME NEW n \in 1 .. Len(ys) - 1
               PROVE  ys[n] \notin {"Q", "open", "close"}
    OBVIOUS
  <2>1. n = 1 \/ n \in 2 .. m + 1
    OBVIOUS
  <2> QED
    BY <2>1
<1>3. Fair(Outer(ys, 2), 2, 1)
  <2>1. ys[Len(ys)] = "close" /\ Len(ys) > 0
    OBVIOUS
  <2> QED
    BY <1>2, <2>1, 2 \in 0 .. 2, 1 \in Int, 1 = 2 - 1, FairBrace
<1>4. Outside(Outer(ys, 2), 1)
  <2>1. \A n \in 1 .. Len(ys) : ys[n] # "t" /\ (ys[n] = "colon" => n = 1)
    <3> SUFFICES ASSUME NEW n \in 1 .. Len(ys)
                 PROVE  ys[n] # "t" /\ (ys[n] = "colon" => n = 1)
      OBVIOUS
    <3>1. n = 1 \/ n \in 2 .. m + 1 \/ n = m + 2
      OBVIOUS
    <3> QED
      BY <3>1
  <2> QED
    BY <2>1, 2 \in 0 .. 2, OutsideText
<1> QED
  BY <1>3, <1>4 DEF Piece

LEMMA KeyPiece ==
    /\ \A k : Piece(Str(<<"t">>, 2), 2, 2, k)
    /\ Len(Str(<<"t">>, 2)) = 3
    /\ Str(<<"t">>, 2)[1].c = "Q" /\ Str(<<"t">>, 2)[2].c = "t"
    /\ Str(<<"t">>, 2)[3].c = "Q"
    /\ Str(<<"t">>, 2)[1].depth = 2 /\ ~ Str(<<"t">>, 2)[1].inside
<1> DEFINE cs == <<"t">>
<1>1. cs \in Seq(Letters) /\ Len(cs) = 1 /\ cs[1] = "t" /\ DOMAIN cs = 1 .. 1
  BY Single, "t" \in Letters DEF Letters
<1> HIDE DEF cs
<1>2. Escaped(cs)
  <2>1. {} \in SUBSET DOMAIN cs /\ 1 \notin {}
    OBVIOUS
  <2>2. \A n \in DOMAIN cs :
             /\ n + 1 \in {} <=> cs[n] = "B" /\ n \notin {}
             /\ cs[n] = "Q" => n \in {}
    BY <1>1
  <2> QED
    BY <2>1, <2>2 DEF Escaped
<1>3. Fair(Str(cs, 2), 2, 2) /\ \A k : Outside(Str(cs, 2), k)
  BY <1>1, <1>2, 2 \in 0 .. 2, FairStr, OutsideStr
<1>4. cs \in Seq(Letters) /\ 2 \in 0 .. 2
  BY <1>1
<1>5. /\ Len(Str(cs, 2)) = Len(cs) + 2
      /\ \A n \in 1 .. Len(cs) + 2 :
           Str(cs, 2)[n].depth = 2 /\ (Str(cs, 2)[n].inside <=> n # 1)
      /\ Str(cs, 2)[1].c = "Q" /\ Str(cs, 2)[Len(cs) + 2].c = "Q"
      /\ \A n \in 1 .. Len(cs) : Str(cs, 2)[n + 1].c = cs[n]
  BY ONLY <1>4, StrIs
<1>6. Len(cs) + 2 = 3 /\ 1 \in 1 .. Len(cs) + 2 /\ 1 \in 1 .. Len(cs) /\ 1 + 1 = 2
  BY <1>1
<1>7. /\ Len(Str(cs, 2)) = 3
      /\ Str(cs, 2)[1].c = "Q" /\ Str(cs, 2)[2].c = "t" /\ Str(cs, 2)[3].c = "Q"
      /\ Str(cs, 2)[1].depth = 2 /\ ~ Str(cs, 2)[1].inside
  BY <1>1, <1>5, <1>6
<1> QED
  BY <1>3, <1>7 DEF Piece, cs

LEMMA PairIs ==
    ASSUME NEW v \in Seq(Figures)
    PROVE  /\ Pair(v) \in Seq(Letters) /\ Len(Pair(v)) = Len(v) + 4
           /\ DOMAIN Pair(v) = 1 .. Len(v) + 4
           /\ Pair(v)[1] = "Q" /\ Pair(v)[2] = "t" /\ Pair(v)[3] = "Q"
           /\ Pair(v)[4] = "colon"
           /\ \A n \in 1 .. Len(v) : Pair(v)[n + 4] = v[n]
<1> DEFINE a == <<"Q", "t", "Q", "colon">>
<1>1. /\ a \in Seq(Letters) /\ Len(a) = 4
      /\ a[1] = "Q" /\ a[2] = "t" /\ a[3] = "Q" /\ a[4] = "colon"
  BY "Q" \in Letters, "t" \in Letters, "colon" \in Letters DEF Letters
<1>2. v \in Seq(Letters) /\ Len(v) \in Nat
  BY CountLetters
<1>3. Pair(v) = a \o v
  BY DEF Pair
<1> HIDE DEF a
<1>4. a \in Seq(Letters) /\ v \in Seq(Letters)
  BY <1>1, <1>2
<1>5. /\ Pair(v) \in Seq(Letters) /\ Len(Pair(v)) = Len(a) + Len(v)
      /\ DOMAIN Pair(v) = 1 .. Len(a) + Len(v)
      /\ \A n \in 1 .. Len(a) : Pair(v)[n] = a[n]
      /\ \A n \in 1 .. Len(v) : Pair(v)[Len(a) + n] = v[n]
  BY ONLY <1>3, <1>4, Joined
<1>6. \A n \in 1 .. Len(v) : Len(a) + n = n + 4
  BY <1>1, <1>2
<1>7. Len(a) + Len(v) = Len(v) + 4
  BY <1>1, <1>2
<1> QED
  BY <1>1, <1>5, <1>6, <1>7

LEMMA ResponseIs ==
    ASSUME NEW echo \in Seq(Letters), Escaped(echo),
           NEW id \in Seq(Letters), Escaped(id), NEW count \in Seq(Figures)
    PROVE  /\ Fair(Response(echo, count, id), 0, 0)
           /\ \E m : KeyAt(Response(echo, count, id), count, m)
<1> DEFINE ys == <<"colon">> \o count \o <<"close">>
           p1 == Outer(<<"open">>, 0)
           p2 == Str(echo, 1)
           p3 == Outer(<<"comma", "open">>, 1)
           p4 == Str(<<"t">>, 2)
           p5 == Outer(ys, 2)
           p6 == Outer(<<"comma">>, 1)
           p7 == Str(id, 1)
           p8 == Outer(<<"close">>, 1)
           b == p1 \o p2 \o p3
           r == b \o p4 \o p5 \o p6 \o p7 \o p8
<1>a. Response(echo, count, id) = r
  BY DEF Response
<1>0. /\ ys \in Seq(Letters) /\ Len(ys) = Len(count) + 2
      /\ ys[1] = "colon" /\ ys[Len(count) + 2] = "close"
      /\ \A n \in 1 .. Len(count) : ys[n + 1] = count[n]
      /\ \A n \in 2 .. Len(count) + 1 :
             ys[n] \notin {"Q", "open", "close", "t", "colon", "comma"}
      /\ Len(count) \in Nat
  BY Billed
<1> HIDE DEF ys
<1>1. \A k : Piece(p1, 0, 1, k)
  BY OpenPiece
<1>2. \A k : Piece(p2, 1, 1, k)
  BY FairStr, OutsideStr DEF Piece
<1>3. \A k : Piece(p3, 1, 2, k)
  BY UsagePiece
<1>4. (\A k : Piece(p4, 2, 2, k)) /\ Len(p4) = 3
  BY KeyPiece
<1>5. Piece(p5, 2, 1, 1)
  BY <1>0, CountPiece
<1>6. \A k : Piece(p6, 1, 1, k)
  BY CommaPiece
<1>7. \A k : Piece(p7, 1, 1, k)
  BY FairStr, OutsideStr DEF Piece
<1>8. (\A k : Piece(p8, 1, 0, k)) /\ Len(p8) = 1
  BY EndPiece
<1>9. /\ p5 \in Seq(Bytes) /\ Len(p5) = Len(count) + 2
      /\ p5[1].c = "colon"
      /\ \A n \in 1 .. Len(count) : p5[n + 1].c = count[n]
  <2>1. /\ p5 \in Seq(Bytes) /\ Len(p5) = Len(ys)
        /\ \A n \in 1 .. Len(ys) : p5[n].c = ys[n]
    BY <1>0, OuterIs
  <2> HIDE DEF p5
  <2>2. \A n \in 1 .. Len(count) : n + 1 \in 1 .. Len(ys)
    BY <1>0
  <2> QED
    BY <1>0, <2>1, <2>2
<1>10. /\ p4[1].c = "Q" /\ p4[2].c = "t" /\ p4[3].c = "Q"
       /\ p4[1].depth = 2 /\ ~ p4[1].inside
  BY KeyPiece
<1> HIDE DEF p1, p2, p3, p4, p5, p6, p7, p8
<1>11. \A k \in Int : Piece(p1 \o p2, 0, 1, k)
  BY <1>1, <1>2, PieceJoin
<1>12. \A k \in Int : Piece(b, 0, 2, k)
  BY <1>11, <1>3, PieceJoin
<1>13. b \in Seq(Bytes) /\ Len(b) \in Nat
  BY <1>12, 0 \in Int DEF Piece, Fair
<1> DEFINE m == Len(b)
           k == m + 4
           q1 == b \o p4
           q2 == q1 \o p5
           q3 == q2 \o p6
           q4 == q3 \o p7
<1> HIDE DEF b
<1>14. Piece(q1, 0, 2, k) /\ q1 \in Seq(Bytes) /\ p4 \in Seq(Bytes)
  <2>1. Piece(b, 0, 2, k) /\ Piece(p4, 2, 2, k - Len(b)) /\ k \in Int
    BY <1>12, <1>13, <1>4
  <2> HIDE DEF k
  <2> QED
    BY <2>1, PieceJoin DEF Piece, Fair
<1>15. Len(q1) = m + 3
  <2>1. b \in Seq(Bytes) /\ p4 \in Seq(Bytes)
    BY <1>13, <1>14
  <2>2. Len(q1) = Len(b) + Len(p4)
    BY <2>1, Joined
  <2> QED
    BY <1>4, <2>2
<1> HIDE DEF q1
<1>16. Piece(q2, 0, 1, k) /\ q2 \in Seq(Bytes)
  <2>1. Piece(q1, 0, 2, k) /\ Piece(p5, 2, 1, k - Len(q1)) /\ k \in Int
    BY <1>13, <1>14, <1>15, <1>5
  <2> HIDE DEF k
  <2> QED
    BY <2>1, PieceJoin DEF Piece, Fair
<1>17. Len(q2) = m + Len(count) + 5
  <2>1. Len(q2) = Len(q1) + Len(p5)
    BY <1>9, <1>14, Joined
  <2> QED
    BY <2>1, <1>0, <1>9, <1>13, <1>15
<1> HIDE DEF q2, k
<1>b. k \in Int
  BY <1>13 DEF k
<1>18. /\ Piece(q3, 0, 1, k) /\ q3 \in Seq(Bytes) /\ p6 \in Seq(Bytes)
  BY <1>b, <1>16, <1>6, PieceJoin DEF Piece, Fair
<1> HIDE DEF q3
<1>19. /\ Piece(q4, 0, 1, k) /\ q4 \in Seq(Bytes) /\ p7 \in Seq(Bytes)
  BY <1>b, <1>18, <1>7, PieceJoin DEF Piece, Fair
<1> HIDE DEF q4
<1>20. /\ Piece(r, 0, 0, k) /\ r \in Seq(Bytes) /\ p8 \in Seq(Bytes)
  BY <1>b, <1>19, <1>8, PieceJoin DEF Piece, Fair, q4, q3, q2, q1
<1> HIDE DEF r
<1>21. /\ Len(r) > m + 4 + Len(count)
       /\ \A n \in 1 .. m + Len(count) + 5 : r[n] = q2[n]
  <2>1. /\ Len(q3) = Len(q2) + Len(p6) /\ Len(p6) \in Nat
        /\ \A n \in 1 .. Len(q2) : q3[n] = q2[n]
    BY <1>16, <1>18, Joined DEF q3
  <2>2. /\ Len(q4) = Len(q3) + Len(p7) /\ Len(p7) \in Nat
        /\ \A n \in 1 .. Len(q3) : q4[n] = q3[n]
    BY <1>18, <1>19, Joined DEF q4
  <2>3. r = q4 \o p8
    BY DEF r, q4, q3, q2, q1
  <2>4. /\ Len(r) = Len(q4) + Len(p8) /\ Len(p8) \in Nat
        /\ \A n \in 1 .. Len(q4) : r[n] = q4[n]
    BY <1>19, <1>20, <2>3, Joined
  <2>5. Len(q2) \in Nat /\ Len(q2) <= Len(q3) /\ Len(q3) <= Len(q4)
    BY <1>0, <1>13, <1>17, <2>1, <2>2
  <2>6. Len(r) > m + 4 + Len(count)
    BY <1>0, <1>8, <1>13, <1>17, <2>1, <2>2, <2>4
  <2>7. ASSUME NEW n \in 1 .. m + Len(count) + 5 PROVE r[n] = q2[n]
    <3>1. n \in 1 .. Len(q2) /\ n \in 1 .. Len(q3) /\ n \in 1 .. Len(q4)
      BY <1>0, <1>13, <1>17, <2>1, <2>2, <2>5
    <3> QED
      BY <3>1, <2>1, <2>2, <2>4
  <2> QED
    BY <2>6, <2>7
<1>22. \A n \in 1 .. 3 : r[m + n] = p4[n]
  <2>1. /\ \A n \in 1 .. Len(p4) : q1[m + n] = p4[n]
        /\ \A n \in 1 .. Len(q1) : q2[n] = q1[n]
    BY <1>9, <1>13, <1>14, Joined DEF q1, q2
  <2>2. ASSUME NEW n \in 1 .. 3 PROVE r[m + n] = p4[n]
    <3>1. n \in 1 .. Len(p4) /\ m + n \in 1 .. Len(q1)
          /\ m + n \in 1 .. m + Len(count) + 5
      BY <1>0, <1>4, <1>13, <1>15
    <3> QED
      BY <1>21, <2>1, <3>1
  <2> QED
    BY <2>2
<1>23. \A n \in 1 .. Len(count) + 1 : r[m + 3 + n] = p5[n]
  <2>1. \A n \in 1 .. Len(p5) : q2[Len(q1) + n] = p5[n]
    BY <1>9, <1>14, Joined DEF q2
  <2>2. ASSUME NEW n \in 1 .. Len(count) + 1 PROVE r[m + 3 + n] = p5[n]
    <3>1. n \in 1 .. Len(p5) /\ Len(q1) + n = m + 3 + n
          /\ m + 3 + n \in 1 .. m + Len(count) + 5
      BY <1>0, <1>9, <1>13, <1>15
    <3> QED
      BY <1>21, <2>1, <3>1
  <2> QED
    BY <2>2
<1>24. ASSUME NEW t \in DOMAIN Pair(count) PROVE r[m + t].c = Pair(count)[t]
  <2>1. /\ DOMAIN Pair(count) = 1 .. Len(count) + 4
        /\ Pair(count)[1] = "Q" /\ Pair(count)[2] = "t" /\ Pair(count)[3] = "Q"
        /\ Pair(count)[4] = "colon"
        /\ \A n \in 1 .. Len(count) : Pair(count)[n + 4] = count[n]
    BY PairIs
  <2>2. CASE t \in 1 .. 3
    BY <1>10, <1>22, <2>1, <2>2
  <2>3. CASE t = 4
    <3>1. r[m + 3 + 1] = p5[1] /\ m + 3 + 1 = m + t
      BY <1>0, <1>13, <1>23, <2>3
    <3> QED
      BY <1>9, <2>1, <2>3, <3>1
  <2>4. CASE t \in 5 .. Len(count) + 4
    <3>1. /\ t - 3 \in 1 .. Len(count) + 1 /\ m + 3 + (t - 3) = m + t
          /\ t - 4 \in 1 .. Len(count) /\ (t - 4) + 1 = t - 3
          /\ (t - 4) + 4 = t
      BY <1>0, <1>13, <2>4
    <3>2. r[m + t] = p5[t - 3]
      BY <1>23, <3>1
    <3>3. p5[t - 3].c = count[t - 4]
      BY <1>9, <3>1
    <3>4. Pair(count)[t] = count[t - 4]
      BY <2>1, <3>1
    <3> QED
      BY <3>2, <3>3, <3>4
  <2> QED
    BY <1>0, <2>1, <2>2, <2>3, <2>4
<1>25. r[m + 1].depth = 2 /\ ~ r[m + 1].inside
  BY <1>10, <1>22
<1>26. KeyAt(r, count, m)
  BY <1>13, <1>20, <1>21, <1>24, <1>25 DEF KeyAt, Piece, k
<1> QED
  BY <1>a, <1>20, <1>26 DEF Piece

(***************************************************************************)
(* The billed pair is found nowhere else: what looks like it inside of a   *)
(* string would have to be followed by a colon outside of one, and what    *)
(* begins with a closing quote by a "t" outside of one.                    *)
(***************************************************************************)
LEMMA OnlyThere ==
    ASSUME NEW p \in Seq(Bytes), NEW es, Strings(p, es), NEW k \in Int,
           Outside(p, k), NEW n \in Nat, n + 4 <= Len(p),
           p[n + 1].c = "Q", p[n + 2].c = "t", p[n + 3].c = "Q",
           p[n + 4].c = "colon"
    PROVE  n + 4 = k
<1>1. /\ n + 1 \in DOMAIN p /\ n + 2 \in DOMAIN p
      /\ n + 3 \in DOMAIN p /\ n + 4 \in DOMAIN p
  BY DEF Bytes
<1>2. \A i \in DOMAIN p :
          /\ In(p, i) <=> p[i].inside
          /\ In(p, i + 1) <=> ~ (p[i].inside <=> p[i].c = "Q" /\ i \notin es)
          /\ i + 1 \in es <=> p[i].inside /\ p[i].c = "B" /\ i \notin es
  BY DEF Strings, In
<1>3. (n + 1) + 1 = n + 2 /\ (n + 2) + 1 = n + 3 /\ (n + 3) + 1 = n + 4
  OBVIOUS
<1>4. n + 1 \in es => p[n + 1].inside
  <2>1. CASE n = 0
    BY <2>1 DEF Strings
  <2>2. CASE n > 0
    <3>1. n \in DOMAIN p
      BY <1>1, <2>2
    <3>2. n + 1 \in es => p[n].inside /\ p[n].c = "B"
      BY <1>2, <3>1
    <3>3. n + 1 \in es => In(p, n + 1)
      BY <1>2, <3>1, <3>2
    <3> QED
      BY <1>1, <1>2, <3>3
  <2> QED
    BY <2>1, <2>2
<1>5. /\ In(p, n + 2) <=> ~ (p[n + 1].inside <=> n + 1 \notin es)
      /\ n + 2 \notin es
  BY <1>1, <1>2, <1>3
<1>6. /\ p[n + 2].inside <=> In(p, n + 2)
      /\ In(p, n + 3) <=> p[n + 2].inside
      /\ n + 3 \notin es
  BY <1>1, <1>2, <1>3, <1>5
<1>7. /\ p[n + 3].inside <=> In(p, n + 3)
      /\ In(p, n + 4) <=> ~ p[n + 3].inside
      /\ p[n + 4].inside <=> In(p, n + 4)
  BY <1>1, <1>2, <1>3, <1>6
<1>8. CASE p[n + 2].inside
  <2>1. ~ p[n + 4].inside
    BY <1>6, <1>7, <1>8
  <2> QED
    BY <1>1, <2>1 DEF Outside
<1>9. CASE ~ p[n + 2].inside
  BY <1>1, <1>9 DEF Outside
<1> QED
  BY <1>8, <1>9

(***************************************************************************)
(* What every state knows of the response, and of the record around it.    *)
(***************************************************************************)
LEMMA RespIs ==
    ASSUME Given
    PROVE  /\ resp \in Seq(Bytes) /\ Len(resp) \in Nat
           /\ DOMAIN resp = 1 .. Len(resp)
           /\ Depths(resp, 0, 0) /\ Strings(resp, Escapes)
           /\ \E m : KeyAt(resp, claim.truth, m)
<1>1. PICK echo \in Echo, id \in Id : resp = Response(echo, claim.truth, id)
  BY DEF Given
<1>2. claim.truth \in Count
  BY DEF Given, Claims
<1>3. /\ echo \in Seq(Letters) /\ Escaped(echo)
      /\ id \in Seq(Letters) /\ Escaped(id)
      /\ claim.truth \in Seq(Figures)
  BY <1>2, TextsAssumption
<1>4. Fair(resp, 0, 0) /\ \E m : KeyAt(resp, claim.truth, m)
  BY <1>1, <1>3, ResponseIs
<1>5. resp \in Seq(Bytes) /\ Depths(resp, 0, 0) /\ \E es : Strings(resp, es)
  BY <1>4 DEF Fair
<1>6. Strings(resp, Escapes)
  BY <1>5 DEF Escapes
<1> QED
  BY <1>4, <1>5, <1>6

LEMMA CountsAre ==
    ASSUME NEW v \in Count
    PROVE  /\ v \in Seq(Figures) /\ Len(v) \in Nat
           /\ Len(Pair(v)) = Len(v) + 4 /\ DOMAIN Pair(v) = 1 .. Len(v) + 4
           /\ Pair(v)[1] = "Q" /\ Pair(v)[2] = "t" /\ Pair(v)[3] = "Q"
           /\ Pair(v)[4] = "colon"
           /\ \A n \in 1 .. Len(v) : Pair(v)[n + 4] = v[n]
<1>1. v \in Seq(Figures)
  BY TextsAssumption
<1> QED
  BY <1>1, PairIs

LEMMA FoundIs ==
    ASSUME Given, NEW v \in Count, NEW n \in Found(v)
    PROVE  /\ n \in Nat /\ n + Len(v) + 4 <= Len(resp)
           /\ KeyAt(resp, claim.truth, n)
           /\ \A m : KeyAt(resp, claim.truth, m) => m = n
<1>1. /\ n \in 0 .. Len(resp) - (Len(v) + 4)
      /\ \A t \in 1 .. Len(v) + 4 : resp[n + t].c = Pair(v)[t]
  BY CountsAre DEF Found
<1>2. n \in Nat /\ n + Len(v) + 4 <= Len(resp) /\ Len(v) \in Nat
  BY <1>1, RespIs, CountsAre
<1>3. /\ resp[n + 1].c = "Q" /\ resp[n + 2].c = "t" /\ resp[n + 3].c = "Q"
      /\ resp[n + 4].c = "colon"
  <2>1. /\ 1 \in 1 .. Len(v) + 4 /\ 2 \in 1 .. Len(v) + 4
        /\ 3 \in 1 .. Len(v) + 4 /\ 4 \in 1 .. Len(v) + 4
    BY <1>2
  <2>2. /\ Pair(v)[1] = "Q" /\ Pair(v)[2] = "t" /\ Pair(v)[3] = "Q"
        /\ Pair(v)[4] = "colon"
    BY CountsAre
  <2> QED
    BY <1>1, <2>1, <2>2
<1>4. ASSUME NEW m, KeyAt(resp, claim.truth, m) PROVE m = n
  <2>1. m \in Nat /\ Outside(resp, m + 4)
    BY <1>4 DEF KeyAt
  <2>2. /\ resp \in Seq(Bytes) /\ Strings(resp, Escapes) /\ n + 4 <= Len(resp)
        /\ m + 4 \in Int
    BY <1>2, <2>1, RespIs
  <2>3. n + 4 = m + 4
    BY ONLY <1>2, <1>3, <2>1, <2>2, OnlyThere
  <2> QED
    BY <1>2, <2>1, <2>3
<1>5. \E m : KeyAt(resp, claim.truth, m)
  BY RespIs
<1> QED
  BY <1>2, <1>4, <1>5

LEMMA KeyFound ==
    ASSUME Given, NEW m, KeyAt(resp, claim.truth, m)
    PROVE  Found(claim.truth) = {m}
<1>1. claim.truth \in Count
  BY DEF Given, Claims
<1>2. m \in Found(claim.truth)
  <2> DEFINE v == claim.truth
  <2>1. Len(Pair(v)) = Len(v) + 4 /\ Len(v) \in Nat /\ Len(resp) \in Nat
    BY <1>1, CountsAre, RespIs
  <2>2. /\ m \in Nat /\ m + 4 + Len(v) < Len(resp)
        /\ \A t \in DOMAIN Pair(v) : resp[m + t].c = Pair(v)[t]
    BY DEF KeyAt
  <2>3. m \in 0 .. Len(resp) - Len(Pair(v))
    BY <2>1, <2>2
  <2> QED
    BY <2>2, <2>3 DEF Found
<1>3. ASSUME NEW n \in Found(claim.truth) PROVE n = m
  BY <1>1, FoundIs
<1> QED
  BY <1>2, <1>3

LEMMA WireIs ==
    ASSUME Given
    PROVE  /\ Wire \in Seq(Letters \cup TagByte)
           /\ Len(Wire) = Len(resp) + 1 + TagLen
           /\ \A n \in 1 .. Len(resp) : Wire[n] = resp[n].c
           /\ Wire[Len(resp) + 1] = "x"
           /\ \A n \in 1 .. TagLen : Wire[Len(resp) + 1 + n] = tag[n]
<1> DEFINE S == Letters \cup TagByte
           a == [n \in DOMAIN resp |-> resp[n].c]
           z == <<"x">>
           b == a \o z
<1>1. /\ resp \in Seq(Bytes) /\ Len(resp) \in Nat
      /\ DOMAIN resp = 1 .. Len(resp)
  BY RespIs
<1>2. /\ a \in Seq(S) /\ Len(a) = Len(resp)
      /\ \A n \in 1 .. Len(resp) : a[n] = resp[n].c
  <2>1. \A n \in 1 .. Len(resp) : resp[n] \in Bytes
    BY <1>1
  <2>2. \A n \in 1 .. Len(resp) : resp[n].c \in Letters
    BY <2>1 DEF Bytes
  <2>3. a \in [1 .. Len(resp) -> S]
    BY <1>1, <2>2
  <2> QED
    BY <1>1, <2>3
<1>3. z \in Seq(S) /\ Len(z) = 1 /\ z[1] = "x"
  BY Single, "x" \in S DEF Letters
<1>4. tag \in Seq(S) /\ Len(tag) = TagLen /\ TagLen \in Nat
  <2>1. tag \in [1 .. TagLen -> TagByte] /\ TagLen \in Nat
    BY SizesAssumption DEF Given
  <2>2. tag \in [1 .. TagLen -> S]
    BY <2>1
  <2> QED
    BY <2>1, <2>2
<1>5. Wire = b \o tag
  BY DEF Wire
<1> HIDE DEF a, z, S
<1>6. /\ b \in Seq(S) /\ Len(b) = Len(a) + Len(z)
      /\ \A n \in 1 .. Len(a) : b[n] = a[n]
      /\ \A n \in 1 .. Len(z) : b[Len(a) + n] = z[n]
  <2>1. a \in Seq(S) /\ z \in Seq(S)
    BY <1>2, <1>3
  <2> QED
    BY <2>1, Joined
<1> HIDE DEF b
<1>7. /\ Wire \in Seq(S) /\ Len(Wire) = Len(b) + Len(tag)
      /\ \A n \in 1 .. Len(b) : Wire[n] = b[n]
      /\ \A n \in 1 .. Len(tag) : Wire[Len(b) + n] = tag[n]
  <2>1. b \in Seq(S) /\ tag \in Seq(S)
    BY <1>4, <1>6
  <2> QED
    BY <1>5, <2>1, Joined
<1>8. Len(b) = Len(resp) + 1 /\ Len(Wire) = Len(resp) + 1 + TagLen
  BY <1>1, <1>2, <1>3, <1>4, <1>6, <1>7
<1>9. Wire[Len(resp) + 1] = "x"
  BY <1>1, <1>2, <1>3, <1>6, <1>7, <1>8
<1>10. \A n \in 1 .. Len(resp) : Wire[n] = resp[n].c
  BY <1>1, <1>2, <1>6, <1>7, <1>8
<1> QED
  BY <1>4, <1>7, <1>8, <1>9, <1>10 DEF S

(***************************************************************************)
(* The window.                                                             *)
(***************************************************************************)
LEMMA Ceiling ==
    ASSUME NEW n \in Nat
    PROVE  /\ Ceil(n) \in Nat /\ BS * Ceil(n) \in Nat
           /\ n <= BS * Ceil(n) /\ BS * Ceil(n) < n + BS
           /\ n \div BS \in Nat /\ BS * (n \div BS) \in Nat
           /\ BS * (n \div BS) <= n /\ n < BS * (n \div BS) + BS
<1>1. \A k \in Nat : /\ k = BS * (k \div BS) + (k % BS)
                     /\ k \div BS \in Nat /\ k % BS \in 0 .. BS - 1
                     /\ BS * (k \div BS) \in Nat
  BY SizesAssumption
<1>2. n + BS - 1 \in Nat
  BY SizesAssumption
<1> QED
  BY <1>1, <1>2, SizesAssumption DEF Ceil

LEMMA Multiples ==
    ASSUME NEW u \in Nat, NEW w \in Nat
    PROVE  /\ BS * u \in Nat /\ BS * w \in Nat
           /\ BS * (u + w) = BS * u + BS * w
           /\ u < w => BS * u + BS <= BS * w
<1>1. BS * u \in Nat /\ BS * w \in Nat /\ BS * (u + w) = BS * u + BS * w
  BY SizesAssumption
<1>2. ASSUME u < w PROVE BS * u + BS <= BS * w
  <2>1. w - u >= 1
    BY <1>2
  <2>2. BS * (w - u) >= BS
    BY <2>1, SizesAssumption
  <2>3. BS * (w - u) = BS * w - BS * u
    BY SizesAssumption
  <2> QED
    BY <1>1, <2>2, <2>3, SizesAssumption
<1> QED
  BY <1>1, <1>2

\* What select_window returns for the bytes s .. e of a record of L bytes.
SelectsFor(w, L, s, e) ==
    /\ w.o \in Nat /\ w.blocks \in Nat /\ w.j \in Nat /\ w.k \in Int
    /\ BS * w.o \in Nat /\ BS * (w.o + w.blocks) \in Nat
    /\ BS * w.o + w.j = s /\ w.k = w.j + (e - s) - 1
    /\ w.rho \in {"fwd", "rev"}
    /\ w.rho = "fwd" => w.o = 0
    /\ w.rho = "rev" => L <= BS * (w.o + w.blocks)
    /\ e <= BS * (w.o + w.blocks)
    /\ BS * (w.o + w.blocks) < L + BS
    /\ w.blocks <= Ceil(e)
    /\ w.blocks <= Ceil(L) - (s \div BS)

LEMMA SelectIs ==
    ASSUME NEW L \in Nat, NEW s \in Nat, NEW e \in Nat, s < e, e <= L
    PROVE  SelectsFor(SelectWindow(L, s, e), L, s, e)
<1> DEFINE w == SelectWindow(L, s, e)
           o == s \div BS
           fwd == Ceil(e)
           all == Ceil(L)
<1>1. /\ BS \in Nat /\ BS > 0
      /\ o \in Nat /\ fwd \in Nat /\ all \in Nat
      /\ BS * o \in Nat /\ BS * fwd \in Nat /\ BS * all \in Nat
      /\ BS * o <= s
      /\ e <= BS * fwd /\ BS * fwd < e + BS
      /\ L <= BS * all /\ BS * all < L + BS
  BY Ceiling, SizesAssumption
<1>2. o <= all
  <2>1. SUFFICES ASSUME all < o PROVE FALSE
    BY <1>1
  <2>2. BS * all + BS <= BS * o
    BY <1>1, <2>1, Multiples
  <2> QED
    BY <1>1, <2>2
<1>3. w = IF all - o < fwd
            THEN [o |-> o, blocks |-> all - o, rho |-> "rev",
                  j |-> s - BS * o, k |-> e - BS * o - 1]
            ELSE [o |-> 0, blocks |-> fwd, rho |-> "fwd",
                  j |-> s, k |-> e - 1]
  BY DEF SelectWindow
<1> SUFFICES SelectsFor(w, L, s, e)
  OBVIOUS
<1> HIDE DEF w, o, fwd, all
<1>6. PICK x \in Nat : x = BS * o
  BY <1>1
<1>7. PICK y \in Nat : y = BS * all
  BY <1>1
<1>8. PICK u \in Nat : u = BS * fwd
  BY <1>1
<1>9. x <= s /\ e <= u /\ u < e + BS /\ L <= y /\ y < L + BS
  BY <1>1, <1>6, <1>7, <1>8
<1>4. CASE all - o < fwd
  <2>1. /\ w.o = o /\ w.blocks = all - o /\ w.rho = "rev"
        /\ w.j = s - x /\ w.k = e - x - 1
    BY <1>3, <1>4, <1>6
  <2>2. w.o + w.blocks = all
    BY <1>1, <1>2, <2>1
  <2>3. BS * w.o = x /\ BS * (w.o + w.blocks) = y
    BY <1>6, <1>7, <2>1, <2>2
  <2>4. /\ w.o \in Nat /\ w.blocks \in Nat /\ w.j \in Nat /\ w.k \in Int
        /\ w.k = w.j + (e - s) - 1 /\ x + w.j = s
    BY <1>1, <1>2, <1>9, <2>1
  <2>5. w.blocks <= fwd /\ w.blocks <= all - o
    BY <1>1, <1>4, <2>1
  <2>6. w.rho \in {"fwd", "rev"} /\ w.rho # "fwd"
    BY <2>1
  <2>7. L <= y /\ e <= y /\ y < L + BS
    BY <1>1, <1>9
  <2> QED
    BY <1>6, <1>7, <1>8, <2>3, <2>4, <2>5, <2>6, <2>7
    DEF SelectsFor, o, fwd, all
<1>5. CASE ~ (all - o < fwd)
  <2>1. /\ w.o = 0 /\ w.blocks = fwd /\ w.rho = "fwd"
        /\ w.j = s /\ w.k = e - 1
    BY <1>3, <1>5
  <2>2. w.o + w.blocks = fwd /\ BS * 0 = 0
    BY <1>1, <2>1
  <2>3. BS * w.o = 0 /\ BS * (w.o + w.blocks) = u
    BY <1>8, <2>1, <2>2
  <2>4. /\ w.o \in Nat /\ w.blocks \in Nat /\ w.j \in Nat /\ w.k \in Int
        /\ w.k = w.j + (e - s) - 1 /\ 0 + w.j = s /\ 0 \in Nat
    BY <1>1, <2>1
  <2>5. w.blocks <= fwd /\ w.blocks <= all - o
    BY <1>1, <1>5, <2>1
  <2>6. w.rho \in {"fwd", "rev"} /\ w.rho # "rev" /\ w.o = 0
    BY <2>1
  <2>7. e <= u /\ u < L + BS
    BY <1>1, <1>9
  <2> QED
    BY <1>6, <1>7, <1>8, <2>3, <2>4, <2>5, <2>6, <2>7
    DEF SelectsFor, o, fwd, all
<1> QED
  BY <1>4, <1>5

\* The window that was chosen for the pair found at s.
ChosenAt(s) ==
    /\ win.o \in Nat /\ win.j \in Nat /\ win.k \in Nat
    /\ BS * win.o \in Nat /\ BS * win.o + win.j = s
    /\ win.k = win.j + Len(claim.at) + 3
    /\ win.rho \in {"fwd", "rev"}
    /\ win.rho = "fwd" => win.o = 0
    /\ Len(Window) \in Nat /\ win.k < Len(Window)
    /\ DOMAIN Window = 1 .. Len(Window)
    /\ BS * win.o + Len(Window) <= Len(Wire)
    /\ win.rho = "rev" => BS * win.o + Len(Window) = Len(Wire)
    /\ claim.share => \A n \in 1 .. Len(Window) : Window[n] = Wire[Abs(n)]
    /\ ~ claim.share => \A n \in 1 .. Len(Window) : Window[n] = "garbage"

LEMMA SliceIs ==
    ASSUME NEW S, NEW seq \in Seq(S), NEW a \in Nat, NEW z \in Nat,
           a <= z, z <= Len(seq)
    PROVE  /\ SubSeq(seq, a + 1, z) \in Seq(S)
           /\ Len(SubSeq(seq, a + 1, z)) = z - a
           /\ \A n \in 1 .. z - a : SubSeq(seq, a + 1, z)[n] = seq[a + n]
<1>1. Len(seq) \in Nat
  OBVIOUS
<1>2. CASE a = z
  <2>1. SubSeq(seq, a + 1, z) = <<>>
    BY <1>1, <1>2, SubSeqProperties
  <2> QED
    BY <1>2, <2>1
<1>3. CASE a < z
  <2>1. a + 1 \in 1 .. z + 1 /\ z \in a + 1 - 1 .. Len(seq)
    BY <1>1
  <2>2. /\ SubSeq(seq, a + 1, z) \in Seq(S)
        /\ Len(SubSeq(seq, a + 1, z)) = z - (a + 1) + 1
        /\ \A n \in 1 .. z - (a + 1) + 1 :
               SubSeq(seq, a + 1, z)[n] = seq[(a + 1) + n - 1]
    BY <1>1, <1>3, <2>1, SubSeqProperties
  <2>3. z - (a + 1) + 1 = z - a /\ \A n \in 1 .. z - a : (a + 1) + n - 1 = a + n
    OBVIOUS
  <2> QED
    BY <2>2, <2>3
<1> QED
  BY <1>2, <1>3

LEMMA WindowIs ==
    ASSUME Given, Chosen
    PROVE  /\ \E s \in Found(claim.at) : ChosenAt(s)
           /\ WindowFits
<1>1. PICK s \in Found(claim.at) :
          win = SelectWindow(Len(Wire), s, s + Len(Pair(claim.at)))
  BY DEF Chosen
<1> DEFINE L == Len(Wire)
           e == s + Len(Pair(claim.at))
           z == IF BS * (win.o + win.blocks) < L THEN BS * (win.o + win.blocks) ELSE L
           S == Letters \cup TagByte
           bytes == SubSeq(Wire, BS * win.o + 1, z)
<1>2. claim.at \in Count /\ (claim.share \in BOOLEAN)
  BY DEF Given, Claims
<1>3. /\ s \in Nat /\ s + Len(claim.at) + 4 <= Len(resp)
      /\ Len(claim.at) \in Nat /\ Len(Pair(claim.at)) = Len(claim.at) + 4
  BY <1>1, <1>2, FoundIs, CountsAre
<1>4. Wire \in Seq(S) /\ L = Len(resp) + 1 + TagLen
  BY WireIs
<1>5. /\ L \in Nat /\ e \in Nat /\ s < e /\ e < L /\ e <= Len(resp)
      /\ Len(resp) \in Nat
  BY <1>3, <1>4, RespIs, SizesAssumption
<1> HIDE DEF L, S
<1>6. SelectsFor(win, L, s, e)
  BY <1>1, <1>3, <1>5, SelectIs DEF L
<1> DEFINE bo == BS * win.o
           bz == BS * (win.o + win.blocks)
<1>0. /\ win.o \in Nat /\ win.blocks \in Nat /\ win.j \in Nat /\ win.k \in Int
      /\ bo \in Nat /\ bz \in Nat
      /\ bo + win.j = s /\ win.k = win.j + (e - s) - 1
      /\ win.rho \in {"fwd", "rev"}
      /\ win.rho = "fwd" => win.o = 0
      /\ win.rho = "rev" => L <= bz
      /\ e <= bz /\ bz < L + BS
      /\ win.blocks <= Ceil(e)
      /\ win.blocks <= Ceil(L) - (s \div BS)
  BY <1>6 DEF SelectsFor
<1>a. e = s + Len(claim.at) + 4
  BY <1>3
<1>b. z = IF bz < L THEN bz ELSE L
  OBVIOUS
<1>c. bytes = SubSeq(Wire, bo + 1, z)
  OBVIOUS
<1> HIDE DEF bo, bz, z, e, bytes
<1>7. /\ win.k \in Nat /\ win.k = win.j + Len(claim.at) + 3
      /\ bo + win.k + 1 = e
  <2>1. s \in Nat /\ Len(claim.at) \in Nat
    BY <1>3
  <2>2. win.j \in Nat /\ win.k \in Int /\ bo \in Nat
    BY ONLY <1>0
  <2>3. bo + win.j = s /\ win.k = win.j + (e - s) - 1
    BY ONLY <1>0
  <2>4. PICK n \in Nat : n = Len(claim.at)
    BY ONLY <2>1
  <2>5. PICK j \in Nat : j = win.j
    BY ONLY <2>2
  <2>6. e = s + n + 4
    BY ONLY <1>a, <2>4
  <2>7. win.k = j + n + 3
    BY ONLY <2>1, <2>3, <2>5, <2>6
  <2>8. bo + j = s
    BY ONLY <2>3, <2>5
  <2>9. bo + (j + n + 3) + 1 = e
    BY ONLY <2>1, <2>2, <2>6, <2>8
  <2> QED
    BY ONLY <2>4, <2>5, <2>7, <2>9
<1>8. /\ z \in Nat /\ bo <= z /\ z <= L /\ e <= z
      /\ win.rho = "rev" => z = L
  BY <1>0, <1>3, <1>5, <1>b
<1>9. /\ bytes \in Seq(S) /\ Len(bytes) = z - bo
      /\ \A n \in 1 .. z - bo : bytes[n] = Wire[bo + n]
  <2>1. Wire \in Seq(S) /\ bo \in Nat /\ z \in Nat /\ bo <= z /\ z <= Len(Wire)
    BY <1>0, <1>4, <1>8 DEF L
  <2> QED
    BY ONLY <2>1, <1>c, SliceIs
<1>10. Window = IF claim.share THEN bytes ELSE [n \in DOMAIN bytes |-> "garbage"]
  BY DEF Window, z, L, bytes
<1>11. Len(bytes) \in Nat /\ DOMAIN bytes = 1 .. Len(bytes)
  BY <1>9
<1>12. /\ Len(Window) = z - bo /\ DOMAIN Window = 1 .. Len(Window)
       /\ claim.share => \A n \in 1 .. Len(Window) : Window[n] = Wire[bo + n]
       /\ ~ claim.share => \A n \in 1 .. Len(Window) : Window[n] = "garbage"
  <2>1. CASE claim.share
    BY <1>9, <1>10, <1>11, <2>1
  <2>2. CASE ~ claim.share
    <3>1. Window = [n \in 1 .. Len(bytes) |-> "garbage"]
      BY <1>10, <1>11, <2>2
    <3>2. Window \in Seq({"garbage"}) /\ Len(Window) = Len(bytes)
      BY <1>11, <3>1
    <3> QED
      BY <1>9, <3>1, <3>2, <2>2
  <2> QED
    BY <2>1, <2>2
<1>15. \A n : Abs(n) = bo + n
  BY DEF Abs, bo
<1>13. ChosenAt(s)
  <2>2. /\ Len(Window) \in Nat /\ win.k < Len(Window)
        /\ bo + Len(Window) <= L
        /\ win.rho = "rev" => bo + Len(Window) = L
    BY ONLY <1>0, <1>5, <1>7, <1>8, <1>12
  <2>3. claim.share => \A n \in 1 .. Len(Window) : Window[n] = Wire[Abs(n)]
    BY <1>12, <1>15
  <2> QED
    BY <1>0, <1>7, <1>12, <2>2, <2>3 DEF ChosenAt, L, bo
<1>14. WindowFits
  <2>1. 0 <= win.j /\ win.j <= win.k /\ win.k < Len(Window)
    <3>1. win.k < Len(Window)
      BY <1>13 DEF ChosenAt
    <3>2. Len(claim.at) \in Nat
      BY <1>3
    <3> QED
      BY ONLY <1>0, <1>7, <3>1, <3>2
  <2>2. BS * (win.o + win.blocks) < Len(Wire) + BS
    BY <1>0 DEF bz, L
  <2>3. \A n \in win.j .. win.k : bo + n \in 0 .. Len(resp) - 1
    <3> SUFFICES ASSUME NEW n \in win.j .. win.k
                 PROVE  bo + n \in 0 .. Len(resp) - 1
      OBVIOUS
    <3>a. /\ bo \in Nat /\ win.j \in Nat /\ win.k \in Int
          /\ bo + win.k + 1 = e
      BY <1>0, <1>7
    <3>1. bo + n >= 0 /\ bo + n < e /\ bo + n \in Int
      BY ONLY <3>a
    <3> QED
      BY <3>1, <1>5
  <2>4. /\ win.blocks <= Ceil(bo + win.k + 1)
        /\ win.blocks <= Ceil(Len(Wire)) - (bo + win.j) \div BS
    BY <1>0, <1>7 DEF L
  <2> QED
    BY <2>1, <2>2, <2>3, <2>4 DEF WindowFits, bo
<1> QED
  BY <1>1, <1>13, <1>14

(***************************************************************************)
(* What a step leaves alone.                                               *)
(***************************************************************************)
Kept == UNCHANGED <<resp, tag, claim, win>>

LEMMA KeptIs ==
    ASSUME Kept
    PROVE  /\ Wire' = Wire /\ Window' = Window /\ Escapes' = Escapes
           /\ Given => Given'
           /\ Chosen => Chosen'
           /\ Clean' <=> Clean
           /\ \A n : Abs(n)' = Abs(n)
<1>1. resp' = resp /\ tag' = tag /\ claim' = claim /\ win' = win
  BY DEF Kept
<1>2. Wire' = Wire
  BY <1>1 DEF Wire
<1>3. Window' = Window
  BY <1>1, <1>2 DEF Window
<1>4. Escapes' = Escapes
  BY <1>1 DEF Escapes
<1>5. Given => Given'
  BY <1>1 DEF Given
<1>6. Found(claim.at)' = Found(claim.at)
  BY <1>1 DEF Found
<1>7. Chosen => Chosen'
  BY <1>1, <1>2, <1>6 DEF Chosen
<1>8. \A n : Abs(n)' = Abs(n)
  BY <1>1 DEF Abs
<1>9. Clean' <=> Clean
  BY <1>1 DEF Clean, Abs
<1> QED
  BY <1>2, <1>3, <1>4, <1>5, <1>7, <1>8, <1>9

(***************************************************************************)
(* One byte of the response.                                               *)
(***************************************************************************)
LEMMA TextStep ==
    ASSUME Given, NEW n \in 1 .. Len(resp)
    PROVE  /\ In(resp, n) <=> resp[n].inside
           /\ At(resp, 0, n) = resp[n].depth
           /\ resp[n].depth \in 0 .. 2
           /\ In(resp, n + 1) <=>
                  ~ (resp[n].inside <=> resp[n].c = "Q" /\ n \notin Escapes)
           /\ n + 1 \in Escapes <=>
                  resp[n].inside /\ resp[n].c = "B" /\ n \notin Escapes
           /\ At(resp, 0, n + 1) = resp[n].depth + Deeper(resp[n])
<1>1. n \in DOMAIN resp /\ resp[n] \in Bytes
  BY RespIs
<1>2. Strings(resp, Escapes) /\ Depths(resp, 0, 0)
  BY RespIs
<1>3. resp[n].depth \in 0 .. 2
  BY <1>1 DEF Bytes
<1>4. In(resp, n) <=> resp[n].inside
  BY <1>1 DEF In
<1>5. At(resp, 0, n) = resp[n].depth
  BY <1>1 DEF At
<1> QED
  BY <1>1, <1>2, <1>3, <1>4, <1>5 DEF Strings, Depths

LEMMA StringStepIs ==
    ASSUME inStr \in BOOLEAN, escd \in BOOLEAN, NEW c, StringStep(c)
    PROVE  /\ inStr' \in BOOLEAN /\ escd' \in BOOLEAN
           /\ inStr' <=> ~ (inStr <=> c = "Q" /\ ~ escd)
           /\ escd' <=> inStr /\ c = "B" /\ ~ escd
BY DEF StringStep, Toggles

\* A byte of the window, under the right key share, is one of the record.
LEMMA WindowByte ==
    ASSUME Given, Chosen, claim.share, NEW n \in 1 .. Len(Window)
    PROVE  /\ Abs(n) \in Nat /\ Abs(n) > 0 /\ Abs(n) <= Len(Wire)
           /\ Abs(n) = Abs(0) + n /\ Abs(0) \in Nat
           /\ win.rho = "fwd" => Abs(n) = n
           /\ Abs(n) <= Len(resp) => Window[n] = resp[Abs(n)].c
           /\ Abs(n) = Len(resp) + 1 => Window[n] = "x"
           /\ Abs(n) > Len(resp) + 1 =>
                  /\ Abs(n) - (Len(resp) + 1) \in DOMAIN tag
                  /\ Window[n] = tag[Abs(n) - (Len(resp) + 1)]
<1>1. PICK s \in Found(claim.at) : ChosenAt(s)
  BY WindowIs
<1> DEFINE bo == BS * win.o
           L == Len(resp)
<1>2. /\ bo \in Nat /\ Len(Window) \in Nat /\ bo + Len(Window) <= Len(Wire)
      /\ win.rho = "fwd" => win.o = 0
      /\ Window[n] = Wire[Abs(n)] /\ Abs(n) = bo + n /\ Abs(0) = bo + 0
  BY <1>1 DEF ChosenAt, Abs
<1>3. win.o = 0 => bo = 0
  BY SizesAssumption
<1> HIDE DEF bo
<1>4. /\ Abs(n) \in Nat /\ Abs(n) > 0 /\ Abs(n) <= Len(Wire)
      /\ Abs(n) = Abs(0) + n /\ Abs(0) \in Nat
      /\ win.rho = "fwd" => Abs(n) = n
  BY <1>2, <1>3
<1>5. /\ L \in Nat /\ Len(Wire) = L + 1 + TagLen /\ TagLen \in Nat
      /\ \A i \in 1 .. L : Wire[i] = resp[i].c
      /\ Wire[L + 1] = "x"
      /\ \A i \in 1 .. TagLen : Wire[L + 1 + i] = tag[i]
      /\ DOMAIN tag = 1 .. TagLen
  BY RespIs, WireIs, SizesAssumption DEF Given
<1> HIDE DEF L
<1>6. PICK q \in Nat : q = Abs(n)
  BY <1>4
<1>7. q > 0 /\ q <= L + 1 + TagLen /\ Window[n] = Wire[q]
  BY <1>2, <1>4, <1>5, <1>6
<1>8. q <= L => Window[n] = resp[q].c
  BY <1>5, <1>7
<1>9. q = L + 1 => Window[n] = "x"
  BY <1>5, <1>7
<1>10. q > L + 1 => /\ q - (L + 1) \in 1 .. TagLen
                    /\ Window[n] = tag[q - (L + 1)]
  <2> SUFFICES ASSUME q > L + 1
               PROVE  /\ q - (L + 1) \in 1 .. TagLen
                      /\ Window[n] = tag[q - (L + 1)]
    OBVIOUS
  <2>1. q - (L + 1) \in 1 .. TagLen /\ L + 1 + (q - (L + 1)) = q
    BY <1>5, <1>7
  <2> QED
    BY <1>5, <1>7, <2>1
<1> QED
  BY <1>4, <1>5, <1>6, <1>8, <1>9, <1>10 DEF L

(***************************************************************************)
(* The invariant holds in every state.                                     *)
(***************************************************************************)
LEMMA WindowLen == Given /\ Chosen => Len(Window) \in Nat
BY WindowIs DEF ChosenAt

LEMMA NextLen == (Given /\ Chosen => Len(Window) \in Nat)'
BY WindowLen, PTL

\* A byte behind an active backslash lies inside a string.
LEMMA EscapedInside ==
    ASSUME Given, NEW n \in Escapes
    PROVE  n \in 1 .. Len(resp) /\ In(resp, n)
<1>1. Strings(resp, Escapes) /\ DOMAIN resp = 1 .. Len(resp) /\ Len(resp) \in Nat
  BY RespIs
<1>2. n \in 1 .. Len(resp) /\ n # 1
  BY <1>1 DEF Strings
<1>3. n - 1 \in 1 .. Len(resp) /\ (n - 1) + 1 = n
  BY <1>1, <1>2
<1>4. resp[n - 1].inside /\ resp[n - 1].c = "B"
  BY <1>2, <1>3, TextStep
<1>5. In(resp, n)
  BY <1>3, <1>4, TextStep
<1> QED
  BY <1>2, <1>5

\* The first byte of the response.
LEMMA FirstByte ==
    ASSUME Given
    PROVE  /\ 1 \notin Escapes
           /\ Len(resp) > 0 => resp[1].depth = 0 /\ ~ resp[1].inside
<1>1. /\ Strings(resp, Escapes) /\ Depths(resp, 0, 0)
      /\ DOMAIN resp = 1 .. Len(resp) /\ Len(resp) \in Nat
  BY RespIs
<1>2. 1 \notin Escapes /\ ~ In(resp, 1) /\ At(resp, 0, 1) = 0
  BY <1>1 DEF Strings, Depths
<1>3. ASSUME Len(resp) > 0 PROVE resp[1].depth = 0 /\ ~ resp[1].inside
  <2>1. 1 \in DOMAIN resp
    BY <1>1, <1>3
  <2> QED
    BY <1>2, <2>1 DEF In, At
<1> QED
  BY <1>2, <1>3

LEMMA BillStart == Init => BillInv
<1> SUFFICES ASSUME Init PROVE BillInv
  OBVIOUS
<1>1. PICK echo \in Echo, count \in Count, id \in Id :
        /\ resp = Response(echo, count, id)
        /\ \E v, w \in Count, d \in {1, 2}, com, share \in BOOLEAN :
             claim = [v |-> v, at |-> w, truth |-> count, d |-> d,
                      com |-> com, share |-> share]
  BY DEF Init
<1>2. Given
  <2>1. claim \in Claims /\ claim.truth = count
    BY <1>1 DEF Claims
  <2>2. tag \in [1 .. TagLen -> TagByte]
    BY DEF Init
  <2> QED
    BY <1>1, <2>1, <2>2 DEF Given
<1>3. /\ phase = "claim" /\ accept = FALSE /\ win = NoWindow
      /\ pos = 0 /\ inStr = FALSE /\ escd = FALSE /\ depth = 0
      /\ esc = <<>> /\ dep = <<>>
  BY DEF Init
<1>4. BTyped
  <2>1. esc \in Seq(BOOLEAN) /\ dep \in Seq(0 .. 255)
    BY <1>3
  <2>2. /\ phase \in {"claim", "fwd", "esc", "rev", "decide", "done", "raised"}
        /\ pos \in Nat /\ depth \in 0 .. 255
    BY <1>3
  <2>3. inStr \in BOOLEAN /\ escd \in BOOLEAN /\ accept \in BOOLEAN
    BY <1>3
  <2> QED
    BY ONLY <2>1, <2>2, <2>3 DEF BTyped
<1>5. Fresh
  BY <1>3 DEF Fresh
<1>6. Scanning
  BY <1>3, <1>5 DEF Scanning
<1> QED
  BY <1>2, <1>3, <1>4, <1>6 DEF BillInv, Decided

LEMMA SelectKeeps == BillInv /\ Select => BillInv'
<1> SUFFICES ASSUME BillInv, Select PROVE BillInv'
  OBVIOUS
<1>1. /\ resp' = resp /\ tag' = tag /\ claim' = claim /\ pos' = pos
      /\ inStr' = inStr /\ escd' = escd /\ depth' = depth /\ esc' = esc
      /\ dep' = dep /\ accept' = accept
  BY DEF Select
<1>2. Given /\ BTyped /\ Fresh /\ ~ accept
  BY DEF BillInv, Scanning, Select, Decided
<1>3. Given'
  BY <1>1, <1>2 DEF Given
<1>4. /\ win = NoWindow /\ pos = 0 /\ ~ inStr /\ ~ escd /\ depth = 0
      /\ esc = <<>> /\ dep = <<>>
  BY <1>2 DEF Fresh
<1>5. CASE Found(claim.at) = {}
  <2>1. phase' = "raised" /\ win' = win
    BY <1>5 DEF Select
  <2>2. BTyped'
    BY <1>1, <1>2, <2>1 DEF BTyped
  <2>3. win' = NoWindow'
    BY <1>4, <2>1 DEF NoWindow
  <2>4. Scanning'
    BY <2>1, <2>3 DEF Scanning
  <2>5. Decided'
    BY <1>1, <1>2, <2>1 DEF Decided
  <2> QED
    BY <1>3, <2>2, <2>4, <2>5 DEF BillInv
<1>6. CASE Found(claim.at) # {}
  <2> DEFINE s == Min(Found(claim.at))
  <2>1. s \in Found(claim.at)
    <3>1. PICK n : n \in Found(claim.at)
      BY <1>6
    <3>2. claim.at \in Count
      BY <1>2 DEF Given, Claims
    <3>3. n \in Nat /\ \A k \in Found(claim.at) : k = n
      BY <1>2, <3>1, <3>2, FoundIs
    <3>4. Found(claim.at) = {n}
      BY <3>1, <3>3
    <3>5. n <= n
      BY <3>3
    <3> QED
      BY <3>4, <3>5 DEF Min
  <2>2. /\ win' = SelectWindow(Len(Wire), s, s + Len(Pair(claim.at)))
        /\ phase' = IF win'.rho = "fwd" THEN "fwd" ELSE "esc"
    BY <1>6 DEF Select
  <2>3. Found(claim.at)' = Found(claim.at) /\ Wire' = Wire /\ Pair(claim.at)' = Pair(claim.at)
    BY <1>1 DEF Found, Wire, Pair
  <2>5. Chosen'
    BY <2>1, <2>2, <2>3 DEF Chosen, SelectWindow, Ceil
  <2>6. Len(Window)' \in Nat
    BY <1>3, <2>5, NextLen
  <2>7. win'.rho \in {"fwd", "rev"}
    BY <2>2 DEF SelectWindow
  <2>8. BTyped'
    BY <1>1, <1>2, <2>2 DEF BTyped
  <2>9. Decided'
    BY <1>1, <1>2, <2>2 DEF Decided
  <2>10. Escapes' = Escapes
    BY <1>1 DEF Escapes
  <2>11. Len(dep)' = 0 /\ Len(esc)' = 0 /\ pos' = 0
    BY <1>1, <1>4
  <2>12. Len(resp) \in Nat /\ DOMAIN resp = 1 .. Len(resp)
    BY <1>2, RespIs
  <2>13. CASE win'.rho = "fwd"
    <3>1. FwdRight'
      BY <1>1, <1>2, <1>4, <2>10, <2>12, FirstByte DEF FwdRight
    <3> QED
      BY <1>3, <2>2, <2>5, <2>6, <2>8, <2>9, <2>11, <2>13, <3>1
      DEF BillInv, Scanning
  <2>14. CASE win'.rho = "rev"
    <3>1. ASSUME Clean', Abs(0)' <= Len(resp)
          PROVE  ~ In(resp, Abs(0)' + 1) /\ Abs(0)' + 1 \notin Escapes
      <4>1. Abs(0)' + 1 = Abs(1)' /\ Abs(1)' = (BS * win.o)' + 1
        <5>1. (BS * win.o)' \in Nat
          <6>1. win'.o = 0 \/ win'.o = s \div BS
            BY <2>2 DEF SelectWindow
          <6>2. s \in Nat
            BY <1>2, <2>1, FoundIs DEF Given, Claims
          <6>3. BS * (s \div BS) \in Nat /\ BS * 0 = 0
            BY <6>2, Ceiling, SizesAssumption
          <6> QED
            BY <6>1, <6>3
        <5>2. PICK x \in Nat : x = (BS * win.o)'
          BY <5>1
        <5>3. Abs(0)' = x + 0 /\ Abs(1)' = x + 1
          BY <5>2 DEF Abs
        <5> QED
          BY <5>2, <5>3
      <4>2. ~ resp[Abs(1)'].inside
        BY <1>1, <3>1 DEF Clean, Abs
      <4>3. ~ In(resp, Abs(1)')
        BY <4>2 DEF In
      <4>4. Abs(1)' \notin Escapes
        BY <1>2, <4>3, EscapedInside
      <4> QED
        BY <4>1, <4>3, <4>4
    <3>2. EscRight'
      BY <1>1, <1>4, <2>10, <3>1 DEF EscRight
    <3>3. depth' = 0 /\ dep' = <<>> /\ phase' = "esc" /\ 0 <= Len(Window)'
      BY <1>1, <1>4, <2>2, <2>6, <2>14
    <3> QED
      BY <1>3, <2>5, <2>8, <2>9, <2>11, <2>14, <3>2, <3>3
      DEF BillInv, Scanning
  <2> QED
    BY <2>7, <2>13, <2>14
<1> QED
  BY <1>5, <1>6

LEMMA ForwardKeeps == BillInv /\ ForwardByte => BillInv'
<1> SUFFICES ASSUME BillInv, ForwardByte PROVE BillInv'
  OBVIOUS
<1> DEFINE n == pos + 1
           c == Window[n]
<1>1. /\ Given /\ BTyped /\ Chosen /\ win.rho = "fwd" /\ ~ accept
      /\ pos <= Len(Window) /\ Len(dep) = pos /\ FwdRight
      /\ phase = "fwd" /\ phase' = "fwd" /\ pos' = n
  BY DEF BillInv, Scanning, ForwardByte, Decided
<1>2. Kept /\ UNCHANGED <<esc, accept>>
  BY DEF ForwardByte, Kept
<1>3. /\ StringStep(c) /\ dep' = Append(dep, depth)
      /\ depth' = DepthAfter(c, inStr, depth) /\ pos < Len(Window)
  BY DEF ForwardByte
<1>4. Given' /\ Chosen' /\ Wire' = Wire /\ Window' = Window /\ Escapes' = Escapes
  BY <1>1, <1>2, KeptIs
<1>5. /\ pos \in Nat /\ inStr \in BOOLEAN /\ escd \in BOOLEAN
      /\ depth \in 0 .. 255 /\ esc \in Seq(BOOLEAN) /\ dep \in Seq(0 .. 255)
  BY <1>1 DEF BTyped
<1>6. Len(Window) \in Nat /\ Len(resp) \in Nat /\ n \in 1 .. Len(Window)
  BY <1>1, <1>3, <1>5, WindowLen, RespIs
<1> HIDE DEF c
<1>7. /\ inStr' \in BOOLEAN /\ escd' \in BOOLEAN
      /\ inStr' <=> ~ (inStr <=> c = "Q" /\ ~ escd)
      /\ escd' <=> inStr /\ c = "B" /\ ~ escd
  BY <1>3, <1>5, StringStepIs
<1>8. depth' \in 0 .. 255
  <2>1. depth' = (depth - One(~ inStr /\ c = "close")
                  + One(~ inStr /\ c = "open")) % 256
    BY <1>3 DEF DepthAfter, Wrap8
  <2> QED
    BY <1>5, <2>1 DEF One
<1>9. /\ dep' \in Seq(0 .. 255) /\ Len(dep') = n
      /\ dep'[n] = depth /\ \A i \in 1 .. pos : dep'[i] = dep[i]
  BY <1>1, <1>3, <1>5
<1>10. BTyped'
  <2>1. accept' \in BOOLEAN /\ n \in Nat
    BY <1>1, <1>2, <1>5 DEF BTyped
  <2> QED
    BY <1>1, <1>2, <1>5, <1>7, <1>8, <1>9, <2>1 DEF BTyped
<1>11. ASSUME claim.share
       PROVE  /\ n < Len(resp) =>
                   /\ inStr' <=> resp[n + 1].inside
                   /\ escd' <=> n + 1 \in Escapes
                   /\ depth' = resp[n + 1].depth
              /\ \A i \in 1 .. n : i <= Len(resp) => dep'[i] = resp[i].depth
  <2>1. ASSUME n <= Len(resp)
        PROVE  /\ n \in 1 .. Len(resp)
               /\ inStr <=> resp[n].inside
               /\ escd <=> n \in Escapes
               /\ depth = resp[n].depth
    BY <1>1, <1>5, <1>6, <1>11, <2>1 DEF FwdRight
  <2>2. ASSUME n < Len(resp)
        PROVE  /\ inStr' <=> resp[n + 1].inside
               /\ escd' <=> n + 1 \in Escapes
               /\ depth' = resp[n + 1].depth
    <3>1. /\ n \in 1 .. Len(resp) /\ n + 1 \in 1 .. Len(resp) /\ n <= Len(resp)
      BY <1>5, <1>6, <2>2
    <3>2. /\ Abs(n) = n
          /\ Abs(n) <= Len(resp) => Window[n] = resp[Abs(n)].c
      BY <1>1, <1>6, <1>11, WindowByte
    <3>3. c = resp[n].c
      BY <3>1, <3>2 DEF c
    <3>4. /\ In(resp, n + 1) <=>
                 ~ (resp[n].inside <=> resp[n].c = "Q" /\ n \notin Escapes)
          /\ n + 1 \in Escapes <=>
                 resp[n].inside /\ resp[n].c = "B" /\ n \notin Escapes
          /\ At(resp, 0, n + 1) = resp[n].depth + Deeper(resp[n])
      BY <1>1, <3>1, TextStep
    <3>5. /\ In(resp, n + 1) <=> resp[n + 1].inside
          /\ At(resp, 0, n + 1) = resp[n + 1].depth
          /\ resp[n + 1].depth \in 0 .. 2
      BY <1>1, <3>1, TextStep
    <3>6. depth' = depth + Deeper(resp[n])
      <4>1. /\ depth \in 0 .. 255 /\ inStr \in BOOLEAN
            /\ inStr <=> resp[n].inside
        BY <1>5, <2>1, <3>1
      <4>2. depth + Deeper(resp[n]) = resp[n + 1].depth
        BY <2>1, <3>1, <3>4, <3>5
      <4>3. depth + Deeper(resp[n]) \in 0 .. 255
        BY <3>5, <4>2
      <4>4. depth' = (depth - One(~ inStr /\ c = "close")
                      + One(~ inStr /\ c = "open")) % 256
        BY <1>3 DEF DepthAfter, Wrap8
      <4>5. CASE inStr
        BY <3>3, <4>1, <4>3, <4>4, <4>5 DEF One, Deeper
      <4>6. CASE ~ inStr
        BY <3>3, <4>1, <4>3, <4>4, <4>6 DEF One, Deeper
      <4> QED
        BY <4>5, <4>6
    <3> QED
      BY <1>7, <2>1, <3>1, <3>3, <3>4, <3>5, <3>6
  <2>3. ASSUME NEW i \in 1 .. n, i <= Len(resp) PROVE dep'[i] = resp[i].depth
    <3>1. CASE i = n
      BY <1>9, <2>1, <2>3, <3>1
    <3>2. CASE i # n
      <4>1. i \in 1 .. pos
        BY <1>5, <3>2
      <4> QED
        BY <1>1, <1>9, <1>11, <2>3, <4>1 DEF FwdRight
    <3> QED
      BY <3>1, <3>2
  <2> QED
    BY <2>2, <2>3
<1>12. FwdRight'
  <2>1. resp' = resp /\ claim' = claim
    BY <1>2 DEF Kept
  <2> QED
    BY <1>1, <1>4, <1>11, <2>1 DEF FwdRight
<1>13. Scanning'
  <2>1. win'.rho = "fwd" /\ Len(Window)' = Len(Window) /\ n <= Len(Window)
    BY <1>1, <1>2, <1>4, <1>6 DEF Kept
  <2> QED
    BY <1>1, <1>4, <1>9, <1>12, <2>1 DEF Scanning
<1>14. Decided'
  BY <1>1, <1>2 DEF Decided
<1> QED
  BY <1>4, <1>10, <1>13, <1>14 DEF BillInv

LEMMA EscapeKeeps == BillInv /\ EscapeByte => BillInv'
<1> SUFFICES ASSUME BillInv, EscapeByte PROVE BillInv'
  OBVIOUS
<1> DEFINE n == pos + 1
           c == Window[n]
<1>1. /\ Given /\ BTyped /\ Chosen /\ win.rho = "rev" /\ ~ accept
      /\ pos <= Len(Window) /\ Len(esc) = pos /\ EscRight
      /\ depth = 0 /\ dep = <<>>
      /\ phase = "esc" /\ phase' = "esc" /\ pos' = n
  BY DEF BillInv, Scanning, EscapeByte, Decided
<1>2. Kept /\ UNCHANGED <<depth, dep, accept>>
  BY DEF EscapeByte, Kept
<1>3. StringStep(c) /\ esc' = Append(esc, escd) /\ pos < Len(Window)
  BY DEF EscapeByte
<1>4. /\ Given' /\ Chosen' /\ Wire' = Wire /\ Window' = Window
      /\ Escapes' = Escapes /\ (Clean' <=> Clean) /\ \A i : Abs(i)' = Abs(i)
  BY <1>1, <1>2, KeptIs
<1>5. /\ pos \in Nat /\ inStr \in BOOLEAN /\ escd \in BOOLEAN
      /\ depth \in 0 .. 255 /\ esc \in Seq(BOOLEAN) /\ dep \in Seq(0 .. 255)
  BY <1>1 DEF BTyped
<1>6. Len(Window) \in Nat /\ Len(resp) \in Nat /\ n \in 1 .. Len(Window)
  BY <1>1, <1>3, <1>5, WindowLen, RespIs
<1> HIDE DEF c
<1>7. /\ inStr' \in BOOLEAN /\ escd' \in BOOLEAN
      /\ inStr' <=> ~ (inStr <=> c = "Q" /\ ~ escd)
      /\ escd' <=> inStr /\ c = "B" /\ ~ escd
  BY <1>3, <1>5, StringStepIs
<1>8. /\ esc' \in Seq(BOOLEAN) /\ Len(esc') = n
      /\ esc'[n] = escd /\ \A i \in 1 .. pos : esc'[i] = esc[i]
  BY <1>1, <1>3, <1>5
<1>9. BTyped'
  <2>1. accept' \in BOOLEAN /\ n \in Nat
    BY <1>1, <1>2, <1>5 DEF BTyped
  <2> QED
    BY <1>1, <1>2, <1>5, <1>7, <1>8, <2>1 DEF BTyped
<1>10. ASSUME Clean
       PROVE  /\ Abs(n) <= Len(resp) =>
                   /\ inStr' <=> In(resp, Abs(n) + 1)
                   /\ escd' <=> Abs(n) + 1 \in Escapes
              /\ \A i \in 1 .. n :
                   Abs(i) <= Len(resp) => (esc'[i] <=> Abs(i) \in Escapes)
  <2>1. PICK p \in Nat : p = Abs(n)
    BY <1>1, <1>6, <1>10, WindowByte DEF Clean
  <2>2. /\ p > 0 /\ Abs(pos) = p - 1
        /\ p <= Len(resp) => c = resp[p].c
    <3>1. /\ Abs(n) > 0 /\ Abs(n) = Abs(0) + n /\ Abs(0) \in Nat
          /\ Abs(n) <= Len(resp) => Window[n] = resp[Abs(n)].c
      BY <1>1, <1>6, <1>10, WindowByte DEF Clean
    <3>2. Abs(pos) = Abs(0) + pos
      <4>1. CASE pos = 0
        BY <3>1, <4>1
      <4>2. CASE pos # 0
        <5>1. pos \in 1 .. Len(Window)
          BY <1>1, <1>5, <1>6, <4>2
        <5> QED
          BY <1>1, <1>10, <5>1, WindowByte DEF Clean
      <4> QED
        BY <4>1, <4>2
    <3> QED
      BY <1>5, <2>1, <3>1, <3>2 DEF c
  <2>3. ASSUME p <= Len(resp)
        PROVE  /\ p \in 1 .. Len(resp)
               /\ inStr <=> In(resp, p)
               /\ escd <=> p \in Escapes
    <3>1. p - 1 <= Len(resp) /\ (p - 1) + 1 = p
      BY <1>6, <2>1, <2>3
    <3>2. /\ inStr <=> In(resp, Abs(pos) + 1)
          /\ escd <=> Abs(pos) + 1 \in Escapes
      BY <1>1, <1>10, <2>2, <3>1 DEF EscRight
    <3> QED
      BY <1>6, <2>1, <2>2, <2>3, <3>1, <3>2
  <2>4. ASSUME p <= Len(resp)
        PROVE  /\ inStr' <=> In(resp, p + 1)
               /\ escd' <=> p + 1 \in Escapes
    <3>1. /\ In(resp, p) <=> resp[p].inside
          /\ In(resp, p + 1) <=>
                 ~ (resp[p].inside <=> resp[p].c = "Q" /\ p \notin Escapes)
          /\ p + 1 \in Escapes <=>
                 resp[p].inside /\ resp[p].c = "B" /\ p \notin Escapes
      BY <1>1, <2>3, <2>4, TextStep
    <3> QED
      BY <1>7, <2>2, <2>3, <2>4, <3>1
  <2>5. ASSUME NEW i \in 1 .. n, Abs(i) <= Len(resp)
        PROVE  esc'[i] <=> Abs(i) \in Escapes
    <3>1. CASE i = n
      BY <1>8, <2>1, <2>3, <2>5, <3>1
    <3>2. CASE i # n
      <4>1. i \in 1 .. pos
        BY <1>5, <3>2
      <4> QED
        BY <1>1, <1>8, <1>10, <2>5, <4>1 DEF EscRight
    <3> QED
      BY <3>1, <3>2
  <2> QED
    BY <2>1, <2>4, <2>5
<1>11. EscRight'
  <2>1. resp' = resp
    BY <1>2 DEF Kept
  <2>2. Abs(pos)' = Abs(n)
    BY <1>1, <1>2 DEF Abs, Kept
  <2> QED
    BY <1>1, <1>4, <1>10, <2>1, <2>2 DEF EscRight
<1>12. Scanning'
  <2>1. /\ win'.rho = "rev" /\ Len(Window)' = Len(Window) /\ n <= Len(Window)
        /\ depth' = 0 /\ dep' = <<>>
    BY <1>1, <1>2, <1>4, <1>6 DEF Kept
  <2> QED
    BY <1>1, <1>4, <1>8, <1>11, <2>1 DEF Scanning
<1>13. Decided'
  BY <1>1, <1>2 DEF Decided
<1> QED
  BY <1>4, <1>9, <1>12, <1>13 DEF BillInv

\* A suffix window ends with the record.
LEMMA SuffixEnd ==
    ASSUME Given, Chosen, win.rho = "rev"
    PROVE  /\ Abs(Len(Window)) = Len(Wire) /\ Len(Wire) \in Nat
           /\ Len(Wire) > Len(resp) /\ Len(resp) \in Nat
           /\ ~ In(resp, Abs(Len(Window)) + 1)
           /\ At(resp, 0, Abs(Len(Window)) + 1) = 0
<1>1. PICK s \in Found(claim.at) : ChosenAt(s)
  BY WindowIs
<1>2. Abs(Len(Window)) = Len(Wire)
  BY <1>1 DEF ChosenAt, Abs
<1>3. /\ Len(resp) \in Nat /\ Len(Wire) = Len(resp) + 1 + TagLen
      /\ DOMAIN resp = 1 .. Len(resp)
  BY WireIs, RespIs
<1>4. Len(Wire) \in Nat /\ Len(Wire) > Len(resp)
  BY <1>3, SizesAssumption
<1>5. Len(Wire) + 1 \notin DOMAIN resp
  BY <1>3, <1>4
<1> QED
  BY <1>2, <1>3, <1>4, <1>5 DEF In, At

LEMMA EscapesDoneKeeps == BillInv /\ EscapesDone => BillInv'
<1> SUFFICES ASSUME BillInv, EscapesDone PROVE BillInv'
  OBVIOUS
<1>1. /\ Given /\ BTyped /\ Chosen /\ win.rho = "rev" /\ ~ accept
      /\ pos = Len(Window) /\ Len(esc) = pos /\ EscRight
      /\ depth = 0 /\ dep = <<>>
      /\ phase = "esc" /\ phase' = "rev" /\ inStr' = FALSE
  BY DEF BillInv, Scanning, EscapesDone, Decided
<1>2. Kept /\ UNCHANGED <<pos, escd, depth, esc, dep, accept>>
  BY DEF EscapesDone, Kept
<1>3. /\ Given' /\ Chosen' /\ Wire' = Wire /\ Window' = Window
      /\ Escapes' = Escapes /\ (Clean' <=> Clean) /\ \A i : Abs(i)' = Abs(i)
  BY <1>1, <1>2, KeptIs
<1>4. Len(Window) \in Nat
  BY <1>1, WindowLen
<1>5. BTyped'
  BY <1>1, <1>2 DEF BTyped
<1>6. RevRight'
  <2>1. resp' = resp /\ Abs(pos)' = Abs(pos)
    BY <1>2 DEF Kept, Abs
  <2>2. Len(dep') = 0 /\ depth' = 0 /\ esc' = esc
    BY <1>1, <1>2
  <2>3. Clean => \A i \in 1 .. Len(Window) :
                   Abs(i) <= Len(resp) => (esc[i] <=> Abs(i) \in Escapes)
    BY <1>1 DEF EscRight
  <2>4. ~ In(resp, Abs(pos) + 1) /\ At(resp, 0, Abs(pos) + 1) = 0
    BY <1>1, SuffixEnd
  <2> QED
    BY <1>1, <1>3, <2>1, <2>2, <2>3, <2>4 DEF RevRight
<1>7. Scanning'
  <2>1. /\ win'.rho = "rev" /\ Len(Window)' = Len(Window)
        /\ pos' = pos /\ pos <= Len(Window) /\ esc' = esc
        /\ Len(dep') = Len(Window) - pos
    BY <1>1, <1>2, <1>3, <1>4 DEF Kept
  <2> QED
    BY <1>1, <1>3, <1>6, <2>1 DEF Scanning
<1>8. Decided'
  BY <1>1, <1>2 DEF Decided
<1> QED
  BY <1>3, <1>5, <1>7, <1>8 DEF BillInv

LEMMA BackwardKeeps == BillInv /\ BackwardByte => BillInv'
<1> SUFFICES ASSUME BillInv, BackwardByte PROVE BillInv'
  OBVIOUS
<1> DEFINE n == pos
           c == Window[n]
           r == inStr # (c = "Q" /\ ~ esc[n])
           d == Wrap8(depth - One(~ r /\ c = "open") + One(~ r /\ c = "close"))
<1>1. /\ Given /\ BTyped /\ Chosen /\ win.rho = "rev" /\ ~ accept
      /\ pos <= Len(Window) /\ Len(esc) = Len(Window)
      /\ Len(dep) = Len(Window) - pos /\ RevRight
      /\ phase = "rev" /\ phase' = "rev" /\ pos' = pos - 1 /\ pos > 0
  BY DEF BillInv, Scanning, BackwardByte, Decided
<1>2. Kept /\ UNCHANGED <<escd, esc, accept>>
  BY DEF BackwardByte, Kept
<1>3. inStr' = r /\ depth' = d /\ dep' = <<d>> \o dep
  BY DEF BackwardByte
<1>4. /\ Given' /\ Chosen' /\ Wire' = Wire /\ Window' = Window
      /\ Escapes' = Escapes /\ (Clean' <=> Clean) /\ \A i : Abs(i)' = Abs(i)
  BY <1>1, <1>2, KeptIs
<1>5. /\ pos \in Nat /\ inStr \in BOOLEAN /\ escd \in BOOLEAN
      /\ depth \in 0 .. 255 /\ esc \in Seq(BOOLEAN) /\ dep \in Seq(0 .. 255)
  BY <1>1 DEF BTyped
<1>6. Len(Window) \in Nat /\ Len(resp) \in Nat /\ n \in 1 .. Len(Window)
  BY <1>1, <1>5, WindowLen, RespIs
<1>e. esc[n] \in BOOLEAN
  BY <1>1, <1>5, <1>6
<1> HIDE DEF c
<1>7. r \in BOOLEAN /\ (r <=> ~ (inStr <=> c = "Q" /\ ~ esc[n]))
  BY <1>5, <1>e
<1> HIDE DEF r
<1>8. d = (depth - One(~ r /\ c = "open") + One(~ r /\ c = "close")) % 256
  BY DEF Wrap8
<1> HIDE DEF d
<1>9. d \in 0 .. 255
  BY <1>5, <1>8 DEF One
<1>10. /\ dep' \in Seq(0 .. 255) /\ Len(dep') = Len(dep) + 1
       /\ Len(dep) \in Nat /\ dep'[1] = d
       /\ \A i \in 2 .. Len(dep) + 1 : dep'[i] = dep[i - 1]
  <2>1. <<d>> \in Seq(0 .. 255) /\ Len(<<d>>) = 1 /\ <<d>>[1] = d
    BY <1>9, Single
  <2>2. /\ <<d>> \o dep \in Seq(0 .. 255) /\ Len(dep) \in Nat
        /\ Len(<<d>> \o dep) = Len(<<d>>) + Len(dep)
        /\ \A i \in 1 .. Len(<<d>>) : (<<d>> \o dep)[i] = <<d>>[i]
        /\ \A i \in Len(<<d>>) + 1 .. Len(<<d>>) + Len(dep) :
               (<<d>> \o dep)[i] = dep[i - Len(<<d>>)]
    BY <1>5, <2>1, Joined
  <2> QED
    BY <1>3, <2>1, <2>2
<1>11. BTyped'
  <2>1. accept' \in BOOLEAN /\ pos' \in Nat
    BY <1>1, <1>2, <1>5 DEF BTyped
  <2> QED
    BY <1>1, <1>2, <1>3, <1>5, <1>7, <1>9, <1>10, <2>1 DEF BTyped
<1>12. ASSUME Clean
       PROVE  /\ Abs(n - 1) = Abs(n) - 1 /\ Abs(n) \in Nat /\ Abs(n) > 0
              /\ r <=> In(resp, Abs(n))
              /\ d = At(resp, 0, Abs(n))
              /\ Abs(n) <= Len(resp) => d = resp[Abs(n)].depth
  <2>1. PICK p \in Nat : p = Abs(n)
    BY <1>1, <1>6, <1>12, WindowByte DEF Clean
  <2>2. /\ p > 0 /\ Abs(n - 1) = p - 1
        /\ p <= Len(resp) => c = resp[p].c
        /\ p = Len(resp) + 1 => c = "x"
        /\ p > Len(resp) + 1 =>
                  /\ p - (Len(resp) + 1) \in DOMAIN tag
                  /\ c = tag[p - (Len(resp) + 1)]
    <3>1. /\ Abs(n) > 0 /\ Abs(n) = Abs(0) + n /\ Abs(0) \in Nat
          /\ Abs(n) <= Len(resp) => Window[n] = resp[Abs(n)].c
          /\ Abs(n) = Len(resp) + 1 => Window[n] = "x"
          /\ Abs(n) > Len(resp) + 1 =>
                  /\ Abs(n) - (Len(resp) + 1) \in DOMAIN tag
                  /\ Window[n] = tag[Abs(n) - (Len(resp) + 1)]
      BY <1>1, <1>6, <1>12, WindowByte DEF Clean
    <3>2. Abs(n - 1) = Abs(0) + (n - 1)
      <4>1. CASE n = 1
        BY <3>1, <4>1
      <4>2. CASE n # 1
        <5>1. n - 1 \in 1 .. Len(Window)
          BY <1>6, <4>2
        <5> QED
          BY <1>1, <1>12, <5>1, WindowByte DEF Clean
      <4> QED
        BY <4>1, <4>2
    <3> QED
      BY <1>5, <2>1, <3>1, <3>2 DEF c
  <2>3. inStr <=> In(resp, p + 1)
    BY <1>1, <1>12, <2>1 DEF RevRight
  <2>4. depth = At(resp, 0, p + 1)
    BY <1>1, <1>12, <2>1 DEF RevRight
  <2>5. CASE p <= Len(resp)
    <3>1. p \in 1 .. Len(resp) /\ c = resp[p].c
      BY <1>6, <2>1, <2>2, <2>5
    <3>2. esc[n] <=> p \in Escapes
      BY <1>1, <1>6, <1>12, <2>1, <2>5 DEF RevRight
    <3>3. /\ In(resp, p) <=> resp[p].inside
          /\ At(resp, 0, p) = resp[p].depth
          /\ resp[p].depth \in 0 .. 2
          /\ In(resp, p + 1) <=>
                 ~ (resp[p].inside <=> resp[p].c = "Q" /\ p \notin Escapes)
          /\ At(resp, 0, p + 1) = resp[p].depth + Deeper(resp[p])
      BY <1>1, <3>1, TextStep
    <3>4. r <=> resp[p].inside
      BY <1>7, <2>3, <3>1, <3>2, <3>3
    <3>5. d = resp[p].depth
      <4>1. depth = resp[p].depth + Deeper(resp[p])
        BY <2>4, <3>3
      <4>2. CASE r
        <5>1. depth = resp[p].depth
          BY <3>3, <3>4, <4>1, <4>2 DEF Deeper
        <5>2. d = (depth - 0 + 0) % 256
          BY <1>8, <4>2 DEF One
        <5> QED
          BY <3>3, <5>1, <5>2
      <4>3. CASE ~ r
        BY <1>8, <3>1, <3>3, <3>4, <4>1, <4>3 DEF One, Deeper
      <4> QED
        BY <4>2, <4>3
    <3> QED
      BY <2>1, <2>2, <3>3, <3>4, <3>5
  <2>6. CASE p > Len(resp)
    <3>1. c \notin {"Q", "open", "close"}
      <4>1. CASE p = Len(resp) + 1
        BY <2>2, <4>1
      <4>2. CASE p > Len(resp) + 1
        BY <1>12, <2>2, <4>2 DEF Clean
      <4> QED
        BY <1>6, <2>6, <4>1, <4>2
    <3>2. p \notin DOMAIN resp /\ p + 1 \notin DOMAIN resp
      BY <1>1, <1>6, <2>6, RespIs
    <3>3. /\ ~ In(resp, p) /\ ~ In(resp, p + 1)
          /\ At(resp, 0, p) = 0 /\ At(resp, 0, p + 1) = 0
      BY <3>2 DEF In, At
    <3>4. ~ r
      BY <1>7, <2>3, <3>1, <3>3
    <3>5. d = 0
      BY <1>8, <2>4, <3>1, <3>3 DEF One
    <3> QED
      BY <1>6, <2>1, <2>2, <2>6, <3>3, <3>4, <3>5
  <2> QED
    BY <1>6, <2>5, <2>6
<1>13. ASSUME Clean, NEW i \in 1 .. Len(dep'), Abs(n - 1) + i <= Len(resp)
       PROVE  dep'[i] = resp[Abs(n - 1) + i].depth
  <2>1. PICK p \in Nat : p = Abs(n)
    BY <1>12, <1>13
  <2>2. Abs(n - 1) = p - 1
    BY <1>12, <1>13, <2>1
  <2>3. CASE i = 1
    BY <1>10, <1>12, <1>13, <2>1, <2>2, <2>3
  <2>4. CASE i # 1
    <3>1. i \in 2 .. Len(dep) + 1 /\ i - 1 \in 1 .. Len(dep)
      BY <1>10, <1>13, <2>4
    <3>2. p + (i - 1) = Abs(n - 1) + i
      BY <2>2, <3>1
    <3>3. dep[i - 1] = resp[p + (i - 1)].depth
      BY <1>1, <1>13, <2>1, <3>1, <3>2 DEF RevRight
    <3> QED
      BY <1>10, <3>1, <3>2, <3>3
  <2> QED
    BY <2>3, <2>4
<1>14. RevRight'
  <2>1. resp' = resp /\ esc' = esc
    BY <1>2 DEF Kept
  <2>2. Abs(pos)' = Abs(n - 1)
    BY <1>1, <1>2 DEF Abs, Kept
  <2>3. ASSUME Clean PROVE Abs(n - 1) + 1 = Abs(n)
    BY <1>12, <2>3
  <2>4. Clean => \A i \in 1 .. Len(Window) :
                   Abs(i) <= Len(resp) => (esc[i] <=> Abs(i) \in Escapes)
    BY <1>1 DEF RevRight
  <2>5. Clean => (inStr' <=> In(resp, Abs(n - 1) + 1))
    BY <1>3, <1>12, <2>3
  <2>6. Clean => depth' = At(resp, 0, Abs(n - 1) + 1)
    BY <1>3, <1>12, <2>3
  <2> QED
    BY <1>4, <1>13, <2>1, <2>2, <2>4, <2>5, <2>6 DEF RevRight
<1>15. Scanning'
  <2>1. /\ win'.rho = "rev" /\ Len(Window)' = Len(Window)
        /\ pos' <= Len(Window) /\ esc' = esc
        /\ Len(dep') = Len(Window) - pos'
    BY <1>1, <1>2, <1>4, <1>5, <1>6, <1>10 DEF Kept
  <2> QED
    BY <1>1, <1>4, <1>14, <2>1 DEF Scanning
<1>16. Decided'
  BY <1>1, <1>2 DEF Decided
<1> QED
  BY <1>4, <1>11, <1>15, <1>16 DEF BillInv

LEMMA ScanDoneKeeps == BillInv /\ ScanDone => BillInv'
<1> SUFFICES ASSUME BillInv, ScanDone PROVE BillInv'
  OBVIOUS
<1>1. /\ Given /\ BTyped /\ ~ accept /\ phase' = "decide"
      /\ \/ /\ phase = "fwd" /\ pos = Len(Window)
            /\ Chosen /\ win.rho = "fwd" /\ Len(dep) = pos /\ FwdRight
         \/ /\ phase = "rev" /\ pos = 0
            /\ Chosen /\ win.rho = "rev"
            /\ Len(dep) = Len(Window) - pos /\ RevRight
  BY DEF BillInv, Scanning, ScanDone, Decided
<1>2. Kept /\ UNCHANGED <<pos, inStr, escd, depth, esc, dep, accept>>
  BY DEF ScanDone, Kept
<1>3. Given' /\ Chosen' /\ Window' = Window
  BY <1>1, <1>2, KeptIs
<1>4. Len(Window) \in Nat
  BY <1>1, WindowLen
<1>5. BTyped'
  BY <1>1, <1>2 DEF BTyped
<1>6. /\ resp' = resp /\ tag' = tag /\ claim' = claim /\ win' = win
      /\ dep' = dep
  BY <1>2 DEF Kept
<1>7. Len(dep') = Len(Window)'
  BY <1>1, <1>3, <1>4, <1>6
<1>8. ForwardExact'
  <2>1. ASSUME win.rho = "fwd", claim.share, NEW n \in 1 .. Len(dep), n <= Len(resp)
        PROVE  dep[n] = resp[n].depth
    BY <1>1, <2>1 DEF FwdRight
  <2> QED
    BY <1>6, <2>1 DEF ForwardExact
<1>9. BackwardExact'
  <2>1. ASSUME win.rho = "rev", Clean, NEW n \in 1 .. Len(dep), Abs(n) <= Len(resp)
        PROVE  dep[n] = resp[Abs(n)].depth
    <3>1. Len(dep) = Len(Window) /\ RevRight /\ pos = 0
      BY <1>1, <1>4, <2>1
    <3>2. Abs(0) + n = Abs(n)
      BY <1>1, <2>1, <3>1, WindowByte DEF Clean
    <3>3. Abs(pos) + n <= Len(resp)
      BY <2>1, <3>1, <3>2
    <3>4. dep[n] = resp[Abs(pos) + n].depth
      BY <2>1, <3>1, <3>3 DEF RevRight
    <3> QED
      BY <3>1, <3>2, <3>4
  <2> QED
    BY <1>6, <2>1 DEF BackwardExact, Clean, Abs
<1>10. Scanning'
  BY <1>1, <1>3, <1>7, <1>8, <1>9 DEF Scanning
<1>11. Decided'
  BY <1>1, <1>2 DEF Decided
<1> QED
  BY <1>3, <1>5, <1>10, <1>11 DEF BillInv

LEMMA DecideKeeps == BillInv /\ Decide => BillInv'
<1> SUFFICES ASSUME BillInv, Decide PROVE BillInv'
  OBVIOUS
<1>1. /\ Given /\ BTyped /\ ~ accept /\ Chosen
      /\ Len(dep) = Len(Window) /\ ForwardExact /\ BackwardExact
      /\ phase = "decide"
  BY DEF BillInv, Scanning, Decide, Decided
<1>2. Kept /\ UNCHANGED <<pos, inStr, escd, depth, esc, dep>>
  BY DEF Decide, Kept
<1>3. Given' /\ Chosen' /\ Window' = Window
  BY <1>1, <1>2, KeptIs
<1>4. /\ resp' = resp /\ tag' = tag /\ claim' = claim /\ win' = win
      /\ dep' = dep
  BY <1>2 DEF Kept
<1>5. Accepts \in BOOLEAN
  BY <1>1 DEF Accepts, BytesOk, DepthOk, Given, Claims
<1>6. /\ phase' \in {"done", "raised"} /\ accept' \in BOOLEAN
      /\ phase' = "raised" => ~ accept'
      /\ phase' = "done" => /\ win.k - win.j + 1 = Len(Pair(claim.v))
                            /\ accept' <=> Accepts
  BY <1>1, <1>5 DEF Decide, BTyped
<1>7. Accepts' <=> Accepts
  BY <1>3, <1>4 DEF Accepts, BytesOk, DepthOk, Pair
<1>8. Pair(claim.v)' = Pair(claim.v)
  BY <1>4 DEF Pair
<1>9. BTyped'
  BY <1>1, <1>2, <1>6 DEF BTyped
<1>10. Decided'
  BY <1>4, <1>6, <1>7, <1>8 DEF Decided
<1>11. Scanning'
  <2>1. Scanned
    BY <1>1 DEF Scanned
  <2>2. ForwardExact'
    BY <1>1, <1>4, <2>1 DEF ForwardExact
  <2>3. BackwardExact'
    BY <1>1, <1>4, <2>1 DEF BackwardExact
  <2> QED
    BY <1>1, <1>3, <1>4, <1>6, <2>2, <2>3 DEF Scanning
<1> QED
  BY <1>3, <1>9, <1>10, <1>11 DEF BillInv

LEMMA BillStutter == BillInv /\ UNCHANGED vars => BillInv'
<1> SUFFICES ASSUME BillInv, UNCHANGED vars PROVE BillInv'
  OBVIOUS
<1>1. Kept /\ UNCHANGED <<phase, pos, inStr, escd, depth, esc, dep, accept>>
  BY DEF vars, Kept
<1>2. /\ resp' = resp /\ tag' = tag /\ claim' = claim /\ win' = win
      /\ phase' = phase /\ pos' = pos /\ inStr' = inStr /\ escd' = escd
      /\ depth' = depth /\ esc' = esc /\ dep' = dep /\ accept' = accept
  BY DEF vars
<1>3. /\ Given' /\ (Chosen => Chosen') /\ Window' = Window
      /\ Escapes' = Escapes /\ (Clean' <=> Clean) /\ \A i : Abs(i)' = Abs(i)
  BY <1>1, KeptIs DEF BillInv
<1>4. BTyped'
  BY <1>2 DEF BillInv, BTyped
<1>5. /\ (Fresh => Fresh') /\ (FwdRight => FwdRight')
      /\ (EscRight => EscRight') /\ (RevRight => RevRight')
  <2>1. Abs(pos)' = Abs(pos)
    BY <1>2 DEF Abs
  <2> QED
    BY <1>2, <1>3, <2>1 DEF Fresh, NoWindow, FwdRight, EscRight, RevRight
<1>6. (ForwardExact => ForwardExact') /\ (BackwardExact => BackwardExact')
  BY <1>2 DEF ForwardExact, BackwardExact, Scanned
<1>7. Scanning'
  <2>1. Scanning
    BY DEF BillInv
  <2> QED
    BY <1>2, <1>3, <1>5, <1>6, <2>1 DEF Scanning, NoWindow
<1>8. Decided'
  <2>1. Accepts' <=> Accepts
    BY <1>2, <1>3 DEF Accepts, BytesOk, DepthOk, Pair
  <2>2. Pair(claim.v)' = Pair(claim.v)
    BY <1>2 DEF Pair
  <2> QED
    BY <1>2, <2>1, <2>2 DEF BillInv, Decided
<1> QED
  BY <1>3, <1>4, <1>7, <1>8 DEF BillInv

LEMMA BillStep == BillInv /\ [Next]_vars => BillInv'
<1>1. Next => \/ Select \/ ForwardByte \/ EscapeByte \/ EscapesDone
              \/ BackwardByte \/ ScanDone \/ Decide
  BY DEF Next
<1> QED
  BY <1>1, SelectKeeps, ForwardKeeps, EscapeKeeps, EscapesDoneKeeps,
     BackwardKeeps, ScanDoneKeeps, DecideKeeps, BillStutter

LEMMA BillInvariant == Spec => []BillInv
BY BillStart, BillStep, PTL DEF Spec

(***************************************************************************)
(* What the invariant says of a verdict.                                   *)
(***************************************************************************)
LEMMA FitsThen ==
    ASSUME BillInv PROVE WindowFits
<1>1. win = NoWindow \/ Chosen
  BY DEF BillInv, BTyped, Scanning, Fresh
<1>2. CASE win = NoWindow
  BY <1>2 DEF WindowFits
<1>3. CASE Chosen
  BY <1>3, WindowIs DEF BillInv
<1> QED
  BY <1>1, <1>2, <1>3

LEMMA ExactThen ==
    ASSUME BillInv PROVE ForwardExact /\ BackwardExact
<1>1. Scanned => ForwardExact /\ BackwardExact
  BY DEF BillInv, Scanning, Scanned
<1>2. ~ Scanned => ForwardExact /\ BackwardExact
  BY DEF ForwardExact, BackwardExact
<1> QED
  BY <1>1, <1>2

\* The byte of the response that byte t of the pair is compared with.
LEMMA PairByte ==
    ASSUME Given, NEW s \in Found(claim.at), ChosenAt(s), Chosen, claim.share,
           NEW t \in 1 .. Len(claim.at) + 4
    PROVE  /\ win.j + t \in 1 .. Len(Window)
           /\ s + t \in 1 .. Len(resp)
           /\ Window[win.j + t] = resp[s + t].c
           /\ win.rho = "fwd" => win.j = s
<1>1. /\ win.j \in Nat /\ win.k = win.j + Len(claim.at) + 3
      /\ win.k < Len(Window) /\ Len(Window) \in Nat
      /\ BS * win.o \in Nat /\ BS * win.o + win.j = s
      /\ win.rho = "fwd" => win.o = 0
  BY DEF ChosenAt
<1>2. claim.at \in Count
  BY DEF Given, Claims
<1>3. /\ s \in Nat /\ s + Len(claim.at) + 4 <= Len(resp)
      /\ Len(claim.at) \in Nat /\ Len(resp) \in Nat
  BY <1>2, FoundIs, CountsAre, RespIs
<1>4. PICK x \in Nat : x = BS * win.o
  BY <1>1
<1>5. PICK m \in Nat : m = Len(claim.at)
  BY <1>3
<1>j. PICK j \in Nat : j = win.j
  BY <1>1
<1>w. PICK w \in Nat : w = Len(Window)
  BY <1>1
<1>6. t \in Nat /\ t >= 1 /\ t <= m + 4
  BY <1>5
<1>7. x + j = s /\ j + m + 3 < w /\ s + m + 4 <= Len(resp)
  BY <1>1, <1>3, <1>4, <1>5, <1>j, <1>w
<1>8. win.j + t \in 1 .. Len(Window) /\ s + t \in 1 .. Len(resp)
  <2>1. j + t >= 1 /\ j + t <= w /\ j + t \in Nat
    BY <1>6, <1>7
  <2>2. s + t >= 1 /\ s + t <= Len(resp) /\ s + t \in Nat
    BY <1>3, <1>6, <1>7
  <2> QED
    BY <1>3, <1>j, <1>w, <2>1, <2>2
<1>9. Abs(win.j + t) = s + t
  <2>1. Abs(win.j + t) = x + (j + t)
    BY <1>4, <1>j DEF Abs
  <2>2. x + (j + t) = s + t
    BY <1>3, <1>6, <1>7
  <2> QED
    BY <2>1, <2>2
<1>10. Window[win.j + t] = resp[s + t].c
  BY <1>8, <1>9, WindowByte
<1>11. win.rho = "fwd" => win.j = s
  <2>1. win.o = 0 => x = 0
    BY <1>4, SizesAssumption
  <2> QED
    BY <1>1, <1>3, <1>7, <1>j, <2>1
<1> QED
  BY <1>8, <1>10, <1>11

\* The depth the circuit compares with the claimed one.
LEMMA DepthThere ==
    ASSUME BillInv, Scanned, Chosen, claim.share, win.rho = "fwd",
           NEW s \in Found(claim.at), ChosenAt(s)
    PROVE  dep[win.j + 1] = resp[s + 1].depth
<1>1. Given /\ Len(dep) = Len(Window) /\ ForwardExact
  BY ExactThen DEF BillInv, Scanning, Scanned
<1>2. Len(claim.at) \in Nat
  BY <1>1, CountsAre DEF Given, Claims
<1>3. 1 \in 1 .. Len(claim.at) + 4
  BY <1>2
<1>4. /\ win.j + 1 \in 1 .. Len(dep) /\ s + 1 \in 1 .. Len(resp)
      /\ win.j = s
  BY <1>1, <1>3, PairByte
<1>5. s + 1 <= Len(resp)
  BY <1>1, <1>4, RespIs
<1> QED
  BY <1>1, <1>4, <1>5 DEF ForwardExact

LEMMA HonestThen ==
    ASSUME BillInv PROVE HonestForward
<1> SUFFICES ASSUME phase = "done", win.rho = "fwd",
                    claim.v = claim.truth, claim.at = claim.v,
                    claim.d = 2, claim.com, claim.share
             PROVE  accept
  BY DEF HonestForward
<1>1. Given /\ Chosen /\ Scanned /\ (accept <=> Accepts)
  BY DEF BillInv, Scanning, Decided, Scanned
<1>2. PICK s \in Found(claim.at) : ChosenAt(s)
  BY <1>1, WindowIs
<1>3. claim.at \in Count /\ claim.truth = claim.at
  BY <1>1 DEF Given, Claims
<1>4. KeyAt(resp, claim.at, s)
  BY <1>1, <1>2, <1>3, FoundIs
<1>5. DOMAIN Pair(claim.v) = 1 .. Len(claim.at) + 4
  BY <1>3, CountsAre
<1>6. BytesOk
  <2> SUFFICES ASSUME NEW t \in DOMAIN Pair(claim.v)
               PROVE  Window[win.j + t] = Pair(claim.v)[t]
    BY DEF BytesOk
  <2>1. Window[win.j + t] = resp[s + t].c
    BY <1>1, <1>2, <1>5, PairByte
  <2>2. resp[s + t].c = Pair(claim.at)[t]
    BY <1>4 DEF KeyAt
  <2> QED
    BY <2>1, <2>2
<1>7. DepthOk
  <2>1. resp[s + 1].depth = 2
    BY <1>4 DEF KeyAt
  <2>2. dep[win.j + 1] = resp[s + 1].depth
    BY <1>1, <1>2, DepthThere
  <2> QED
    BY <2>1, <2>2 DEF DepthOk
<1> QED
  BY <1>1, <1>6, <1>7 DEF Accepts

LEMMA ThereThen ==
    ASSUME BillInv PROVE AcceptedIsThere
<1> SUFFICES ASSUME accept
             PROVE  /\ claim.com /\ claim.share
                    /\ BS * win.o + win.j \in Found(claim.v)
                    /\ ~ resp[BS * win.o + win.j + 1].inside
                    /\ win.rho = "fwd" =>
                           resp[BS * win.o + win.j + 1].depth = claim.d
  BY DEF AcceptedIsThere
<1>1. /\ Given /\ Chosen /\ Scanned /\ Accepts
      /\ win.k - win.j + 1 = Len(Pair(claim.v))
  BY DEF BillInv, Scanning, Decided, Scanned
<1>2. PICK s \in Found(claim.at) : ChosenAt(s)
  BY <1>1, WindowIs
<1>3. claim.at \in Count /\ claim.v \in Count
  BY <1>1 DEF Given, Claims
<1>4. /\ s \in Nat /\ s + Len(claim.at) + 4 <= Len(resp)
      /\ KeyAt(resp, claim.truth, s) /\ Len(resp) \in Nat
  BY <1>1, <1>2, <1>3, FoundIs, RespIs
<1>5. /\ Len(claim.at) \in Nat /\ Len(claim.v) \in Nat
      /\ Len(Pair(claim.v)) = Len(claim.v) + 4
      /\ DOMAIN Pair(claim.v) = 1 .. Len(claim.v) + 4
      /\ Pair(claim.v)[1] = "Q"
  BY <1>3, CountsAre
<1>6. /\ win.j \in Nat /\ win.k = win.j + Len(claim.at) + 3
      /\ win.k < Len(Window) /\ Len(Window) \in Nat
      /\ BS * win.o + win.j = s
      /\ ~ claim.share => \A n \in 1 .. Len(Window) : Window[n] = "garbage"
  BY <1>2 DEF ChosenAt
<1>7. Len(claim.v) = Len(claim.at)
  BY <1>1, <1>5, <1>6
<1>8. claim.com /\ BytesOk /\ DepthOk
  BY <1>1 DEF Accepts
<1>9. claim.share
  <2>1. 1 \in DOMAIN Pair(claim.v) /\ win.j + 1 \in 1 .. Len(Window)
    BY <1>5, <1>6
  <2>2. Window[win.j + 1] = "Q"
    BY <1>5, <1>8, <2>1 DEF BytesOk
  <2>3. ~ claim.share => Window[win.j + 1] = "garbage"
    BY <1>6, <2>1
  <2> QED
    BY <2>2, <2>3
<1>10. s \in Found(claim.v)
  <2>1. s \in 0 .. Len(resp) - Len(Pair(claim.v))
    BY <1>4, <1>5, <1>7
  <2>2. ASSUME NEW t \in DOMAIN Pair(claim.v)
        PROVE  resp[s + t].c = Pair(claim.v)[t]
    <3>1. t \in 1 .. Len(claim.at) + 4
      BY <1>5, <1>7
    <3>2. Window[win.j + t] = resp[s + t].c
      BY <1>1, <1>2, <1>9, <3>1, PairByte
    <3> QED
      BY <1>8, <3>2 DEF BytesOk
  <2> QED
    BY <2>1, <2>2 DEF Found
<1>11. ~ resp[s + 1].inside
  BY <1>4 DEF KeyAt
<1>12. win.rho = "fwd" => resp[s + 1].depth = claim.d
  <2>1. win.rho = "fwd" => dep[win.j + 1] = resp[s + 1].depth
    BY <1>1, <1>2, <1>9, DepthThere
  <2> QED
    BY <1>8, <2>1 DEF DepthOk
<1> QED
  BY <1>6, <1>8, <1>9, <1>10, <1>11, <1>12

LEMMA ForgedThen ==
    ASSUME BillInv PROVE ForgedRejected
<1> SUFFICES ASSUME accept, Len(claim.v) = Len(claim.truth)
             PROVE  claim.v = claim.truth
  BY DEF ForgedRejected
<1>1. /\ Given /\ claim.v \in Count /\ claim.truth \in Count
  BY DEF BillInv, Given, Claims
<1>2. PICK s : s \in Found(claim.v)
  BY ThereThen DEF AcceptedIsThere
<1>3. KeyAt(resp, claim.truth, s)
  BY <1>1, <1>2, FoundIs
<1>4. /\ claim.v \in Seq(Figures) /\ claim.truth \in Seq(Figures)
      /\ Len(claim.v) \in Nat
      /\ DOMAIN Pair(claim.v) = 1 .. Len(claim.v) + 4
      /\ DOMAIN Pair(claim.truth) = 1 .. Len(claim.v) + 4
      /\ \A n \in 1 .. Len(claim.v) :
           /\ Pair(claim.v)[n + 4] = claim.v[n]
           /\ Pair(claim.truth)[n + 4] = claim.truth[n]
  BY <1>1, CountsAre
<1>5. ASSUME NEW n \in 1 .. Len(claim.v) PROVE claim.v[n] = claim.truth[n]
  <2>1. n + 4 \in DOMAIN Pair(claim.v) /\ n + 4 \in DOMAIN Pair(claim.truth)
    BY <1>4
  <2>2. resp[s + (n + 4)].c = Pair(claim.v)[n + 4]
    BY <1>2, <2>1 DEF Found
  <2>3. resp[s + (n + 4)].c = Pair(claim.truth)[n + 4]
    BY <1>3, <2>1 DEF KeyAt
  <2> QED
    BY <1>4, <2>2, <2>3
<1>6. PICK l \in Nat : l = Len(claim.v) /\ l = Len(claim.truth)
  BY <1>4
<1>7. claim.v = [n \in 1 .. l |-> claim.v[n]]
  BY <1>4, <1>6
<1>8. claim.truth = [n \in 1 .. l |-> claim.truth[n]]
  BY <1>4, <1>6
<1>9. \A n \in 1 .. l : claim.v[n] = claim.truth[n]
  BY <1>5, <1>6
<1> QED
  BY ONLY <1>7, <1>8, <1>9

(***************************************************************************)
(* The theorems.                                                           *)
(***************************************************************************)

\* select_window, for every response: the claimed pair lies inside the window,
\* the window inside the record, and no window of the other direction is
\* shorter.
THEOREM WindowAlwaysFits == Spec => []WindowFits
<1>1. BillInv => WindowFits
  BY FitsThen
<1> QED
  BY <1>1, BillInvariant, PTL

\* _parse_fwd, for every response: whatever braces, quotes and backslashes the
\* strings of the response contain, the forward scan finds the true depth of
\* every byte of the response in its window.
THEOREM ForwardDepth == Spec => []ForwardExact
<1>1. BillInv => ForwardExact
  BY ExactThen
<1> QED
  BY <1>1, BillInvariant, PTL

\* _escapes and _parse_rev, for every response: so does the backward scan, when
\* the tag decrypts to nothing JSON and the window starts outside of a string.
THEOREM BackwardDepth == Spec => []BackwardExact
<1>1. BillInv => BackwardExact
  BY ExactThen
<1> QED
  BY <1>1, BillInvariant, PTL

\* Completeness of verify_billing on a prefix window: a right claim under the
\* agent's own commitment and R's share is accepted.
THEOREM HonestAccepted == Spec => []HonestForward
<1>1. BillInv => HonestForward
  BY HonestThen
<1> QED
  BY <1>1, BillInvariant, PTL

\* Soundness of verify_billing: an accepted claim is written in the response,
\* outside any string, under the right share and commitment, and at the
\* claimed depth when the scan is forward.
THEOREM AcceptedThere == Spec => []AcceptedIsThere
<1>1. BillInv => AcceptedIsThere
  BY ThereThen
<1> QED
  BY <1>1, BillInvariant, PTL

\* No count of the true count's length but the true one is accepted.
THEOREM NoForgery == Spec => []ForgedRejected
<1>1. BillInv => ForgedRejected
  BY ForgedThen
<1> QED
  BY <1>1, BillInvariant, PTL

=============================================================================
