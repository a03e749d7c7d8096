---------------------------- MODULE QueryProofs -----------------------------
(***************************************************************************)
(* Proofs about Segments, Dabble and Assembly: the shares that the two     *)
(* parties make of a template, the decimal digits of a shared number, the  *)
(* text that a merged range of segments holds, and what the merges cost.   *)
(***************************************************************************)
EXTENDS Assembly, Segments, Dabble,
        WellFoundedInduction, SequenceTheorems, FiniteSetTheorems, TLAPS

(***************************************************************************)
(* The parts of a template.                                                *)
(***************************************************************************)
LEMMA Both ==
    ASSUME NEW s \in Sides
    PROVE  /\ 1 - s \in Sides /\ 1 - s # s /\ 1 - (1 - s) = s
           /\ \A t \in Sides : t = s \/ t = 1 - s
           /\ 0 \in Sides /\ 1 \in Sides /\ 1 - 0 = 1 /\ 1 - 1 = 0
BY DEF Sides

LEMMA LegalParts ==
    ASSUME parts \in Templates
    PROVE  /\ Len(parts) \in Nat /\ DOMAIN parts = 1 .. Len(parts)
           /\ \A n \in 1 .. Len(parts) : Legal(parts[n])
<1>1. parts \in Seq({parts[n] : n \in DOMAIN parts})
  BY TemplateAssumption
<1>2. Len(parts) \in Nat /\ DOMAIN parts = 1 .. Len(parts)
  BY <1>1, LenProperties
<1> QED
  BY <1>2, TemplateAssumption

Thetas == PubLen \cup {"As", "Rs", "Xs"}
Texts(h) == [1 .. h -> {0, 1}]

LEMMA LegalNumbers ==
    ASSUME NEW e, Legal(e)
    PROVE  /\ e.h \in Nat /\ e.h \in 0 .. LenMod - 1 /\ e.theta \in Thetas
           /\ LenMod \in Nat \ {0}
BY TemplateAssumption DEF Legal, Thetas

\* A content filled up to h.
LEMMA PadIs ==
    ASSUME NEW e, Legal(e), NEW s \in Sides
    PROVE  /\ PadContent(s, e) \in Texts(e.h)
           /\ PadContent(s, e) \in Seq({0, 1}) /\ Len(PadContent(s, e)) = e.h
           /\ \A i \in 1 .. e.h :
                  PadContent(s, e)[i] = IF i <= Len(e.c[s]) THEN e.c[s][i] ELSE 0
<1> DEFINE u == e.c[s]
           w == [i \in 1 .. e.h - Len(u) |-> 0]
<1>1. /\ u \in Seq({0, 1}) /\ Len(u) \in Nat /\ Len(u) <= e.h
      /\ e.h \in Nat /\ e.h - Len(u) \in Nat
  <2>1. u \in Seq({0, 1}) /\ Len(u) <= e.h /\ e.h \in Nat
    BY LegalNumbers DEF Legal
  <2>2. Len(u) \in Nat
    BY <2>1, LenProperties
  <2> QED
    BY <2>1, <2>2
<1>2. w \in Seq({0, 1}) /\ Len(w) = e.h - Len(u)
  <2>1. w \in [1 .. e.h - Len(u) -> {0, 1}]
    OBVIOUS
  <2>2. w \in Seq({0, 1})
    BY <1>1, <2>1, SeqDef
  <2> QED
    BY <1>1, <2>2, LenProperties
<1> HIDE DEF u, w
<1>3. /\ u \o w \in Seq({0, 1}) /\ Len(u \o w) = Len(u) + Len(w)
      /\ \A i \in 1 .. Len(u) + Len(w) :
             (u \o w)[i] = IF i <= Len(u) THEN u[i] ELSE w[i - Len(u)]
  BY <1>1, <1>2, ConcatProperties
<1>4. Len(u) + Len(w) = e.h
  BY <1>1, <1>2
<1>5. ASSUME NEW i \in 1 .. e.h PROVE (u \o w)[i] = IF i <= Len(u) THEN u[i] ELSE 0
  <2>1. CASE i <= Len(u)
    BY <1>3, <1>4, <2>1
  <2>2. CASE ~ (i <= Len(u))
    <3>1. i - Len(u) \in 1 .. e.h - Len(u)
      BY <1>1, <2>2
    <3>2. w[i - Len(u)] = 0
      BY <3>1 DEF w
    <3> QED
      BY <1>3, <1>4, <2>2, <3>2
  <2> QED
    BY <2>1, <2>2
<1>6. u \o w \in [1 .. e.h -> {0, 1}]
  BY <1>3, <1>4, LenProperties, SeqDef
<1>7. PadContent(s, e) = u \o w
  BY DEF PadContent, u, w
<1> QED
  BY <1>3, <1>4, <1>5, <1>6, <1>7 DEF u, Texts

LEMMA BitSums ==
    /\ \A i, j \in {0, 1} : (i + j) % 2 \in {0, 1} /\ (i + j) % 2 = (j + i) % 2
    /\ \A i \in {0, 1} : (i + 0) % 2 = i /\ (0 + i) % 2 = i
    /\ \A i, j \in {0, 1} : (((i + j) % 2) + j) % 2 = i /\ (j + ((i + j) % 2)) % 2 = i
OBVIOUS

LEMMA XorIs ==
    ASSUME NEW h \in Nat, NEW u \in Texts(h), NEW w \in Texts(h)
    PROVE  /\ BXor(u, w) \in Texts(h) /\ BXor(u, w) = BXor(w, u)
           /\ \A i \in 1 .. h : BXor(u, w)[i] = (u[i] + w[i]) % 2
           /\ BXor(BXor(u, w), w) = u /\ BXor(w, BXor(u, w)) = u
<1>1. /\ DOMAIN u = 1 .. h /\ DOMAIN w = 1 .. h
      /\ \A i \in 1 .. h : u[i] \in {0, 1} /\ w[i] \in {0, 1}
  BY DEF Texts
<1>2. BXor(u, w) = [i \in 1 .. h |-> (u[i] + w[i]) % 2]
  BY <1>1 DEF BXor
<1>3. BXor(u, w) \in Texts(h)
  BY <1>1, <1>2, BitSums DEF Texts
<1>4. BXor(u, w) = BXor(w, u)
  BY <1>1, BitSums DEF BXor
<1>5. DOMAIN BXor(u, w) = 1 .. h
  BY <1>3 DEF Texts
<1> DEFINE x == BXor(u, w)
<1>6. \A i \in 1 .. h : x[i] = (u[i] + w[i]) % 2
  BY <1>2
<1>7. BXor(x, w) = [i \in 1 .. h |-> u[i]]
  <2>1. \A i \in 1 .. h : (x[i] + w[i]) % 2 = u[i]
    BY <1>1, <1>6, BitSums
  <2> HIDE DEF x
  <2> QED
    BY <1>5, <2>1 DEF BXor, x
<1>8. BXor(w, x) = [i \in 1 .. h |-> u[i]]
  <2>1. \A i \in 1 .. h : (w[i] + x[i]) % 2 = u[i]
    BY <1>1, <1>6, BitSums
  <2> HIDE DEF x
  <2> QED
    BY <1>1, <2>1 DEF BXor
<1>9. [i \in 1 .. h |-> u[i]] = u
  BY <1>1 DEF Texts
<1> QED
  BY <1>3, <1>4, <1>6, <1>7, <1>8, <1>9

LEMMA SubIs ==
    ASSUME NEW g \in 0 .. LenMod - 1, NEW m \in 0 .. LenMod - 1
    PROVE  /\ LSub(g, m) \in 0 .. LenMod - 1
           /\ (LSub(g, m) + m) % LenMod = g /\ (m + LSub(g, m)) % LenMod = g
<1>1. LenMod \in Nat \ {0} /\ g \in Nat /\ m \in Nat /\ g < LenMod /\ m < LenMod
  BY TemplateAssumption
<1>2. CASE m <= g
  <2>1. g - m \in 0 .. LenMod - 1
    BY <1>1, <1>2
  <2>2. LSub(g, m) = g - m
    BY <1>1, <2>1 DEF LSub
  <2> QED
    BY <1>1, <2>1, <2>2
<1>3. CASE m > g
  <2>1. g - m + LenMod \in 0 .. LenMod - 1
    BY <1>1, <1>3
  <2>2. LSub(g, m) = g - m + LenMod
    BY <1>1, <1>3 DEF LSub
  <2>3. g - m + LenMod + m = g + LenMod /\ m + (g - m + LenMod) = g + LenMod
    BY <1>1
  <2>4. (g + LenMod) % LenMod = g
    BY <1>1
  <2> QED
    BY <2>1, <2>2, <2>3, <2>4
<1> QED
  BY <1>1, <1>2, <1>3

-----------------------------------------------------------------------------
(***************************************************************************)
(* The shares of a part.  Without dealing, the mask m is the one the owner *)
(* sends; in mode "sim" both take it from a counter, which stands at n.    *)
(***************************************************************************)
Dealt(n, h) == [i \in 1 .. h |-> Det(n + i) % 2]
AOwner(e) == IF Owner(0, e.theta) THEN 0 ELSE 1
AGOwner(e) == IF GOwner(0, e) THEN 0 ELSE 1
SidePads == {"Xf", "Xs"}

ByteShare(s, e, n, m) ==
    CASE e.theta = "P" ->
           IF s = 0 THEN PadContent(0, e) ELSE [i \in 1 .. e.h |-> 0]
      [] e.theta \in SidePads /\ backend = "ot" -> PadContent(s, e)
      [] e.theta \in SidePads /\ backend # "ot" ->
           IF s = 0 THEN Dealt(n, e.h)
           ELSE BXor(BXor(PadContent(1, e), PadContent(0, e)), Dealt(n, e.h))
      [] e.theta \notin SidePads \cup {"P"} /\ backend = "ot" ->
           IF Owner(s, e.theta) THEN BXor(PadContent(s, e), m) ELSE m
      [] OTHER ->
           IF s = 0 THEN DetBits(n + 1, e.h)
           ELSE BXor(PadContent(AOwner(e), e), DetBits(n + 1, e.h))

LenShare(s, e, n, m) ==
    CASE e.theta \in PubLen -> e.h
      [] e.theta \notin PubLen /\ backend = "ot" ->
           IF GOwner(s, e) THEN LSub(e.g[s], m) ELSE m
      [] OTHER ->
           IF s = 0 THEN Det(n + 1) % LenMod
           ELSE LSub(e.g[AGOwner(e)], Det(n + 1) % LenMod)

\* One side owns the content, and one passes the length, where they are not
\* public or everybody's.
LEMMA OneOwner ==
    ASSUME NEW e, Legal(e), NEW s \in Sides
    PROVE  /\ e.theta \notin SidePads \cup {"P"} =>
                (Owner(1 - s, e.theta) <=> ~ Owner(s, e.theta))
           /\ e.theta \in SidePads \cup {"P"} => ~ Owner(s, e.theta)
           /\ e.theta \notin PubLen =>
                /\ GOwner(1 - s, e) <=> ~ GOwner(s, e)
                /\ GOwner(s, e) => e.g[s] \in 0 .. LenMod - 1
<1>1. s \in {0, 1} /\ e.theta \in Thetas /\ e.h \in 0 .. LenMod - 1 /\ LenMod \in Nat \ {0}
  BY LegalNumbers DEF Sides
<1>2. /\ e.theta \notin SidePads \cup {"P"} =>
           (Owner(1 - s, e.theta) <=> ~ Owner(s, e.theta))
      /\ e.theta \in SidePads \cup {"P"} => ~ Owner(s, e.theta)
  BY <1>1 DEF Thetas, PubLen, Owner, SidePads
<1>3. ASSUME e.theta = "Xs"
      PROVE  /\ GOwner(1 - s, e) <=> ~ GOwner(s, e)
             /\ GOwner(s, e) => e.g[s] \in 0 .. LenMod - 1
  <2>1. PICK t \in Sides : e.g[t] \in 0 .. e.h /\ e.g[1 - t] = NoG
    BY <1>3 DEF Legal
  <2>2. e.g[t] # NoG /\ e.g[t] \in 0 .. LenMod - 1
    BY <1>1, <2>1 DEF NoG
  <2>3. GOwner(s, e) <=> e.g[s] # NoG
    BY <1>3 DEF GOwner, Owner
  <2>4. GOwner(1 - s, e) <=> e.g[1 - s] # NoG
    BY <1>3 DEF GOwner, Owner
  <2> QED
    BY <2>1, <2>2, <2>3, <2>4, Both
<1>4. ASSUME e.theta \in {"As", "Rs"}
      PROVE  /\ GOwner(1 - s, e) <=> ~ GOwner(s, e)
             /\ GOwner(s, e) => e.g[s] \in 0 .. LenMod - 1
  <2>1. \A t \in Sides : GOwner(t, e) <=> Owner(t, e.theta)
    BY <1>4 DEF GOwner
  <2>2. GOwner(1 - s, e) <=> ~ GOwner(s, e)
    BY <1>2, <1>4, <2>1, Both DEF SidePads
  <2>3. \A t \in Sides : Len(e.c[t]) \in 0 .. LenMod - 1
    <3> SUFFICES ASSUME NEW t \in Sides PROVE Len(e.c[t]) \in 0 .. LenMod - 1
      OBVIOUS
    <3>1. e.c[t] \in Seq({0, 1}) /\ Len(e.c[t]) <= e.h
      BY DEF Legal
    <3>2. Len(e.c[t]) \in Nat
      BY <3>1, LenProperties
    <3> QED
      BY <1>1, <3>1, <3>2
  <2>4. Owner(s, e.theta) => e.g[s] = Len(e.c[s])
    BY <1>1, <1>4 DEF Legal, Owner
  <2> QED
    BY <2>1, <2>2, <2>3, <2>4
<1> QED
  BY <1>1, <1>2, <1>3, <1>4 DEF Thetas

LEMMA TheOwner ==
    ASSUME NEW e, Legal(e)
    PROVE  /\ e.theta \notin SidePads \cup {"P"} =>
                /\ AOwner(e) = 0 => Owner(0, e.theta) /\ ~ Owner(1, e.theta)
                /\ AOwner(e) = 1 => ~ Owner(0, e.theta) /\ Owner(1, e.theta)
           /\ e.theta \notin PubLen =>
                /\ AGOwner(e) = 0 => GOwner(0, e) /\ ~ GOwner(1, e)
                /\ AGOwner(e) = 1 => ~ GOwner(0, e) /\ GOwner(1, e)
                /\ e.g[AGOwner(e)] \in 0 .. LenMod - 1
           /\ AOwner(e) \in {0, 1} /\ AGOwner(e) \in {0, 1}
<1>1. 0 \in Sides /\ 1 \in Sides /\ 1 - 0 = 1
  BY DEF Sides
<1>2. /\ e.theta \notin SidePads \cup {"P"} => (Owner(1, e.theta) <=> ~ Owner(0, e.theta))
      /\ e.theta \notin PubLen =>
           /\ GOwner(1, e) <=> ~ GOwner(0, e)
           /\ GOwner(0, e) => e.g[0] \in 0 .. LenMod - 1
           /\ GOwner(1, e) => e.g[1] \in 0 .. LenMod - 1
  BY <1>1, OneOwner
<1> QED
  BY <1>2 DEF AOwner, AGOwner

LEMMA DealtTyped ==
    ASSUME NEW n \in Nat, NEW h \in Nat
    PROVE  /\ Dealt(n, h) \in Texts(h) /\ DetBits(n + 1, h) \in Texts(h)
           /\ Det(n + 1) % LenMod \in 0 .. LenMod - 1
<1>1. \A i \in Nat : (n + i) % 2 \in {0, 1}
  OBVIOUS
<1>2. \A i \in 1 .. h : i \in Nat
  OBVIOUS
<1>3. (n + 1) % LenMod \in 0 .. LenMod - 1
  BY TemplateAssumption
<1> QED
  BY <1>1, <1>2, <1>3 DEF Dealt, DetBits, Det, Texts

LEMMA SharesTyped ==
    ASSUME NEW e, Legal(e), NEW s \in Sides, NEW n \in Nat
    PROVE  /\ \A m \in Texts(e.h) : ByteShare(s, e, n, m) \in Texts(e.h)
           /\ \A m \in 0 .. LenMod - 1 : LenShare(s, e, n, m) \in 0 .. LenMod - 1
<1>1. /\ e.h \in Nat /\ e.h \in 0 .. LenMod - 1 /\ s \in {0, 1}
      /\ AOwner(e) \in Sides /\ AGOwner(e) \in Sides
  BY LegalNumbers DEF Sides, AOwner, AGOwner
<1>2. ASSUME NEW m \in Texts(e.h)
      PROVE  ByteShare(s, e, n, m) \in Texts(e.h)
  <2>1. /\ PadContent(0, e) \in Texts(e.h) /\ PadContent(1, e) \in Texts(e.h)
        /\ PadContent(AOwner(e), e) \in Texts(e.h) /\ PadContent(s, e) \in Texts(e.h)
    BY <1>1, PadIs, Both
  <2>2. Dealt(n, e.h) \in Texts(e.h) /\ DetBits(n + 1, e.h) \in Texts(e.h)
    BY <1>1, DealtTyped
  <2>3. [i \in 1 .. e.h |-> 0] \in Texts(e.h)
    BY DEF Texts
  <2>4. \A u, w \in Texts(e.h) : BXor(u, w) \in Texts(e.h)
    BY <1>1, XorIs
  <2> QED
    BY <2>1, <2>2, <2>3, <2>4 DEF ByteShare
<1>3. ASSUME NEW m \in 0 .. LenMod - 1
      PROVE  LenShare(s, e, n, m) \in 0 .. LenMod - 1
  <2>1. Det(n + 1) % LenMod \in 0 .. LenMod - 1
    BY <1>1, DealtTyped
  <2>2. \A g, w \in 0 .. LenMod - 1 : LSub(g, w) \in 0 .. LenMod - 1
    BY SubIs
  <2>3. e.theta \notin PubLen =>
          /\ GOwner(s, e) => e.g[s] \in 0 .. LenMod - 1
          /\ e.g[AGOwner(e)] \in 0 .. LenMod - 1
    BY OneOwner, TheOwner
  <2> QED
    BY <1>1, <2>1, <2>2, <2>3 DEF LenShare
<1> QED
  BY <1>2, <1>3

\* The two shares of a content join to it, whatever masks them.
LEMMA BytesJoin ==
    ASSUME NEW e, Legal(e), NEW n \in Nat, NEW m \in Texts(e.h)
    PROVE  BXor(ByteShare(0, e, n, m), ByteShare(1, e, n, m)) = Meant(e)
<1>1. e.h \in Nat /\ e.theta \in Thetas /\ 0 \in Sides /\ 1 \in Sides
  BY LegalNumbers DEF Sides
<1> DEFINE at(t, i) == IF i <= Len(e.c[t]) THEN e.c[t][i] ELSE 0
           u == PadContent(0, e)
           w == PadContent(1, e)
<1>2. /\ u \in Texts(e.h) /\ w \in Texts(e.h)
      /\ \A i \in 1 .. e.h : u[i] = at(0, i) /\ w[i] = at(1, i)
  BY <1>1, PadIs
<1>3. Dealt(n, e.h) \in Texts(e.h) /\ DetBits(n + 1, e.h) \in Texts(e.h)
  BY <1>1, DealtTyped
<1>4. u = [i \in 1 .. e.h |-> at(0, i)] /\ w = [i \in 1 .. e.h |-> at(1, i)]
  <2>1. u = [i \in 1 .. e.h |-> u[i]] /\ w = [i \in 1 .. e.h |-> w[i]]
    BY <1>2 DEF Texts
  <2> HIDE DEF u, w
  <2> QED
    BY <1>2, <2>1
<1>5. CASE e.theta \in SidePads
  <2>1. Meant(e) = [i \in 1 .. e.h |-> (at(0, i) + at(1, i)) % 2]
    BY <1>5 DEF Meant, SidePads
  <2>2. BXor(u, w) = [i \in 1 .. e.h |-> (at(0, i) + at(1, i)) % 2]
    <3> HIDE DEF u, w
    <3>1. DOMAIN u = 1 .. e.h
      BY <1>2 DEF Texts
    <3> QED
      BY <1>2, <3>1 DEF BXor
  <2>3. CASE backend = "ot"
    <3>1. ByteShare(0, e, n, m) = u /\ ByteShare(1, e, n, m) = w
      BY <1>5, <2>3 DEF ByteShare, SidePads
    <3> QED
      BY <2>1, <2>2, <3>1
  <2>4. CASE backend # "ot"
    <3>1. /\ ByteShare(0, e, n, m) = Dealt(n, e.h)
          /\ ByteShare(1, e, n, m) = BXor(BXor(w, u), Dealt(n, e.h))
      BY <1>5, <2>4 DEF ByteShare, SidePads
    <3>2. BXor(w, u) \in Texts(e.h) /\ BXor(w, u) = BXor(u, w)
      BY <1>1, <1>2, XorIs
    <3>3. BXor(Dealt(n, e.h), BXor(BXor(w, u), Dealt(n, e.h))) = BXor(w, u)
      BY <1>1, <1>3, <3>2, XorIs
    <3> QED
      BY <2>1, <2>2, <3>1, <3>2, <3>3
  <2> QED
    BY <2>3, <2>4
<1>6. CASE e.theta = "P"
  <2>1. Meant(e) = [i \in 1 .. e.h |-> at(0, i)]
    BY <1>6 DEF Meant
  <2>2. /\ ByteShare(0, e, n, m) = u
        /\ ByteShare(1, e, n, m) = [i \in 1 .. e.h |-> 0]
    BY <1>6 DEF ByteShare, SidePads
  <2>3. BXor(u, [i \in 1 .. e.h |-> 0]) = [i \in 1 .. e.h |-> u[i]]
    <3> HIDE DEF u
    <3>1. DOMAIN u = 1 .. e.h /\ \A i \in 1 .. e.h : u[i] \in {0, 1}
      BY <1>2 DEF Texts
    <3> QED
      BY <3>1, BitSums DEF BXor
  <2>4. [i \in 1 .. e.h |-> u[i]] = [i \in 1 .. e.h |-> at(0, i)]
    <3> HIDE DEF u
    <3> QED
      BY <1>2
  <2> QED
    BY <2>1, <2>2, <2>3, <2>4
<1>7. CASE e.theta \notin SidePads \cup {"P"}
  <2>1. e.theta \in {"Af", "As"} \/ e.theta \in {"Rf", "Rs"}
    BY <1>1, <1>7 DEF Thetas, PubLen, SidePads
  <2>2. Meant(e) = PadContent(AOwner(e), e)
    <3>1. CASE e.theta \in {"Af", "As"}
      <4>1. Meant(e) = [i \in 1 .. e.h |-> at(0, i)] /\ AOwner(e) = 0
        BY <3>1 DEF Meant, AOwner, Owner
      <4> QED
        BY <1>4, <4>1
    <3>2. CASE e.theta \in {"Rf", "Rs"}
      <4>1. Meant(e) = [i \in 1 .. e.h |-> at(1, i)] /\ AOwner(e) = 1
        BY <3>2 DEF Meant, AOwner, Owner
      <4> QED
        BY <1>4, <4>1
    <3> QED
      BY <2>1, <3>1, <3>2
  <2>3. PICK v : v = PadContent(AOwner(e), e) /\ v \in Texts(e.h)
    BY <1>2, TheOwner
  <2>4. CASE backend = "ot"
    <3>1. CASE AOwner(e) = 0
      <4>1. ByteShare(0, e, n, m) = BXor(v, m) /\ ByteShare(1, e, n, m) = m
        BY <1>7, <2>3, <2>4, <3>1, TheOwner DEF ByteShare
      <4> QED
        BY <1>1, <2>2, <2>3, <4>1, XorIs
    <3>2. CASE AOwner(e) = 1
      <4>1. ByteShare(0, e, n, m) = m /\ ByteShare(1, e, n, m) = BXor(v, m)
        BY <1>7, <2>3, <2>4, <3>2, TheOwner DEF ByteShare
      <4> QED
        BY <1>1, <2>2, <2>3, <4>1, XorIs
    <3> QED
      BY <3>1, <3>2, TheOwner
  <2>5. CASE backend # "ot"
    <3>1. /\ ByteShare(0, e, n, m) = DetBits(n + 1, e.h)
          /\ ByteShare(1, e, n, m) = BXor(v, DetBits(n + 1, e.h))
      BY <1>7, <2>3, <2>5 DEF ByteShare
    <3> QED
      BY <1>1, <1>3, <2>2, <2>3, <3>1, XorIs
  <2> QED
    BY <2>4, <2>5
<1> QED
  BY <1>5, <1>6, <1>7

LEMMA LensJoin ==
    ASSUME NEW e, Legal(e), NEW n \in Nat, NEW m \in 0 .. LenMod - 1
    PROVE  IF e.theta \in PubLen
             THEN LenShare(0, e, n, m) = e.h /\ LenShare(1, e, n, m) = e.h
             ELSE (LenShare(0, e, n, m) + LenShare(1, e, n, m)) % LenMod = MeantLen(e)
<1>1. CASE e.theta \in PubLen
  BY <1>1 DEF LenShare
<1>2. CASE e.theta \notin PubLen
  <2>1. MeantLen(e) = e.g[AGOwner(e)]
    <3>1. e.theta \in {"As", "Rs", "Xs"}
      BY <1>2, LegalNumbers DEF Thetas
    <3> QED
      BY <3>1 DEF MeantLen, AGOwner, GOwner, Owner
  <2>2. e.g[AGOwner(e)] \in 0 .. LenMod - 1
    BY <1>2, TheOwner
  <2>3. Det(n + 1) % LenMod \in 0 .. LenMod - 1
    BY DealtTyped
  <2>4. CASE backend = "ot"
    <3>1. CASE AGOwner(e) = 0
      <4>1. LenShare(0, e, n, m) = LSub(e.g[0], m) /\ LenShare(1, e, n, m) = m
        BY <1>2, <2>4, <3>1, TheOwner DEF LenShare
      <4> QED
        BY <1>2, <2>1, <2>2, <3>1, <4>1, SubIs
    <3>2. CASE AGOwner(e) = 1
      <4>1. LenShare(0, e, n, m) = m /\ LenShare(1, e, n, m) = LSub(e.g[1], m)
        BY <1>2, <2>4, <3>2, TheOwner DEF LenShare
      <4> QED
        BY <1>2, <2>1, <2>2, <3>2, <4>1, SubIs
    <3> QED
      BY <3>1, <3>2, TheOwner
  <2>5. CASE backend # "ot"
    <3>1. /\ LenShare(0, e, n, m) = Det(n + 1) % LenMod
          /\ LenShare(1, e, n, m) = LSub(e.g[AGOwner(e)], Det(n + 1) % LenMod)
      BY <1>2, <2>5 DEF LenShare
    <3>2. ((Det(n + 1) % LenMod) + LSub(e.g[AGOwner(e)], Det(n + 1) % LenMod)) % LenMod
            = e.g[AGOwner(e)]
      BY <2>2, <2>3, SubIs
    <3> QED
      BY <1>2, <2>1, <3>1, <3>2
  <2> QED
    BY <2>4, <2>5
<1> QED
  BY <1>1, <1>2

-----------------------------------------------------------------------------
(***************************************************************************)
(* The invariant.  A side goes through stages, the bytes of part n are     *)
(* stage 2 * n - 1 and its length is stage 2 * n.  C[k] is what the        *)
(* counter says after k stages, H[k] the mask of stage k, and W[s] the     *)
(* stages whose messages are under way from s.                             *)
(***************************************************************************)
Value == Seq({0, 1}) \cup Int
Tags == {"shb", "sha", "sim.t"}
Mail == [tag : Tags, val : Value]

At(s) == Len(bytes[s]) + Len(lens[s])
SentTo(s) == At(s) + (IF sentPad[s] THEN 1 ELSE 0)
Nth(k) == (k + 1) \div 2
OfBytes(k) == k % 2 = 1
Stage == 1 .. 2 * Len(parts)
Item(k) == parts[Nth(k)]

SegTyped ==
    /\ backend \in {"ot", "sim"} /\ parts \in Templates
    /\ bytes \in [Sides -> Seq(Seq({0, 1}))] /\ lens \in [Sides -> Seq(Nat)]
    /\ sentPad \in [Sides -> BOOLEAN]
    /\ chq \in [Sides -> Seq(Mail)] /\ ctr \in [Sides -> Nat]
    /\ \A s \in Sides :
        /\ Len(bytes[s]) = Len(lens[s]) \/ Len(bytes[s]) = Len(lens[s]) + 1
        /\ Len(bytes[s]) <= Len(parts)
        /\ sentPad[s] => backend = "sim" /\ AtBytes(s) /\ Now(s).theta \in SidePads

Held(s, k) == IF OfBytes(k) THEN bytes[s][Nth(k)] ELSE lens[s][Nth(k)]
Share(s, k, C, H) ==
    IF OfBytes(k) THEN ByteShare(s, Item(k), C[k - 1], H[k])
                  ELSE LenShare(s, Item(k), C[k - 1], H[k])
MasksAt(k) == IF OfBytes(k) THEN Texts(Item(k).h) ELSE 0 .. LenMod - 1

\* Who sends in stage k, what it says, and what the counter advances by.
Sends(s, k) ==
    IF OfBytes(k)
      THEN \/ Owner(s, Item(k).theta)
           \/ Item(k).theta \in SidePads /\ backend # "ot"
      ELSE Item(k).theta \notin PubLen /\ GOwner(s, Item(k))
Said(s, k, H) ==
    IF backend = "ot" THEN H[k]
    ELSE IF OfBytes(k) THEN PadContent(s, Item(k)) ELSE Item(k).g[s]
TagOf(k) ==
    IF backend = "sim" THEN "sim.t" ELSE IF OfBytes(k) THEN "shb" ELSE "sha"
Note(s, k, H) == [tag |-> TagOf(k), val |-> Said(s, k, H)]
Cost(k) ==
    IF backend = "ot" THEN 0
    ELSE IF OfBytes(k)
      THEN IF Item(k).theta = "P" THEN 0
           ELSE IF Item(k).theta \in SidePads THEN Item(k).h ELSE 1
      ELSE IF Item(k).theta \in PubLen THEN 0 ELSE 1

Kept(C, H) == \A s \in Sides : \A k \in 1 .. At(s) : Held(s, k) = Share(s, k, C, H)
Counted(C) ==
    \A s \in Sides :
        /\ ctr[s] = C[At(s)]
        /\ \A k \in 1 .. At(s) : C[k] = C[k - 1] + Cost(k)
Masked(H) == \A k \in Stage : H[k] \in MasksAt(k)

\* N lists the numbers of S above lo and up to hi, in order.
Lists(N, S, lo, hi) ==
    /\ N \in Seq(Nat)
    /\ \A i \in 1 .. Len(N) : N[i] \in S /\ lo < N[i] /\ N[i] <= hi
    /\ \A i, j \in 1 .. Len(N) : i < j => N[i] < N[j]
    /\ \A k \in S : lo < k /\ k <= hi => \E i \in 1 .. Len(N) : N[i] = k

\* The messages of s under way are those of the stages that s is through
\* with, as a sender, and the other side is not.
SentBy(s) == {k \in Stage : Sends(s, k)}
Flow(s, H, N) ==
    /\ Lists(N, SentBy(s), At(1 - s), SentTo(s))
    /\ Len(N) = Len(chq[s])
    /\ \A i \in 1 .. Len(N) : chq[s][i] = Note(s, N[i], H)
    /\ \A k \in 1 .. At(1 - s) : Sends(s, k) => k <= SentTo(s)

Coupled(C, H, W) ==
    /\ C \in [Nat -> Nat] /\ DOMAIN H = Nat /\ H = [k \in Nat |-> H[k]]
    /\ Kept(C, H) /\ Counted(C) /\ Masked(H)
    /\ \A s \in Sides : Flow(s, H, W[s])

SegInv == SegTyped /\ \E C, H, W : Coupled(C, H, W)

-----------------------------------------------------------------------------
(***************************************************************************)
(* Stages.                                                                 *)
(***************************************************************************)
LEMMA Halves ==
    /\ \A n \in Nat \ {0} : /\ Nth(2 * n - 1) = n /\ OfBytes(2 * n - 1)
                            /\ Nth(2 * n) = n /\ ~ OfBytes(2 * n)
    /\ \A k \in Nat \ {0} : /\ Nth(k) \in Nat \ {0}
                            /\ OfBytes(k) => k = 2 * Nth(k) - 1
                            /\ ~ OfBytes(k) => k = 2 * Nth(k)
BY DEF Nth, OfBytes

LEMMA Counts ==
    ASSUME SegTyped, NEW s \in Sides
    PROVE  /\ Len(bytes[s]) \in Nat /\ Len(lens[s]) \in Nat /\ At(s) \in Nat
           /\ Len(parts) \in Nat /\ At(s) <= 2 * Len(parts)
           /\ At(s) = Len(bytes[s]) + Len(lens[s])
           /\ SentTo(s) \in Nat /\ At(s) <= SentTo(s) /\ SentTo(s) <= At(s) + 1
           /\ Len(bytes[s]) = Len(lens[s]) \/ Len(bytes[s]) = Len(lens[s]) + 1
           /\ Len(bytes[s]) <= Len(parts)
<1>1. PICK n, m, l : n = Len(bytes[s]) /\ m = Len(lens[s]) /\ l = Len(parts)
  OBVIOUS
<1>2. /\ n \in Nat /\ m \in Nat /\ l \in Nat
      /\ n = m \/ n = m + 1
      /\ n <= l
  BY <1>1, LenProperties, LegalParts DEF SegTyped
<1>3. n + m \in Nat /\ n + m <= 2 * l
  BY <1>2
<1>4. At(s) = n + m
  BY <1>1 DEF At
<1>5. SentTo(s) \in Nat /\ At(s) <= SentTo(s) /\ SentTo(s) <= At(s) + 1
  BY <1>3, <1>4 DEF SentTo
<1> QED
  BY <1>1, <1>2, <1>3, <1>4, <1>5

LEMMA AtNat ==
    ASSUME SegTyped, NEW s \in Sides
    PROVE  At(s) \in Nat /\ At(1 - s) \in Nat
<1>1. \A t \in Sides : At(t) \in Nat
  BY Counts
<1> QED
  BY <1>1, Both

LEMMA Below ==
    ASSUME NEW a \in Nat, NEW j \in 1 .. a
    PROVE  j \in Nat /\ j - 1 \in 0 .. a /\ j \in 0 .. a /\ j <= a
OBVIOUS

LEMMA StageIs ==
    ASSUME SegTyped, NEW k \in Stage
    PROVE  /\ k \in Nat \ {0} /\ Nth(k) \in 1 .. Len(parts) /\ Legal(Item(k))
           /\ k - 1 \in Nat
<1>1. Len(parts) \in Nat /\ k \in Nat \ {0} /\ k <= 2 * Len(parts)
  BY LegalParts DEF SegTyped, Stage
<1>2. Nth(k) \in 1 .. Len(parts)
  <2>1. /\ Nth(k) \in Nat \ {0}
        /\ k = 2 * Nth(k) - 1 \/ k = 2 * Nth(k)
    BY <1>1, Halves
  <2> QED
    BY <1>1, <2>1
<1> QED
  BY <1>1, <1>2, LegalParts DEF SegTyped, Item

LEMMA HeldAt ==
    ASSUME SegTyped, NEW s \in Sides, NEW k \in 1 .. At(s)
    PROVE  /\ k \in Stage
           /\ OfBytes(k) => Nth(k) \in 1 .. Len(bytes[s])
           /\ ~ OfBytes(k) => Nth(k) \in 1 .. Len(lens[s])
<1>1. PICK n, m, l, j :
        n = Len(bytes[s]) /\ m = Len(lens[s]) /\ l = Len(parts) /\ j = At(s)
  OBVIOUS
<1>2. /\ n \in Nat /\ m \in Nat /\ l \in Nat /\ j = n + m
      /\ n = m \/ n = m + 1
      /\ n <= l
  BY <1>1, Counts
<1>3. k \in 1 .. j
  BY <1>1
<1>4. k \in Nat \ {0} /\ k <= n + m /\ k \in 1 .. 2 * l
  BY <1>2, <1>3
<1>5. k \in Stage
  BY <1>1, <1>4 DEF Stage
<1>6. /\ Nth(k) \in Nat \ {0}
      /\ OfBytes(k) => k = 2 * Nth(k) - 1
      /\ ~ OfBytes(k) => k = 2 * Nth(k)
  BY <1>4, Halves
<1>7. /\ OfBytes(k) => Nth(k) \in 1 .. n
      /\ ~ OfBytes(k) => Nth(k) \in 1 .. m
  BY <1>2, <1>4, <1>6
<1> QED
  BY <1>1, <1>5, <1>7

\* What depends on the template and the backend only.
LEMMA Fixed ==
    ASSUME UNCHANGED <<parts, backend>>
    PROVE  /\ Stage' = Stage
           /\ \A k : Cost(k)' = Cost(k) /\ MasksAt(k)' = MasksAt(k)
           /\ \A s, k : Sends(s, k)' = Sends(s, k)
           /\ \A s, k, H : Note(s, k, H)' = Note(s, k, H)
           /\ \A s, k, C, H : Share(s, k, C, H)' = Share(s, k, C, H)
<1>1. Stage' = Stage
  BY DEF Stage
<1>2. ASSUME NEW k PROVE Cost(k)' = Cost(k) /\ MasksAt(k)' = MasksAt(k)
  BY DEF Cost, MasksAt, Item
<1>3. ASSUME NEW s, NEW k PROVE Sends(s, k)' = Sends(s, k)
  BY DEF Sends, Item
<1>4. ASSUME NEW s, NEW k, NEW H PROVE Note(s, k, H)' = Note(s, k, H)
  BY DEF Note, TagOf, Said, Item
<1>5. ASSUME NEW s, NEW k, NEW C, NEW H PROVE Share(s, k, C, H)' = Share(s, k, C, H)
  BY DEF Share, ByteShare, LenShare, Item
<1> QED
  BY <1>1, <1>2, <1>3, <1>4, <1>5

\* Side s completes stage k with the share v.
Made(s, k, v) ==
    /\ UNCHANGED <<parts, backend>>
    /\ k \in Stage /\ k = At(s) + 1
    /\ At(s)' = k /\ At(1 - s)' = At(1 - s)
    /\ \A t \in Sides : \A j \in 1 .. At(t) : Held(t, j)' = Held(t, j)
    /\ Held(s, k)' = v

LEMMA MadeBytes ==
    ASSUME SegTyped, NEW s \in Sides, NEW k, k = At(s) + 1, AtBytes(s), NEW v,
           Holds(s, v), v \in Seq({0, 1}), UNCHANGED <<parts, backend, lens>>
    PROVE  /\ Made(s, k, v) /\ OfBytes(k) /\ Item(k) = Now(s)
           /\ Len(bytes'[s]) = Len(lens[s]) + 1 /\ bytes'[1 - s] = bytes[1 - s]
           /\ bytes' \in [Sides -> Seq(Seq({0, 1}))]
<1>0. PICK n : n = Len(lens[s])
  OBVIOUS
<1>1. /\ n \in Nat /\ Len(bytes[s]) = n /\ n < Len(parts) /\ Len(parts) \in Nat
      /\ At(s) = 2 * n /\ k = 2 * n + 1
  BY <1>0, Counts DEF AtBytes, At
<1>2. OfBytes(k) /\ Nth(k) = n + 1 /\ k \in Stage
  <2>1. n + 1 \in Nat \ {0} /\ k = 2 * (n + 1) - 1 /\ k <= 2 * Len(parts)
    BY <1>1
  <2>2. OfBytes(k) /\ Nth(k) = n + 1
    BY <2>1, Halves
  <2> QED
    BY <1>1, <2>1, <2>2 DEF Stage
<1>3. /\ bytes'[s] = Append(bytes[s], v) /\ bytes'[1 - s] = bytes[1 - s]
      /\ bytes' \in [Sides -> Seq(Seq({0, 1}))]
  BY Both DEF Holds, SegTyped
<1>4. /\ Len(bytes'[s]) = n + 1 /\ bytes'[s][n + 1] = v
      /\ \A i \in 1 .. n : bytes'[s][i] = bytes[s][i]
  <2>1. PICK q : q = bytes[s]
    OBVIOUS
  <2>2. q \in Seq(Seq({0, 1})) /\ Len(q) = n /\ bytes'[s] = Append(q, v)
    BY <1>1, <1>3, <2>1 DEF SegTyped
  <2>3. /\ Len(Append(q, v)) = n + 1 /\ Append(q, v)[n + 1] = v
        /\ \A i \in 1 .. n : Append(q, v)[i] = q[i]
    BY <2>2
  <2> QED
    BY <2>1, <2>2, <2>3
<1>5. At(s)' = k /\ At(1 - s)' = At(1 - s)
  BY <1>0, <1>1, <1>3, <1>4 DEF At
<1>6. ASSUME NEW t \in Sides, NEW j \in 1 .. At(t)
      PROVE  Held(t, j)' = Held(t, j)
  <2>1. OfBytes(j) => Nth(j) \in 1 .. Len(bytes[t])
    BY HeldAt
  <2>2. CASE t = s
    BY <1>0, <1>1, <1>4, <2>1, <2>2 DEF Held
  <2>3. CASE t = 1 - s
    BY <1>3, <2>3 DEF Held
  <2> QED
    BY <2>2, <2>3, Both
<1>7. Held(s, k)' = v
  BY <1>2, <1>4 DEF Held
<1>8. Item(k) = Now(s)
  BY <1>0, <1>2 DEF Item, Now
<1> QED
  BY <1>0, <1>2, <1>3, <1>4, <1>5, <1>6, <1>7, <1>8 DEF Made

LEMMA MadeLen ==
    ASSUME SegTyped, NEW s \in Sides, NEW k, k = At(s) + 1,
           Len(bytes[s]) > Len(lens[s]), NEW v \in Nat,
           lens' = [lens EXCEPT ![s] = Append(@, v)],
           UNCHANGED <<parts, backend, bytes>>
    PROVE  /\ Made(s, k, v) /\ ~ OfBytes(k) /\ Item(k) = Now(s)
           /\ Len(lens'[s]) = Len(bytes[s]) /\ lens'[1 - s] = lens[1 - s]
           /\ lens' \in [Sides -> Seq(Nat)]
<1>0. PICK n : n = Len(lens[s])
  OBVIOUS
<1>1. /\ n \in Nat /\ Len(bytes[s]) = n + 1 /\ n < Len(parts) /\ Len(parts) \in Nat
      /\ At(s) = 2 * n + 1 /\ k = 2 * n + 2
  <2>1. PICK m, l : m = Len(bytes[s]) /\ l = Len(parts)
    OBVIOUS
  <2>2. /\ n \in Nat /\ m \in Nat /\ l \in Nat /\ At(s) = m + n
        /\ m = n \/ m = n + 1
        /\ m <= l /\ m > n
    BY <1>0, <2>1, Counts
  <2>3. m = n + 1 /\ n < l /\ m + n = 2 * n + 1 /\ m + n + 1 = 2 * n + 2
    BY <2>2
  <2> QED
    BY <2>1, <2>2, <2>3
<1>2. ~ OfBytes(k) /\ Nth(k) = n + 1 /\ k \in Stage
  <2>1. n + 1 \in Nat \ {0} /\ k = 2 * (n + 1) /\ k <= 2 * Len(parts)
    BY <1>1
  <2>2. ~ OfBytes(k) /\ Nth(k) = n + 1
    BY <2>1, Halves
  <2> QED
    BY <1>1, <2>1, <2>2 DEF Stage
<1>3. /\ lens'[s] = Append(lens[s], v) /\ lens'[1 - s] = lens[1 - s]
      /\ lens' \in [Sides -> Seq(Nat)]
  BY Both DEF SegTyped
<1>4. /\ Len(lens'[s]) = n + 1 /\ lens'[s][n + 1] = v
      /\ \A i \in 1 .. n : lens'[s][i] = lens[s][i]
  BY <1>0, <1>1, <1>3 DEF SegTyped
<1>5. At(s)' = k /\ At(1 - s)' = At(1 - s)
  <2>1. At(s)' = (n + 1) + (n + 1)
    BY <1>1, <1>4 DEF At
  <2>2. k = (n + 1) + (n + 1)
    BY <1>1
  <2>3. At(1 - s)' = At(1 - s)
    BY <1>3 DEF At
  <2> QED
    BY <2>1, <2>2, <2>3
<1>6. ASSUME NEW t \in Sides, NEW j \in 1 .. At(t)
      PROVE  Held(t, j)' = Held(t, j)
  <2>1. ~ OfBytes(j) => Nth(j) \in 1 .. Len(lens[t])
    BY HeldAt
  <2>2. CASE t = s
    BY <1>0, <1>1, <1>4, <2>1, <2>2 DEF Held
  <2>3. CASE t = 1 - s
    BY <1>3, <2>3 DEF Held
  <2> QED
    BY <2>2, <2>3, Both
<1>7. Held(s, k)' = v
  BY <1>2, <1>4 DEF Held
<1>8. Item(k) = Now(s)
  BY <1>0, <1>2 DEF Item, Now
<1> QED
  BY <1>0, <1>1, <1>2, <1>3, <1>4, <1>5, <1>6, <1>7, <1>8 DEF Made

-----------------------------------------------------------------------------
(***************************************************************************)
(* Completing a stage.  D and V are the counters and masks afterwards.     *)
(***************************************************************************)
\* A mask is chosen by the side that sends it, before the other one uses it.
NewMask(s, k, H, V) ==
    \/ V = H
    \/ /\ Sends(s, k) /\ ~ Sends(1 - s, k) /\ ~ sentPad[s]
       /\ \E r \in MasksAt(k) : V = [H EXCEPT ![k] = r]

LEMMA MaskKept ==
    ASSUME SegTyped, NEW C, NEW H, NEW W, Coupled(C, H, W), NEW s \in Sides,
           NEW k \in Stage, k = At(s) + 1, NEW V, NewMask(s, k, H, V)
    PROVE  /\ DOMAIN V = Nat /\ V = [j \in Nat |-> V[j]] /\ Masked(V)
           /\ \A j \in Nat : j # k => V[j] = H[j]
           /\ k <= At(1 - s) => V = H
           /\ V[k] = H[k] \/ ~ Sends(1 - s, k)
<1>1. DOMAIN H = Nat /\ H = [j \in Nat |-> H[j]] /\ Masked(H) /\ k \in Nat
  BY StageIs DEF Coupled
<1>2. CASE V = H
  BY <1>1, <1>2
<1>3. CASE V # H
  <2>1. PICK r \in MasksAt(k) : V = [H EXCEPT ![k] = r]
    BY <1>3 DEF NewMask
  <2>2. Sends(s, k) /\ ~ Sends(1 - s, k) /\ ~ sentPad[s]
    BY <1>3 DEF NewMask
  <2>3. /\ DOMAIN V = Nat /\ V = [j \in Nat |-> V[j]] /\ V[k] = r
        /\ \A j \in Nat : j # k => V[j] = H[j]
    BY <1>1, <2>1
  <2>4. Masked(V)
    <3> SUFFICES ASSUME NEW j \in Stage PROVE V[j] \in MasksAt(j)
      BY DEF Masked
    <3>1. j \in Nat
      BY StageIs
    <3> QED
      BY <1>1, <2>3, <3>1 DEF Masked
  <2>5. ~ (k <= At(1 - s))
    <3> SUFFICES ASSUME k <= At(1 - s) PROVE FALSE
      OBVIOUS
    <3>1. At(s) \in Nat /\ At(1 - s) \in Nat
      BY AtNat
    <3>2. SentTo(s) = At(s)
      BY <2>2, <3>1 DEF SentTo
    <3>3. k \in 1 .. At(1 - s)
      BY <3>1
    <3>4. k <= SentTo(s)
      BY <2>2, <3>3 DEF Coupled, Flow
    <3> QED
      BY <3>1, <3>2, <3>4
  <2> QED
    BY <2>2, <2>3, <2>4, <2>5
<1> QED
  BY <1>2, <1>3

LEMMA Completed ==
    ASSUME SegTyped, NEW C, NEW H, NEW W, Coupled(C, H, W), NEW s \in Sides,
           NEW k, NEW V, NewMask(s, k, H, V), Made(s, k, Share(s, k, C, V)),
           ctr' = [ctr EXCEPT ![s] = @ + Cost(k)],
           NEW D, D = [C EXCEPT ![k] = C[k - 1] + Cost(k)]
    PROVE  D \in [Nat -> Nat] /\ Kept(D, V)' /\ Counted(D)' /\ Masked(V)'
<1>1. /\ UNCHANGED <<parts, backend>>
      /\ k \in Stage /\ k = At(s) + 1
      /\ At(s)' = k /\ At(1 - s)' = At(1 - s)
      /\ \A t \in Sides : \A j \in 1 .. At(t) : Held(t, j)' = Held(t, j)
      /\ Held(s, k)' = Share(s, k, C, V)
  BY DEF Made
<1>2. /\ k \in Nat \ {0} /\ k - 1 \in Nat /\ k - 1 # k /\ Legal(Item(k))
      /\ At(s) \in Nat /\ At(1 - s) \in Nat /\ At(s) = k - 1
  <2>1. /\ k \in Nat \ {0} /\ k - 1 \in Nat /\ Legal(Item(k))
        /\ At(s) \in Nat /\ At(1 - s) \in Nat
    BY <1>1, StageIs, AtNat
  <2> QED
    BY <1>1, <2>1
<1>3. /\ DOMAIN V = Nat /\ Masked(V)
      /\ \A j \in Nat : j # k => V[j] = H[j]
      /\ k <= At(1 - s) => V = H
  BY <1>1, MaskKept
<1>4. Cost(k) \in Nat
  BY <1>2, LegalNumbers DEF Cost
<1>5. C \in [Nat -> Nat] /\ Kept(C, H) /\ Counted(C)
  BY DEF Coupled
<1>6. /\ D \in [Nat -> Nat] /\ D[k] = C[k - 1] + Cost(k)
      /\ \A j \in Nat : j # k => D[j] = C[j]
  BY <1>2, <1>4, <1>5
<1>7. k <= At(1 - s) => D[k] = C[k]
  <2> SUFFICES ASSUME k <= At(1 - s) PROVE D[k] = C[k]
    OBVIOUS
  <2>1. k \in 1 .. At(1 - s)
    BY <1>2
  <2>2. C[k] = C[k - 1] + Cost(k)
    BY <1>5, <2>1, Both DEF Counted
  <2> QED
    BY <1>6, <2>2
<1>8. \A t \in Sides : \A j \in 0 .. At(t) : D[j] = C[j]
  <2> SUFFICES ASSUME NEW t \in Sides, NEW j \in 0 .. At(t) PROVE D[j] = C[j]
    OBVIOUS
  <2>1. At(t) \in Nat /\ j \in Nat /\ j <= At(t)
    <3>1. PICK a \in Nat : a = At(t)
      BY AtNat
    <3> QED
      BY <3>1
  <2>2. CASE t = s
    BY <1>2, <1>6, <2>1, <2>2
  <2>3. CASE t = 1 - s
    BY <1>6, <1>7, <2>1, <2>3
  <2> QED
    BY <2>2, <2>3, Both
<1>9. Kept(D, V)'
  <2> SUFFICES ASSUME NEW t \in Sides, NEW j \in 1 .. At(t)'
               PROVE  Held(t, j)' = Share(t, j, D, V)'
    BY DEF Kept
  <2>1. Share(t, j, D, V)' = Share(t, j, D, V)
    BY <1>1, Fixed
  <2>2. CASE j \in 1 .. At(t)
    <3>1. Held(t, j)' = Share(t, j, C, H)
      BY <1>1, <1>5, <2>2 DEF Kept
    <3>2. j \in Nat /\ j - 1 \in 0 .. At(t) /\ At(t) \in Nat /\ j <= At(t)
      BY <2>2, AtNat, Below
    <3>3. D[j - 1] = C[j - 1]
      BY <1>8, <3>2
    <3>4. V[j] = H[j]
      <4>1. CASE t = s
        BY <1>2, <1>3, <3>2, <4>1
      <4>2. CASE t = 1 - s
        BY <1>2, <1>3, <3>2, <4>2
      <4> QED
        BY <4>1, <4>2, Both
    <3>5. Share(t, j, D, V) = Share(t, j, C, H)
      BY <3>3, <3>4 DEF Share
    <3> QED
      BY <2>1, <3>1, <3>5
  <2>3. CASE j \notin 1 .. At(t)
    <3>1. t = s
      BY <1>1, <2>3, Both
    <3>2. j = k
      <4>1. j \in 1 .. k /\ j \notin 1 .. k - 1
        BY <1>1, <1>2, <2>3, <3>1
      <4> QED
        BY <1>2, <4>1
    <3>3. D[k - 1] = C[k - 1]
      BY <1>2, <1>6
    <3>4. Share(t, j, D, V) = Share(s, k, C, V)
      BY <3>1, <3>2, <3>3 DEF Share
    <3> QED
      BY <1>1, <2>1, <3>1, <3>2, <3>4
  <2> QED
    BY <2>2, <2>3
<1>10. Counted(D)'
  <2> SUFFICES ASSUME NEW t \in Sides
               PROVE  /\ ctr'[t] = D[At(t)']
                      /\ \A j \in 1 .. At(t)' : D[j] = D[j - 1] + Cost(j)'
    BY DEF Counted
  <2>1. ctr \in [Sides -> Nat] /\ ctr[s] = C[k - 1] /\ ctr[1 - s] = C[At(1 - s)]
    BY <1>2, <1>5, Both DEF SegTyped, Counted
  <2>2. ctr'[s] = D[k] /\ ctr'[1 - s] = D[At(1 - s)]
    <3>1. ctr'[s] = ctr[s] + Cost(k) /\ ctr'[1 - s] = ctr[1 - s]
      BY <2>1, Both
    <3>2. D[At(1 - s)] = C[At(1 - s)]
      BY <1>2, <1>8, Both
    <3> QED
      BY <1>6, <2>1, <3>1, <3>2
  <2>3. ASSUME NEW j \in 1 .. At(t)' PROVE D[j] = D[j - 1] + Cost(j)'
    <3>1. Cost(j)' = Cost(j)
      BY <1>1, Fixed
    <3>2. CASE j \in 1 .. At(t)
      <4>1. C[j] = C[j - 1] + Cost(j)
        BY <1>5, <3>2 DEF Counted
      <4>2. D[j] = C[j] /\ D[j - 1] = C[j - 1]
        <5>1. j \in 0 .. At(t) /\ j - 1 \in 0 .. At(t)
          BY <3>2, AtNat, Below
        <5> QED
          BY <1>8, <5>1
      <4> QED
        BY <3>1, <4>1, <4>2
    <3>3. CASE j \notin 1 .. At(t)
      <4>1. t = s
        BY <1>1, <3>3, Both
      <4>2. j = k
        <5>1. j \in 1 .. k /\ j \notin 1 .. k - 1
          BY <1>1, <1>2, <3>3, <4>1
        <5> QED
          BY <1>2, <5>1
      <4>3. D[k - 1] = C[k - 1]
        BY <1>2, <1>6
      <4> QED
        BY <1>6, <3>1, <4>2, <4>3
    <3> QED
      BY <3>2, <3>3
  <2> QED
    BY <1>1, <2>2, <2>3, Both
<1>11. Masked(V)'
  BY <1>1, <1>3, Fixed DEF Masked
<1> QED
  BY <1>6, <1>9, <1>10, <1>11

-----------------------------------------------------------------------------
(***************************************************************************)
(* The messages under way.                                                 *)
(***************************************************************************)
LEMMA ListsMore ==
    ASSUME NEW S \in SUBSET Nat, NEW lo \in Nat, NEW hi \in Nat, NEW N,
           Lists(N, S, lo, hi), NEW k \in Nat, k = hi + 1
    PROVE  /\ k \notin S => Lists(N, S, lo, k)
           /\ k \in S /\ lo <= hi => Lists(Append(N, k), S, lo, k)
<1>1. /\ N \in Seq(Nat) /\ Len(N) \in Nat
      /\ \A i \in 1 .. Len(N) : N[i] \in S /\ N[i] \in Nat /\ lo < N[i] /\ N[i] <= hi
      /\ \A i, j \in 1 .. Len(N) : i < j => N[i] < N[j]
      /\ \A n \in S : lo < n /\ n <= hi => \E i \in 1 .. Len(N) : N[i] = n
  BY DEF Lists
<1>2. ASSUME k \notin S PROVE Lists(N, S, lo, k)
  <2>1. \A i \in 1 .. Len(N) : N[i] \in S /\ lo < N[i] /\ N[i] <= k
    BY <1>1
  <2>2. ASSUME NEW n \in S, lo < n, n <= k
        PROVE  \E i \in 1 .. Len(N) : N[i] = n
    <3>1. n \in Nat /\ n # k
      BY <1>2
    <3>2. n <= hi
      BY <2>2, <3>1
    <3> QED
      BY <1>1, <2>2, <3>2
  <2> QED
    BY <1>1, <2>1, <2>2 DEF Lists
<1>3. ASSUME k \in S, lo <= hi PROVE Lists(Append(N, k), S, lo, k)
  <2> DEFINE M == Append(N, k)
  <2>1. /\ M \in Seq(Nat) /\ Len(M) = Len(N) + 1
        /\ \A i \in 1 .. Len(N) : M[i] = N[i]
        /\ M[Len(N) + 1] = k
    BY <1>1
  <2> HIDE DEF M
  <2>2. \A i \in 1 .. Len(M) : i \in 1 .. Len(N) \/ i = Len(N) + 1
    BY <1>1, <2>1
  <2>3. ASSUME NEW i \in 1 .. Len(M) PROVE M[i] \in S /\ lo < M[i] /\ M[i] <= k
    <3>1. CASE i \in 1 .. Len(N)
      <4>1. M[i] = N[i] /\ N[i] \in S /\ N[i] \in Nat /\ lo < N[i] /\ N[i] <= hi
        BY <1>1, <2>1, <3>1
      <4> QED
        BY <4>1
    <3>2. CASE i = Len(N) + 1
      <4>1. M[i] = k
        BY <2>1, <3>2
      <4> QED
        BY <1>3, <4>1
    <3> QED
      BY <2>2, <3>1, <3>2
  <2>4. ASSUME NEW i \in 1 .. Len(M), NEW j \in 1 .. Len(M), i < j PROVE M[i] < M[j]
    <3>1. i \in 1 .. Len(N)
      BY <1>1, <2>1, <2>4
    <3>2. CASE j \in 1 .. Len(N)
      BY <1>1, <2>1, <2>4, <3>1, <3>2
    <3>3. CASE j = Len(N) + 1
      <4>1. M[j] = k /\ M[i] = N[i] /\ N[i] \in Nat /\ N[i] <= hi
        BY <1>1, <2>1, <3>1, <3>3
      <4> QED
        BY <4>1
    <3> QED
      BY <2>2, <3>2, <3>3
  <2>5. ASSUME NEW n \in S, lo < n, n <= k
        PROVE  \E i \in 1 .. Len(M) : M[i] = n
    <3>1. CASE n = k
      BY <1>1, <2>1, <3>1
    <3>2. CASE n # k
      <4>1. n \in Nat
        OBVIOUS
      <4>2. n <= hi
        BY <2>5, <3>2, <4>1
      <4>3. PICK i \in 1 .. Len(N) : N[i] = n
        BY <1>1, <2>5, <4>2
      <4>4. i \in 1 .. Len(M) /\ M[i] = n
        BY <1>1, <2>1, <4>3, SMTT(30)
      <4> QED
        BY <4>4
    <3> QED
      BY <3>1, <3>2
  <2> QED
    BY <2>1, <2>3, <2>4, <2>5 DEF Lists, M
<1> QED
  BY <1>2, <1>3

LEMMA ListsLess ==
    ASSUME NEW S \in SUBSET Nat, NEW lo \in Nat, NEW hi \in Nat, NEW N,
           Lists(N, S, lo, hi), NEW k \in Nat, k = lo + 1
    PROVE  /\ k \notin S => Lists(N, S, k, hi)
           /\ k \in S /\ N # <<>> => /\ k <= hi /\ N[1] = k
                                     /\ Lists(Tail(N), S, k, hi)
<1>1. /\ N \in Seq(Nat) /\ Len(N) \in Nat
      /\ \A i \in 1 .. Len(N) : N[i] \in S /\ N[i] \in Nat /\ lo < N[i] /\ N[i] <= hi
      /\ \A i, j \in 1 .. Len(N) : i < j => N[i] < N[j]
      /\ \A n \in S : lo < n /\ n <= hi => \E i \in 1 .. Len(N) : N[i] = n
  BY DEF Lists
<1>2. ASSUME k \notin S PROVE Lists(N, S, k, hi)
  <2>1. ASSUME NEW i \in 1 .. Len(N) PROVE k < N[i]
    <3>1. N[i] \in Nat /\ N[i] # k /\ lo < N[i]
      BY <1>1, <1>2
    <3> QED
      BY <3>1
  <2>2. \A n \in S : k < n => lo < n
    OBVIOUS
  <2> QED
    BY <1>1, <2>1, <2>2 DEF Lists
<1>3. ASSUME k \in S, N # <<>>
      PROVE  k <= hi /\ N[1] = k /\ Lists(Tail(N), S, k, hi)
  <2>1. /\ Len(N) \in Nat \ {0} /\ 1 \in 1 .. Len(N)
        /\ Tail(N) \in Seq(Nat) /\ Len(Tail(N)) = Len(N) - 1
        /\ \A i \in 1 .. Len(N) - 1 : Tail(N)[i] = N[i + 1]
    BY <1>1, <1>3, EmptySeq, HeadTailProperties
  <2>2. N[1] \in Nat /\ lo < N[1] /\ N[1] <= hi
    BY <1>1, <2>1
  <2>3. k <= hi /\ lo < k
    BY <2>2
  <2>4. PICK i \in 1 .. Len(N) : N[i] = k
    BY <1>1, <1>3, <2>3
  <2>5. i = 1
    <3> SUFFICES ASSUME i # 1 PROVE FALSE
      OBVIOUS
    <3>1. 1 < i
      BY <1>1
    <3>2. N[1] < k
      BY <1>1, <2>1, <2>4, <3>1
    <3> QED
      BY <2>2, <3>2
  <2> DEFINE M == Tail(N)
  <2>6. \A n \in 1 .. Len(M) : n + 1 \in 1 .. Len(N) /\ M[n] = N[n + 1] /\ 1 < n + 1
    BY <2>1
  <2>7. ASSUME NEW n \in 1 .. Len(M) PROVE M[n] \in S /\ k < M[n] /\ M[n] <= hi
    <3>1. n + 1 \in 1 .. Len(N) /\ M[n] = N[n + 1] /\ 1 < n + 1
      BY <2>6
    <3>2. N[1] < N[n + 1]
      BY <1>1, <2>1, <3>1
    <3> QED
      BY <1>1, <2>4, <2>5, <3>1, <3>2
  <2>8. ASSUME NEW n \in 1 .. Len(M), NEW j \in 1 .. Len(M), n < j PROVE M[n] < M[j]
    <3>1. n + 1 \in 1 .. Len(N) /\ j + 1 \in 1 .. Len(N) /\ n + 1 < j + 1
      BY <2>1, <2>6, <2>8
    <3>2. N[n + 1] < N[j + 1]
      BY <1>1, <3>1
    <3> QED
      BY <2>6, <3>2
  <2>9. ASSUME NEW n \in S, k < n, n <= hi
        PROVE  \E j \in 1 .. Len(M) : M[j] = n
    <3>1. n \in Nat /\ lo < n
      BY <2>9
    <3>2. PICK j \in 1 .. Len(N) : N[j] = n
      BY <1>1, <2>9, <3>1
    <3>3. j # 1
      BY <2>4, <2>5, <2>9, <3>1, <3>2
    <3>4. j - 1 \in 1 .. Len(N) - 1 /\ (j - 1) + 1 = j
      BY <1>1, <3>3
    <3>5. j - 1 \in 1 .. Len(M) /\ M[j - 1] = n
      BY <2>1, <3>2, <3>4
    <3> QED
      BY <3>5
  <2> HIDE DEF M
  <2>10. Lists(M, S, k, hi)
    BY <2>1, <2>7, <2>8, <2>9 DEF Lists, M
  <2> QED
    BY <2>3, <2>4, <2>5, <2>10 DEF M
<1> QED
  BY <1>2, <1>3

LEMMA FlowFacts ==
    ASSUME SegTyped, NEW t \in Sides, NEW H, NEW N, Flow(t, H, N)
    PROVE  /\ SentBy(t) \in SUBSET Nat /\ At(1 - t) \in Nat /\ SentTo(t) \in Nat
           /\ Lists(N, SentBy(t), At(1 - t), SentTo(t)) /\ Len(N) = Len(chq[t])
           /\ N \in Seq(Nat) /\ Len(N) \in Nat /\ chq[t] \in Seq(Mail)
           /\ \A i \in 1 .. Len(N) :
                  N[i] \in SentBy(t) /\ N[i] \in Nat
                  /\ At(1 - t) < N[i] /\ N[i] <= SentTo(t)
<1>1. SentBy(t) \in SUBSET Nat
  BY StageIs DEF SentBy
<1>2. At(1 - t) \in Nat /\ SentTo(t) \in Nat
  BY AtNat, Counts
<1>3. /\ Lists(N, SentBy(t), At(1 - t), SentTo(t)) /\ Len(N) = Len(chq[t])
      /\ chq[t] \in Seq(Mail)
  BY DEF Flow, SegTyped
<1>4. /\ N \in Seq(Nat)
      /\ \A i \in 1 .. Len(N) :
             N[i] \in SentBy(t) /\ At(1 - t) < N[i] /\ N[i] <= SentTo(t)
  BY <1>3 DEF Lists
<1> QED
  BY <1>1, <1>2, <1>3, <1>4

\* A side adds nothing to its queue: it has nothing to send in a stage that
\* it completes.
LEMMA FlowSame ==
    ASSUME SegTyped, UNCHANGED <<parts, backend>>, NEW t \in Sides,
           NEW H, NEW N, Flow(t, H, N), NEW V,
           \A j \in SentBy(t) : j <= SentTo(t) => V[j] = H[j],
           chq'[t] = chq[t], At(1 - t)' = At(1 - t), NEW k \in Nat,
           \/ k = SentTo(t)
           \/ k = SentTo(t) + 1 /\ ~ Sends(t, k),
           SentTo(t)' = k
    PROVE  Flow(t, V, N)'
<1>1. /\ Stage' = Stage /\ SentBy(t)' = SentBy(t)
      /\ \A j : Sends(t, j)' = Sends(t, j) /\ Note(t, j, V)' = Note(t, j, V)
  BY Fixed DEF SentBy
<1>2. Lists(N, SentBy(t), At(1 - t), k)
  <2>1. CASE k = SentTo(t)
    BY <2>1 DEF Flow
  <2>2. CASE k = SentTo(t) + 1 /\ ~ Sends(t, k)
    <3>1. k \notin SentBy(t)
      BY <2>2 DEF SentBy
    <3> QED
      BY <2>2, <3>1, FlowFacts, ListsMore
  <2> QED
    BY <2>1, <2>2
<1>3. ASSUME NEW i \in 1 .. Len(N) PROVE chq'[t][i] = Note(t, N[i], V)'
  <2>1. N[i] \in SentBy(t) /\ N[i] <= SentTo(t)
    BY FlowFacts
  <2>2. chq[t][i] = Note(t, N[i], H)
    BY DEF Flow
  <2>3. Note(t, N[i], V) = Note(t, N[i], H)
    BY <2>1 DEF Note, Said
  <2> QED
    BY <1>1, <2>2, <2>3
<1>4. ASSUME NEW j \in 1 .. At(1 - t), Sends(t, j) PROVE j <= k
  <2>1. j <= SentTo(t) /\ SentTo(t) \in Nat /\ At(1 - t) \in Nat
    BY <1>4, FlowFacts DEF Flow
  <2>2. j \in Nat
    BY <2>1
  <2> QED
    BY <2>1, <2>2
<1> QED
  BY <1>1, <1>2, <1>3, <1>4, FlowFacts DEF Flow

\* The other side completes a stage in which nothing is sent to it.
LEMMA FlowPast ==
    ASSUME SegTyped, UNCHANGED <<parts, backend>>, NEW t \in Sides,
           NEW H, NEW N, Flow(t, H, N), NEW k \in Nat,
           k = At(1 - t) + 1, At(1 - t)' = k, ~ Sends(t, k), NEW V,
           \A j \in Nat : j # k => V[j] = H[j],
           chq'[t] = chq[t], SentTo(t)' = SentTo(t)
    PROVE  Flow(t, V, N)'
<1>1. /\ Stage' = Stage /\ SentBy(t)' = SentBy(t)
      /\ \A j : Sends(t, j)' = Sends(t, j) /\ Note(t, j, V)' = Note(t, j, V)
  BY Fixed DEF SentBy
<1>2. k \notin SentBy(t)
  BY DEF SentBy
<1>3. Lists(N, SentBy(t), k, SentTo(t))
  <2>1. PICK lo \in Nat, hi \in Nat, S \in SUBSET Nat :
          lo = At(1 - t) /\ hi = SentTo(t) /\ S = SentBy(t)
    BY FlowFacts
  <2>2. Lists(N, S, lo, hi) /\ k = lo + 1 /\ k \notin S
    BY <1>2, <2>1, FlowFacts
  <2>3. Lists(N, S, k, hi)
    BY ONLY <2>2, k \in Nat, lo \in Nat, hi \in Nat, S \in SUBSET Nat, ListsLess
  <2> QED
    BY <2>1, <2>3
<1>4. ASSUME NEW i \in 1 .. Len(N) PROVE chq'[t][i] = Note(t, N[i], V)'
  <2>1. N[i] \in SentBy(t) /\ N[i] \in Nat
    BY FlowFacts
  <2>2. chq[t][i] = Note(t, N[i], H) /\ N[i] # k
    BY <1>2, <2>1 DEF Flow
  <2>3. Note(t, N[i], V) = Note(t, N[i], H)
    BY <2>1, <2>2 DEF Note, Said
  <2> QED
    BY <1>1, <2>2, <2>3
<1>5. ASSUME NEW j \in 1 .. k, Sends(t, j) PROVE j <= SentTo(t)
  <2>1. j # k
    BY <1>5
  <2>2. j \in 1 .. At(1 - t)
    BY <2>1, FlowFacts
  <2> QED
    BY <1>5, <2>2 DEF Flow
<1> QED
  BY <1>1, <1>3, <1>4, <1>5 DEF Flow

\* A side sends the message of a stage.
LEMMA FlowSent ==
    ASSUME SegTyped, UNCHANGED <<parts, backend>>, NEW t \in Sides,
           NEW H, NEW N, Flow(t, H, N), NEW k \in Stage,
           k = SentTo(t) + 1, SentTo(t)' = k, Sends(t, k), NEW V,
           \A j \in Nat : j # k => V[j] = H[j],
           NEW m \in Mail, m = Note(t, k, V), chq'[t] = Append(chq[t], m),
           At(1 - t)' = At(1 - t)
    PROVE  Flow(t, V, Append(N, k))'
<1>1. /\ Stage' = Stage /\ SentBy(t)' = SentBy(t)
      /\ \A j : Sends(t, j)' = Sends(t, j) /\ Note(t, j, V)' = Note(t, j, V)
  BY Fixed DEF SentBy
<1>2. k \in SentBy(t) /\ k \in Nat
  BY StageIs DEF SentBy
<1>3. PICK lo \in Nat, hi \in Nat : lo = At(1 - t) /\ hi = SentTo(t) /\ k = hi + 1
  BY FlowFacts
<1>4. lo <= hi
  <2> SUFFICES ASSUME lo > hi PROVE FALSE
    BY <1>3
  <2>1. k \in 1 .. At(1 - t)
    BY <1>3
  <2>2. k <= SentTo(t)
    BY <2>1 DEF Flow
  <2> QED
    BY <1>3, <2>2
<1>5. Lists(Append(N, k), SentBy(t), lo, k)
  BY <1>2, <1>3, <1>4, FlowFacts, ListsMore
<1> DEFINE M == Append(N, k)
<1>6. /\ N \in Seq(Nat) /\ Len(N) \in Nat /\ Len(M) = Len(N) + 1
      /\ \A i \in 1 .. Len(N) : M[i] = N[i]
      /\ M[Len(N) + 1] = k
  BY <1>2, FlowFacts
<1>7. /\ Len(chq'[t]) = Len(N) + 1
      /\ \A i \in 1 .. Len(N) : chq'[t][i] = chq[t][i]
      /\ chq'[t][Len(N) + 1] = m
  BY FlowFacts
<1> HIDE DEF M
<1>8. ASSUME NEW i \in 1 .. Len(M) PROVE chq'[t][i] = Note(t, M[i], V)'
  <2>1. CASE i \in 1 .. Len(N)
    <3>1. N[i] \in Nat /\ N[i] <= SentTo(t) /\ M[i] = N[i]
      BY <1>6, <2>1, FlowFacts
    <3>2. N[i] # k
      BY <1>3, <3>1
    <3>3. chq[t][i] = Note(t, N[i], H)
      BY <2>1 DEF Flow
    <3>4. Note(t, N[i], V) = Note(t, N[i], H)
      BY <3>1, <3>2 DEF Note, Said
    <3> QED
      BY <1>1, <1>7, <2>1, <3>1, <3>3, <3>4
  <2>2. CASE i = Len(N) + 1
    BY <1>1, <1>6, <1>7, <2>2
  <2>3. i \in 1 .. Len(N) \/ i = Len(N) + 1
    BY <1>6
  <2> QED
    BY <2>1, <2>2, <2>3
<1>9. ASSUME NEW j \in 1 .. At(1 - t), Sends(t, j) PROVE j <= k
  <2>1. j <= hi /\ j \in Nat
    BY <1>3, <1>9 DEF Flow
  <2> QED
    BY <1>3, <2>1
<1> QED
  BY <1>1, <1>3, <1>5, <1>6, <1>7, <1>8, <1>9 DEF Flow, M

\* The first message is that of the stage that the other side is in.
LEMMA FlowHead ==
    ASSUME SegTyped, NEW t \in Sides, NEW H, NEW N, Flow(t, H, N), NEW k \in Stage,
           k = At(1 - t) + 1, Sends(t, k), chq[t] # <<>>
    PROVE  /\ Head(chq[t]) = Note(t, k, H)
           /\ N # <<>> /\ Len(N) \in Nat \ {0} /\ Len(Tail(N)) = Len(N) - 1
           /\ \A i \in 1 .. Len(N) - 1 : Tail(N)[i] = N[i + 1]
           /\ k <= SentTo(t) /\ Lists(Tail(N), SentBy(t), k, SentTo(t))
<1>1. k \in SentBy(t) /\ k \in Nat
  BY StageIs DEF SentBy
<1>2. /\ N \in Seq(Nat) /\ N # <<>> /\ Len(N) \in Nat \ {0}
      /\ Len(Tail(N)) = Len(N) - 1
      /\ \A i \in 1 .. Len(N) - 1 : Tail(N)[i] = N[i + 1]
  <2>1. Len(chq[t]) # 0 /\ Len(N) = Len(chq[t]) /\ N \in Seq(Nat)
    BY FlowFacts, EmptySeq
  <2> QED
    BY <2>1, EmptySeq, HeadTailProperties
<1>3. k <= SentTo(t) /\ N[1] = k /\ Lists(Tail(N), SentBy(t), k, SentTo(t))
  BY <1>1, <1>2, FlowFacts, ListsLess
<1>4. Head(chq[t]) = chq[t][1]
  BY FlowFacts, HeadTailProperties
<1>5. Head(chq[t]) = Note(t, k, H)
  <2>1. 1 \in 1 .. Len(N)
    BY <1>2
  <2> QED
    BY <1>3, <1>4, <2>1 DEF Flow
<1> QED
  BY <1>2, <1>3, <1>5

\* The other side completes a stage with the message sent to it.
LEMMA FlowTaken ==
    ASSUME SegTyped, UNCHANGED <<parts, backend>>, NEW t \in Sides,
           NEW H, NEW N, Flow(t, H, N), NEW k \in Stage,
           k = At(1 - t) + 1, At(1 - t)' = k, Sends(t, k),
           chq[t] # <<>>, chq'[t] = Tail(chq[t]), SentTo(t)' = SentTo(t)
    PROVE  Flow(t, H, Tail(N))'
<1>1. /\ Stage' = Stage /\ SentBy(t)' = SentBy(t)
      /\ \A j : Sends(t, j)' = Sends(t, j) /\ Note(t, j, H)' = Note(t, j, H)
  BY Fixed DEF SentBy
<1>2. /\ Len(N) \in Nat \ {0} /\ Len(Tail(N)) = Len(N) - 1
      /\ \A i \in 1 .. Len(N) - 1 : Tail(N)[i] = N[i + 1]
      /\ k <= SentTo(t) /\ Lists(Tail(N), SentBy(t), k, SentTo(t))
  BY FlowHead
<1>3. /\ Len(chq'[t]) = Len(N) - 1
      /\ \A i \in 1 .. Len(N) - 1 : chq'[t][i] = chq[t][i + 1]
  BY FlowFacts, HeadTailProperties
<1>4. ASSUME NEW i \in 1 .. Len(Tail(N)) PROVE chq'[t][i] = Note(t, Tail(N)[i], H)'
  <2>1. i \in 1 .. Len(N) - 1 /\ i + 1 \in 1 .. Len(N)
    BY <1>2
  <2>2. chq[t][i + 1] = Note(t, N[i + 1], H)
    BY <2>1 DEF Flow
  <2> QED
    BY <1>1, <1>2, <1>3, <2>1, <2>2
<1>5. ASSUME NEW j \in 1 .. k, Sends(t, j) PROVE j <= SentTo(t)
  <2>1. CASE j = k
    BY <1>2, <2>1
  <2>2. CASE j # k
    <3>1. j \in 1 .. At(1 - t)
      BY <2>2, FlowFacts
    <3> QED
      BY <1>5, <3>1 DEF Flow
  <2> QED
    BY <2>1, <2>2
<1> QED
  BY <1>1, <1>2, <1>3, <1>4, <1>5 DEF Flow

-----------------------------------------------------------------------------
(***************************************************************************)
(* The four ways of going on: a side completes a stage without a message,  *)
(* as the sender or as the receiver of one, or sends its pad only.         *)
(***************************************************************************)
LEMMA AtStage ==
    ASSUME SegTyped, NEW s \in Sides, NEW k, NEW v, Made(s, k, v)
    PROVE  /\ UNCHANGED <<parts, backend>> /\ k \in Stage /\ k \in Nat \ {0}
           /\ k = At(s) + 1 /\ At(s)' = k /\ At(1 - s)' = At(1 - s)
           /\ 1 - s \in Sides /\ 1 - (1 - s) = s /\ 1 - s # s
           /\ At(s) \in Nat /\ At(1 - s) \in Nat
BY StageIs, AtNat, Both DEF Made

LEMMA Quiet ==
    ASSUME SegTyped, NEW C, NEW H, NEW W, Coupled(C, H, W), NEW s \in Sides, NEW k,
           Made(s, k, Share(s, k, C, H)), ~ Sends(s, k), ~ Sends(1 - s, k),
           ~ sentPad[s], UNCHANGED <<chq, sentPad>>,
           ctr' = [ctr EXCEPT ![s] = @ + Cost(k)]
    PROVE  (\E D, V, J : Coupled(D, V, J))'
<1>1. /\ UNCHANGED <<parts, backend>> /\ k \in Stage /\ k \in Nat \ {0}
      /\ k = At(s) + 1 /\ At(s)' = k /\ At(1 - s)' = At(1 - s)
      /\ 1 - s \in Sides /\ 1 - (1 - s) = s
      /\ At(s) \in Nat /\ At(1 - s) \in Nat
  BY AtStage
<1>2. PICK D : D = [C EXCEPT ![k] = C[k - 1] + Cost(k)]
  OBVIOUS
<1>3. D \in [Nat -> Nat] /\ Kept(D, H)' /\ Counted(D)' /\ Masked(H)'
  BY <1>2, Completed DEF NewMask
<1>4. /\ SentTo(s) = At(s) /\ SentTo(s)' = k
      /\ SentTo(1 - s)' = SentTo(1 - s)
  BY <1>1 DEF SentTo
<1>5. Flow(s, H, W[s]) /\ Flow(1 - s, H, W[1 - s]) /\ DOMAIN H = Nat
      /\ H = [j \in Nat |-> H[j]]
  BY <1>1 DEF Coupled
<1>6. Flow(s, H, W[s])'
  <2>1. k = SentTo(s) + 1 /\ ~ Sends(s, k)
    BY <1>1, <1>4
  <2> QED
    BY <1>1, <1>4, <1>5, <2>1, FlowSame
<1>7. Flow(1 - s, H, W[1 - s])'
  <2>0. PICK t \in Sides : t = 1 - s
    BY <1>1
  <2>1. PICK N : N = W[1 - s]
    OBVIOUS
  <2>2. /\ Flow(t, H, N) /\ k = At(1 - t) + 1 /\ At(1 - t)' = k
        /\ ~ Sends(t, k) /\ chq'[t] = chq[t] /\ SentTo(t)' = SentTo(t)
    BY <1>1, <1>4, <1>5, <2>0, <2>1
  <2>3. Flow(t, H, N)'
    BY <1>1, <2>2, FlowPast
  <2> QED
    BY <2>0, <2>1, <2>3
<1>8. Coupled(D, H, W)'
  BY <1>3, <1>5, <1>6, <1>7, Both DEF Coupled
<1> QED
  BY <1>8

\* What holds of a side and of the other one holds of both.
LEMMA BothFlow ==
    ASSUME NEW s \in Sides, NEW V, NEW J, NEW N, NEW M, J[s] = N, J[1 - s] = M,
           Flow(s, V, N)', Flow(1 - s, V, M)'
    PROVE  \A t \in Sides : Flow(t, V, J[t])'
<1> SUFFICES ASSUME NEW t \in Sides PROVE Flow(t, V, J[t])'
  OBVIOUS
<1>1. CASE t = s
  BY <1>1
<1>2. CASE t = 1 - s
  BY <1>2
<1> QED
  BY <1>1, <1>2, Both

LEMMA Gives ==
    ASSUME SegTyped, NEW C, NEW H, NEW W, Coupled(C, H, W), NEW s \in Sides, NEW k,
           NEW V, NewMask(s, k, H, V), Made(s, k, Share(s, k, C, V)),
           Sends(s, k), ~ Sends(1 - s, k),
           ~ sentPad[s], UNCHANGED sentPad,
           NEW m \in Mail, m = Note(s, k, V), chq' = [chq EXCEPT ![s] = Append(@, m)],
           ctr' = [ctr EXCEPT ![s] = @ + Cost(k)]
    PROVE  (\E D, F, J : Coupled(D, F, J))'
<1>1. /\ UNCHANGED <<parts, backend>> /\ k \in Stage /\ k \in Nat \ {0}
      /\ k = At(s) + 1 /\ At(s)' = k /\ At(1 - s)' = At(1 - s)
      /\ 1 - s \in Sides /\ 1 - (1 - s) = s /\ 1 - s # s
      /\ At(s) \in Nat /\ At(1 - s) \in Nat
  BY AtStage
<1>2. PICK D : D = [C EXCEPT ![k] = C[k - 1] + Cost(k)]
  OBVIOUS
<1>3. D \in [Nat -> Nat] /\ Kept(D, V)' /\ Counted(D)' /\ Masked(V)'
  BY <1>2, Completed
<1>4. /\ SentTo(s) = At(s) /\ SentTo(s)' = k
      /\ SentTo(1 - s)' = SentTo(1 - s)
  BY <1>1 DEF SentTo
<1>5. /\ DOMAIN V = Nat /\ V = [j \in Nat |-> V[j]]
      /\ \A j \in Nat : j # k => V[j] = H[j]
  BY <1>1, MaskKept
<1>6. /\ Flow(s, H, W[s]) /\ Flow(1 - s, H, W[1 - s])
      /\ chq'[s] = Append(chq[s], m) /\ chq'[1 - s] = chq[1 - s]
  BY <1>1 DEF Coupled, SegTyped
<1>7. Flow(s, V, Append(W[s], k))'
  <2>1. k = SentTo(s) + 1
    BY <1>1, <1>4
  <2> QED
    BY <1>1, <1>4, <1>5, <1>6, <2>1, FlowSent
<1>8. Flow(1 - s, V, W[1 - s])'
  <2>0. PICK t \in Sides : t = 1 - s
    BY <1>1
  <2>1. PICK N : N = W[1 - s]
    OBVIOUS
  <2>2. /\ Flow(t, H, N) /\ k = At(1 - t) + 1 /\ At(1 - t)' = k
        /\ ~ Sends(t, k) /\ chq'[t] = chq[t] /\ SentTo(t)' = SentTo(t)
    BY <1>1, <1>4, <1>6, <2>0, <2>1
  <2>3. Flow(t, V, N)'
    BY <1>1, <1>5, <2>2, FlowPast
  <2> QED
    BY <2>0, <2>1, <2>3
<1>9. PICK J : J = [t \in Sides |-> IF t = s THEN Append(W[s], k) ELSE W[t]]
  OBVIOUS
<1>10. J[s] = Append(W[s], k) /\ J[1 - s] = W[1 - s]
  BY <1>1, <1>9
<1>11. \A t \in Sides : Flow(t, V, J[t])'
  BY <1>7, <1>8, <1>10, BothFlow
<1>12. Coupled(D, V, J)'
  BY <1>3, <1>5, <1>11 DEF Coupled
<1> QED
  BY <1>12

LEMMA Heard ==
    ASSUME SegTyped, NEW C, NEW H, NEW W, Coupled(C, H, W), NEW s \in Sides, NEW k \in Stage,
           k = At(s) + 1, Sends(1 - s, k), chq[1 - s] # <<>>
    PROVE  Here(s) = Said(1 - s, k, H) /\ Head(chq[1 - s]).tag = TagOf(k)
<1>0. PICK t \in Sides : t = 1 - s
  BY Both
<1>1. PICK N : N = W[1 - s]
  OBVIOUS
<1>2. Flow(t, H, N) /\ k = At(1 - t) + 1 /\ Sends(t, k) /\ chq[t] # <<>>
  BY <1>0, <1>1, Both DEF Coupled
<1>3. Head(chq[t]) = Note(t, k, H)
  BY <1>2, FlowHead
<1> QED
  BY <1>0, <1>1, <1>3 DEF Here, Note

LEMMA Takes ==
    ASSUME SegTyped, NEW C, NEW H, NEW W, Coupled(C, H, W), NEW s \in Sides, NEW k,
           Made(s, k, Share(s, k, C, H)), Sends(1 - s, k), Sends(s, k) <=> sentPad[s],
           sentPad' = [sentPad EXCEPT ![s] = FALSE],
           chq[1 - s] # <<>>, chq' = [chq EXCEPT ![1 - s] = Tail(@)],
           ctr' = [ctr EXCEPT ![s] = @ + Cost(k)]
    PROVE  (\E D, F, J : Coupled(D, F, J))'
<1>1. /\ UNCHANGED <<parts, backend>> /\ k \in Stage /\ k \in Nat \ {0}
      /\ k = At(s) + 1 /\ At(s)' = k /\ At(1 - s)' = At(1 - s)
      /\ 1 - s \in Sides /\ 1 - (1 - s) = s /\ 1 - s # s
      /\ At(s) \in Nat /\ At(1 - s) \in Nat
  BY AtStage
<1>2. PICK D : D = [C EXCEPT ![k] = C[k - 1] + Cost(k)]
  OBVIOUS
<1>3. D \in [Nat -> Nat] /\ Kept(D, H)' /\ Counted(D)' /\ Masked(H)'
  BY <1>2, Completed DEF NewMask
<1>4. /\ \/ SentTo(s) = k
         \/ k = SentTo(s) + 1 /\ ~ Sends(s, k)
      /\ SentTo(s)' = k /\ SentTo(1 - s)' = SentTo(1 - s)
  <2>1. ~ sentPad'[s] /\ sentPad'[1 - s] = sentPad[1 - s]
    BY <1>1 DEF SegTyped
  <2> QED
    BY <1>1, <2>1 DEF SentTo
<1>5. /\ DOMAIN H = Nat /\ H = [j \in Nat |-> H[j]]
      /\ Flow(s, H, W[s]) /\ Flow(1 - s, H, W[1 - s])
      /\ chq'[s] = chq[s] /\ chq'[1 - s] = Tail(chq[1 - s])
  BY <1>1 DEF Coupled, SegTyped
<1>6. Flow(s, H, W[s])'
  <2>1. \/ k = SentTo(s)
        \/ k = SentTo(s) + 1 /\ ~ Sends(s, k)
    BY <1>4
  <2> QED
    BY <1>1, <1>4, <1>5, <2>1, FlowSame
<1>7. Flow(1 - s, H, Tail(W[1 - s]))'
  <2>0. PICK t \in Sides : t = 1 - s
    BY <1>1
  <2>1. PICK N : N = W[1 - s]
    OBVIOUS
  <2>2. /\ Flow(t, H, N) /\ k = At(1 - t) + 1 /\ At(1 - t)' = k /\ chq[t] # <<>>
        /\ Sends(t, k) /\ chq'[t] = Tail(chq[t]) /\ SentTo(t)' = SentTo(t)
    BY <1>1, <1>4, <1>5, <2>0, <2>1
  <2>3. Flow(t, H, Tail(N))'
    BY <1>1, <2>2, FlowTaken
  <2> QED
    BY <2>0, <2>1, <2>3
<1>8. PICK M : M = Tail(W[1 - s])
  OBVIOUS
<1>9. PICK J : J = [t \in Sides |-> IF t = s THEN W[s] ELSE M]
  OBVIOUS
<1>10. J[s] = W[s] /\ J[1 - s] = M
  BY <1>1, <1>9
<1>11. Flow(1 - s, H, M)'
  BY <1>7, <1>8
<1>12. \A t \in Sides : Flow(t, H, J[t])'
  BY <1>6, <1>10, <1>11, BothFlow
<1>13. Coupled(D, H, J)'
  BY <1>3, <1>5, <1>12 DEF Coupled
<1> QED
  BY <1>13

LEMMA Pushes ==
    ASSUME SegTyped, NEW C, NEW H, NEW W, Coupled(C, H, W), NEW s \in Sides, NEW k \in Stage,
           k = At(s) + 1, Sends(s, k), ~ sentPad[s],
           sentPad' = [sentPad EXCEPT ![s] = TRUE],
           NEW m \in Mail, m = Note(s, k, H), chq' = [chq EXCEPT ![s] = Append(@, m)],
           UNCHANGED <<parts, backend, bytes, lens, ctr>>
    PROVE  (\E D, F, J : Coupled(D, F, J))'
<1>1. /\ \A t \in Sides : At(t)' = At(t)
      /\ 1 - s \in Sides /\ 1 - (1 - s) = s /\ 1 - s # s
      /\ At(s) \in Nat /\ At(1 - s) \in Nat
  BY AtNat, Both DEF At
<1>2. Kept(C, H)' /\ Counted(C)' /\ Masked(H)'
  <2>1. /\ Kept(C, H) /\ Counted(C) /\ Masked(H)
        /\ \A t, j : Held(t, j)' = Held(t, j)
    BY DEF Coupled, Held
  <2>2. Kept(C, H)'
    BY <1>1, <2>1, Fixed DEF Kept
  <2>3. Counted(C)'
    BY <1>1, <2>1, Fixed DEF Counted
  <2>4. Masked(H)'
    BY <2>1, Fixed DEF Masked
  <2> QED
    BY <2>2, <2>3, <2>4
<1>3. SentTo(s) = At(s) /\ SentTo(s)' = k /\ SentTo(1 - s)' = SentTo(1 - s)
  <2>1. sentPad'[s] /\ sentPad'[1 - s] = sentPad[1 - s]
    BY <1>1 DEF SegTyped
  <2> QED
    BY <1>1, <2>1 DEF SentTo
<1>4. /\ C \in [Nat -> Nat] /\ DOMAIN H = Nat /\ H = [j \in Nat |-> H[j]]
      /\ Flow(s, H, W[s]) /\ Flow(1 - s, H, W[1 - s])
      /\ chq'[s] = Append(chq[s], m) /\ chq'[1 - s] = chq[1 - s]
  BY <1>1 DEF Coupled, SegTyped
<1>5. Flow(s, H, Append(W[s], k))'
  <2>1. k = SentTo(s) + 1
    BY <1>3
  <2> QED
    BY <1>1, <1>3, <1>4, <2>1, FlowSent
<1>6. Flow(1 - s, H, W[1 - s])'
  <2>0. PICK t \in Sides : t = 1 - s
    BY <1>1
  <2>1. PICK N : N = W[1 - s]
    OBVIOUS
  <2>2. PICK j \in Nat : j = SentTo(t)
    BY Counts
  <2>3. /\ Flow(t, H, N) /\ At(1 - t)' = At(1 - t) /\ j = SentTo(t)
        /\ chq'[t] = chq[t] /\ SentTo(t)' = j
    BY <1>1, <1>3, <1>4, <2>0, <2>1, <2>2
  <2>4. Flow(t, H, N)'
    BY <2>3, FlowSame
  <2> QED
    BY <2>0, <2>1, <2>4
<1>7. PICK J : J = [t \in Sides |-> IF t = s THEN Append(W[s], k) ELSE W[t]]
  OBVIOUS
<1>8. J[s] = Append(W[s], k) /\ J[1 - s] = W[1 - s]
  BY <1>1, <1>7
<1>9. \A t \in Sides : Flow(t, H, J[t])'
  BY <1>5, <1>6, <1>8, BothFlow
<1>10. Coupled(C, H, J)'
  BY <1>2, <1>4, <1>9 DEF Coupled
<1> QED
  BY <1>10

-----------------------------------------------------------------------------
(***************************************************************************)
(* The steps.                                                              *)
(***************************************************************************)
LEMMA TextsAre ==
    ASSUME NEW h \in Nat
    PROVE  \A u \in Texts(h) : u \in Seq({0, 1}) /\ u \in Value
BY SeqDef DEF Texts, Value

LEMMA Posted ==
    ASSUME SegTyped, NEW s \in Sides, NEW tag \in Tags, NEW val \in Value,
           Puts(s, tag, val)
    PROVE  /\ chq' \in [Sides -> Seq(Mail)]
           /\ \E m \in Mail :
                m = [tag |-> tag, val |-> val] /\ chq' = [chq EXCEPT ![s] = Append(@, m)]
<1>1. PICK m : m = [tag |-> tag, val |-> val]
  OBVIOUS
<1>2. m \in Mail
  BY <1>1 DEF Mail
<1>3. chq' = [chq EXCEPT ![s] = Append(@, m)]
  BY <1>1 DEF Puts
<1>4. Append(chq[s], m) \in Seq(Mail)
  BY <1>2, AppendProperties DEF SegTyped
<1> QED
  BY <1>1, <1>2, <1>3, <1>4 DEF SegTyped

LEMMA Fetched ==
    ASSUME SegTyped, NEW s \in Sides, NEW tag, Fetches(s, tag)
    PROVE  /\ chq' \in [Sides -> Seq(Mail)] /\ chq[1 - s] # <<>>
           /\ chq' = [chq EXCEPT ![1 - s] = Tail(@)]
<1>1. chq[1 - s] # <<>> /\ chq' = [chq EXCEPT ![1 - s] = Tail(@)] /\ 1 - s \in Sides
  BY Both DEF Fetches
<1>2. chq[1 - s] \in Seq(Mail)
  BY <1>1 DEF SegTyped
<1>3. Tail(chq[1 - s]) \in Seq(Mail)
  BY <1>1, <1>2, HeadTailProperties, EmptySeq
<1> QED
  BY <1>1, <1>3 DEF SegTyped

LEMMA Charged ==
    ASSUME SegTyped, NEW s \in Sides, NEW n \in Nat, ctr' = [ctr EXCEPT ![s] = @ + n]
    PROVE  ctr' \in [Sides -> Nat]
BY DEF SegTyped

LEMMA TypedBytes ==
    ASSUME SegTyped, NEW s \in Sides, AtBytes(s), NEW v \in Seq({0, 1}), Holds(s, v),
           sentPad' = [sentPad EXCEPT ![s] = FALSE],
           UNCHANGED <<parts, backend, lens>>,
           chq' \in [Sides -> Seq(Mail)], ctr' \in [Sides -> Nat]
    PROVE  SegTyped'
<1>1. /\ Len(bytes'[s]) = Len(lens[s]) + 1 /\ bytes'[1 - s] = bytes[1 - s]
      /\ bytes' \in [Sides -> Seq(Seq({0, 1}))]
  BY MadeBytes
<1>2. /\ ~ sentPad'[s] /\ sentPad'[1 - s] = sentPad[1 - s]
      /\ sentPad' \in [Sides -> BOOLEAN]
  BY Both DEF SegTyped
<1>3. Len(bytes'[s]) <= Len(parts)
  BY <1>1, Counts DEF AtBytes
<1>4. ASSUME NEW t \in Sides
      PROVE  /\ Len(bytes'[t]) = Len(lens'[t]) \/ Len(bytes'[t]) = Len(lens'[t]) + 1
             /\ Len(bytes'[t]) <= Len(parts')
             /\ sentPad'[t] => backend' = "sim" /\ AtBytes(t)' /\ Now(t)'.theta \in SidePads
  <2>1. CASE t = s
    BY <1>1, <1>2, <1>3, <2>1
  <2>2. CASE t = 1 - s
    <3>1. /\ bytes'[t] = bytes[t] /\ lens'[t] = lens[t] /\ parts' = parts
          /\ sentPad'[t] = sentPad[t] /\ backend' = backend
      BY <1>1, <1>2, <2>2
    <3>2. (AtBytes(t)' <=> AtBytes(t)) /\ Now(t)' = Now(t)
      BY <3>1 DEF AtBytes, Now
    <3>3. /\ Len(bytes[t]) = Len(lens[t]) \/ Len(bytes[t]) = Len(lens[t]) + 1
          /\ Len(bytes[t]) <= Len(parts)
          /\ sentPad[t] => backend = "sim" /\ AtBytes(t) /\ Now(t).theta \in SidePads
      BY DEF SegTyped
    <3> QED
      BY <3>1, <3>2, <3>3
  <2> QED
    BY <2>1, <2>2, Both
<1>5. backend' \in {"ot", "sim"} /\ parts' \in Templates /\ lens' \in [Sides -> Seq(Nat)]
  BY DEF SegTyped
<1> QED
  BY <1>1, <1>2, <1>4, <1>5 DEF SegTyped

LEMMA TypedLen ==
    ASSUME SegTyped, NEW s \in Sides, Len(bytes[s]) > Len(lens[s]), NEW v \in Nat,
           lens' = [lens EXCEPT ![s] = Append(@, v)],
           UNCHANGED <<parts, backend, bytes, sentPad>>,
           chq' \in [Sides -> Seq(Mail)], ctr' \in [Sides -> Nat]
    PROVE  SegTyped' /\ ~ sentPad[s]
<1>1. /\ Len(lens'[s]) = Len(bytes[s]) /\ lens'[1 - s] = lens[1 - s]
      /\ lens' \in [Sides -> Seq(Nat)]
  BY MadeLen
<1>2. ~ sentPad[s]
  <2>1. Len(bytes[s]) \in Nat /\ Len(lens[s]) \in Nat
    BY Counts
  <2>2. Len(bytes[s]) # Len(lens[s])
    BY <2>1
  <2> QED
    BY <2>2 DEF SegTyped, AtBytes
<1>3. /\ AtBytes(1 - s)' <=> AtBytes(1 - s)
      /\ Now(1 - s)' = Now(1 - s)
  BY <1>1 DEF AtBytes, Now
<1>4. ASSUME NEW t \in Sides
      PROVE  /\ Len(bytes'[t]) = Len(lens'[t]) \/ Len(bytes'[t]) = Len(lens'[t]) + 1
             /\ Len(bytes'[t]) <= Len(parts')
             /\ sentPad'[t] => backend' = "sim" /\ AtBytes(t)' /\ Now(t)'.theta \in SidePads
  <2>1. CASE t = s
    BY <1>1, <1>2, <2>1 DEF SegTyped
  <2>2. CASE t = 1 - s
    BY <1>1, <1>3, <2>2, Both DEF SegTyped
  <2> QED
    BY <2>1, <2>2, Both
<1>5. /\ backend' \in {"ot", "sim"} /\ parts' \in Templates
      /\ bytes' \in [Sides -> Seq(Seq({0, 1}))] /\ sentPad' \in [Sides -> BOOLEAN]
  BY DEF SegTyped
<1> QED
  BY <1>1, <1>2, <1>4, <1>5 DEF SegTyped

\* What a side holds in the stage that it enters next.
LEMMA Next1 ==
    ASSUME SegTyped, NEW C, NEW H, NEW W, Coupled(C, H, W), NEW s \in Sides, NEW k \in Stage,
           k = At(s) + 1
    PROVE  /\ k \in Nat \ {0} /\ k - 1 \in Nat /\ C[k - 1] \in Nat /\ ctr[s] = C[k - 1]
           /\ Legal(Item(k)) /\ H[k] \in MasksAt(k) /\ DOMAIN H = Nat
           /\ backend \in {"ot", "sim"} /\ Item(k).h \in Nat
<1>1. At(s) \in Nat /\ k \in Nat \ {0} /\ k - 1 \in Nat /\ Legal(Item(k)) /\ At(s) = k - 1
  BY AtNat, StageIs
<1> QED
  BY <1>1, LegalNumbers DEF Coupled, Counted, Masked, SegTyped

\* The stage that a side is about to complete.
LEMMA BytesNext ==
    ASSUME SegTyped, NEW s \in Sides, AtBytes(s), NEW k, k = At(s) + 1
    PROVE  k \in Stage /\ OfBytes(k) /\ Item(k) = Now(s)
<1>1. PICK n : n = Len(lens[s]) + 1
  OBVIOUS
<1>2. n \in Nat \ {0} /\ k = 2 * n - 1 /\ n <= Len(parts) /\ Len(parts) \in Nat
  <2>1. /\ k = 2 * Len(lens[s]) + 1 /\ Len(lens[s]) \in Nat /\ Len(lens[s]) < Len(parts)
        /\ Len(parts) \in Nat
    BY Counts DEF At, AtBytes
  <2> QED
    BY <1>1, <2>1
<1>3. OfBytes(k) /\ Nth(k) = n
  BY <1>2, Halves
<1> QED
  BY <1>1, <1>2, <1>3 DEF Stage, Item, Now

LEMMA LenNext ==
    ASSUME SegTyped, NEW s \in Sides, Len(bytes[s]) > Len(lens[s]), NEW k, k = At(s) + 1
    PROVE  k \in Stage /\ ~ OfBytes(k) /\ Item(k) = Now(s)
<1>1. PICK n : n = Len(lens[s]) + 1
  OBVIOUS
<1>2. n \in Nat \ {0} /\ k = 2 * n /\ n <= Len(parts) /\ Len(parts) \in Nat
  <2>1. PICK j, m, l : j = Len(lens[s]) /\ m = Len(bytes[s]) /\ l = Len(parts)
    OBVIOUS
  <2>2. /\ j \in Nat /\ m \in Nat /\ l \in Nat /\ At(s) = m + j
        /\ m = j \/ m = j + 1
        /\ m <= l /\ m > j
    BY <2>1, Counts
  <2>3. m = j + 1 /\ m + j + 1 = 2 * (j + 1)
    BY <2>2
  <2> QED
    BY <1>1, <2>1, <2>2, <2>3
<1>3. ~ OfBytes(k) /\ Nth(k) = n
  BY <1>2, Halves
<1> QED
  BY <1>1, <1>2, <1>3 DEF Stage, Item, Now

LEMMA StepAlone ==
    ASSUME SegTyped, NEW C, NEW H, NEW W, Coupled(C, H, W), NEW s \in Sides, MakeAlone(s)
    PROVE  SegTyped' /\ (\E D, V, J : Coupled(D, V, J))'
<1>1. PICK k, e, v :
        /\ k = At(s) + 1 /\ e = Now(s)
        /\ v = IF e.theta = "P"
                 THEN IF s = 0 THEN PadContent(s, e) ELSE [i \in 1 .. e.h |-> 0]
                 ELSE PadContent(s, e)
  OBVIOUS
<1>2. /\ AtBytes(s) /\ ~ sentPad[s] /\ Holds(s, v)
      /\ UNCHANGED <<backend, parts, lens, sentPad, chq, ctr>>
      /\ \/ e.theta = "P"
         \/ e.theta \in SidePads /\ backend = "ot"
  BY <1>1 DEF MakeAlone, SidePads
<1>3. k \in Stage /\ OfBytes(k) /\ Item(k) = e
  BY <1>1, <1>2, BytesNext
<1>4. /\ Legal(e) /\ e.h \in Nat /\ C[k - 1] \in Nat /\ H[k] \in Texts(e.h)
  BY <1>1, <1>3, Next1 DEF MasksAt
<1>5. v = ByteShare(s, e, C[k - 1], H[k])
  BY <1>1, <1>2, Both DEF ByteShare, SidePads, Sides
<1>6. v \in Seq({0, 1})
  BY <1>4, <1>5, SharesTyped, TextsAre
<1>7. Made(s, k, v)
  BY <1>1, <1>2, <1>6, MadeBytes
<1>8. v = Share(s, k, C, H)
  BY <1>3, <1>5 DEF Share
<1>9. ~ Sends(s, k) /\ ~ Sends(1 - s, k) /\ Cost(k) = 0
  BY <1>2, <1>3, <1>4, OneOwner, Both DEF Sends, Cost, SidePads
<1>10. ctr' = [ctr EXCEPT ![s] = @ + Cost(k)] /\ sentPad' = [sentPad EXCEPT ![s] = FALSE]
       /\ chq' \in [Sides -> Seq(Mail)] /\ ctr' \in [Sides -> Nat]
  BY <1>2, <1>9 DEF SegTyped
<1>11. SegTyped'
  BY <1>2, <1>6, <1>10, TypedBytes
<1>12. (\E D, V, J : Coupled(D, V, J))'
  BY <1>2, <1>7, <1>8, <1>9, <1>10, Quiet
<1> QED
  BY <1>11, <1>12

LEMMA StepOwned ==
    ASSUME SegTyped, NEW C, NEW H, NEW W, Coupled(C, H, W), NEW s \in Sides, MakeOwned(s)
    PROVE  SegTyped' /\ (\E D, V, J : Coupled(D, V, J))'
<1>1. PICK k, e, p, d :
        /\ k = At(s) + 1 /\ e = Now(s)
        /\ p = PadContent(s, e) /\ d = DetBits(ctr[s] + 1, e.h)
  OBVIOUS
<1>2. /\ AtBytes(s) /\ e.theta \in {"Af", "Rf", "As", "Rs"}
      /\ UNCHANGED <<backend, parts, lens, sentPad>>
      /\ \E v \in Texts(e.h) :
           /\ SharedAs(s, Owner(s, e.theta), p, "shb", Texts(e.h), d, v)
           /\ Holds(s, v)
  BY <1>1 DEF MakeOwned, Texts
<1>3. PICK v \in Texts(e.h) :
        SharedAs(s, Owner(s, e.theta), p, "shb", Texts(e.h), d, v) /\ Holds(s, v)
  BY <1>2
<1>4. k \in Stage /\ OfBytes(k) /\ Item(k) = e
  BY <1>1, <1>2, BytesNext
<1>5. /\ Legal(e) /\ e.h \in Nat /\ C[k - 1] \in Nat /\ ctr[s] = C[k - 1]
      /\ H[k] \in Texts(e.h) /\ MasksAt(k) = Texts(e.h) /\ DOMAIN H = Nat
      /\ k \in Nat /\ backend \in {"ot", "sim"}
  BY <1>1, <1>4, Next1 DEF MasksAt
<1>6. /\ ~ sentPad[s] /\ sentPad' = [sentPad EXCEPT ![s] = FALSE]
      /\ e.theta \notin SidePads \cup {"P"} /\ e.theta \notin SidePads
  <2>1. e.theta \notin SidePads \cup {"P"} /\ e.theta \notin SidePads
    BY <1>2 DEF SidePads
  <2>2. ~ sentPad[s]
    BY <1>1, <2>1 DEF SegTyped
  <2> QED
    BY <1>2, <2>1, <2>2 DEF SegTyped
<1>7. /\ v \in Seq({0, 1}) /\ Made(s, k, v)
      /\ p \in Texts(e.h) /\ p \in Value
  BY <1>1, <1>2, <1>3, <1>5, MadeBytes, TextsAre, PadIs
<1>8. /\ Sends(s, k) <=> Owner(s, e.theta)
      /\ Sends(1 - s, k) <=> ~ Owner(s, e.theta)
      /\ Cost(k) = IF backend = "ot" THEN 0 ELSE 1
  BY <1>4, <1>5, <1>6, OneOwner DEF Sends, Cost
<1>9. SUFFICES /\ chq' \in [Sides -> Seq(Mail)] /\ ctr' = [ctr EXCEPT ![s] = @ + Cost(k)]
               /\ (\E D, V, J : Coupled(D, V, J))'
  <2>1. ASSUME ctr' = [ctr EXCEPT ![s] = @ + Cost(k)]
        PROVE  ctr' \in [Sides -> Nat]
    BY <1>8, <2>1, Charged
  <2> QED
    BY <1>2, <1>3, <1>6, <1>7, <2>1, TypedBytes
<1>10. CASE backend = "ot" /\ Owner(s, e.theta)
  <2>1. PICK r \in Texts(e.h) : Puts(s, "shb", r) /\ v = BXor(p, r)
    BY <1>3, <1>10 DEF SharedAs, Diff
  <2>2. UNCHANGED ctr
    BY <1>3, <1>10 DEF SharedAs
  <2>3. r \in Value
    BY <1>5, TextsAre
  <2>4. /\ chq' \in [Sides -> Seq(Mail)]
        /\ \E m \in Mail :
              m = [tag |-> "shb", val |-> r] /\ chq' = [chq EXCEPT ![s] = Append(@, m)]
    BY <2>1, <2>3, Posted DEF Tags
  <2>5. PICK m \in Mail :
        m = [tag |-> "shb", val |-> r] /\ chq' = [chq EXCEPT ![s] = Append(@, m)]
    BY <2>4
  <2>6. PICK V : V = [H EXCEPT ![k] = r]
    OBVIOUS
  <2>7. V[k] = r /\ NewMask(s, k, H, V)
    BY <1>5, <1>6, <1>8, <1>10, <2>6 DEF NewMask
  <2>8. v = Share(s, k, C, V)
    BY <1>1, <1>4, <1>6, <1>10, <2>1, <2>7 DEF Share, ByteShare
  <2>9. m = Note(s, k, V)
    BY <1>4, <1>10, <2>5, <2>7 DEF Note, TagOf, Said
  <2>10. ctr' = [ctr EXCEPT ![s] = @ + Cost(k)]
    BY <1>8, <1>10, <2>2 DEF SegTyped
  <2>11. (\E D, F, J : Coupled(D, F, J))'
    <3>1. Made(s, k, Share(s, k, C, V)) /\ Sends(s, k) /\ ~ Sends(1 - s, k)
      BY <1>7, <1>8, <1>10, <2>8
    <3>2. NewMask(s, k, H, V) /\ ~ sentPad[s] /\ UNCHANGED sentPad
      BY <1>2, <1>6, <2>7
    <3> QED
      BY <2>5, <2>9, <2>10, <3>1, <3>2, Gives
  <2> QED
    BY <2>4, <2>10, <2>11
<1>11. CASE backend = "ot" /\ ~ Owner(s, e.theta)
  <2>1. Fetches(s, "shb") /\ v = Here(s) /\ UNCHANGED ctr
    BY <1>3, <1>11 DEF SharedAs
  <2>2. /\ chq' \in [Sides -> Seq(Mail)] /\ chq[1 - s] # <<>>
        /\ chq' = [chq EXCEPT ![1 - s] = Tail(@)]
    BY <2>1, Fetched
  <2>3. Here(s) = H[k]
    BY <1>1, <1>4, <1>8, <1>11, <2>2, Heard DEF Said
  <2>4. v = Share(s, k, C, H)
    BY <1>4, <1>6, <1>11, <2>1, <2>3 DEF Share, ByteShare
  <2>5. ctr' = [ctr EXCEPT ![s] = @ + Cost(k)]
    BY <1>8, <1>11, <2>1 DEF SegTyped
  <2>6. (\E D, F, J : Coupled(D, F, J))'
    BY <1>6, <1>7, <1>8, <1>11, <2>2, <2>4, <2>5, Takes
  <2> QED
    BY <2>2, <2>5, <2>6
<1>12. CASE backend = "sim" /\ Owner(s, e.theta)
  <2>1. /\ Puts(s, "sim.t", p) /\ v = IF s = 0 THEN d ELSE BXor(p, d)
        /\ ctr' = [ctr EXCEPT ![s] = @ + 1]
    BY <1>3, <1>12 DEF SharedAs, Diff
  <2>2. /\ chq' \in [Sides -> Seq(Mail)]
        /\ \E m \in Mail :
              m = [tag |-> "sim.t", val |-> p] /\ chq' = [chq EXCEPT ![s] = Append(@, m)]
    BY <1>7, <2>1, Posted DEF Tags
  <2>3. PICK m \in Mail :
        m = [tag |-> "sim.t", val |-> p] /\ chq' = [chq EXCEPT ![s] = Append(@, m)]
    BY <2>2
  <2>4. s # 0 => AOwner(e) = s
    BY <1>5, <1>6, <1>12, TheOwner DEF Sides
  <2>5. v = Share(s, k, C, H)
    BY <1>1, <1>4, <1>5, <1>6, <1>12, <2>1, <2>4 DEF Share, ByteShare
  <2>6. m = Note(s, k, H)
    BY <1>1, <1>4, <1>12, <2>3 DEF Note, TagOf, Said
  <2>7. ctr' = [ctr EXCEPT ![s] = @ + Cost(k)]
    BY <1>8, <1>12, <2>1
  <2>8. (\E D, F, J : Coupled(D, F, J))'
    <3>1. Made(s, k, Share(s, k, C, H)) /\ Sends(s, k) /\ ~ Sends(1 - s, k)
      BY <1>7, <1>8, <1>12, <2>5
    <3>2. NewMask(s, k, H, H) /\ ~ sentPad[s] /\ UNCHANGED sentPad
      BY <1>2, <1>6 DEF NewMask
    <3> QED
      BY <2>3, <2>6, <2>7, <3>1, <3>2, Gives
  <2> QED
    BY <2>2, <2>7, <2>8
<1>13. CASE backend = "sim" /\ ~ Owner(s, e.theta)
  <2>1. /\ Fetches(s, "sim.t") /\ v = IF s = 0 THEN d ELSE BXor(Here(s), d)
        /\ ctr' = [ctr EXCEPT ![s] = @ + 1]
    BY <1>3, <1>13 DEF SharedAs, Diff
  <2>2. /\ chq' \in [Sides -> Seq(Mail)] /\ chq[1 - s] # <<>>
        /\ chq' = [chq EXCEPT ![1 - s] = Tail(@)]
    BY <2>1, Fetched
  <2>3. Here(s) = PadContent(1 - s, e)
    BY <1>1, <1>4, <1>8, <1>13, <2>2, Heard DEF Said
  <2>4. s # 0 => AOwner(e) = 1 - s
    BY <1>5, <1>6, <1>13, TheOwner DEF Sides
  <2>5. v = Share(s, k, C, H)
    BY <1>1, <1>4, <1>5, <1>6, <1>13, <2>1, <2>3, <2>4 DEF Share, ByteShare
  <2>6. ctr' = [ctr EXCEPT ![s] = @ + Cost(k)]
    BY <1>8, <1>13, <2>1
  <2>7. (\E D, F, J : Coupled(D, F, J))'
    BY <1>6, <1>7, <1>8, <1>13, <2>2, <2>5, <2>6, Takes
  <2> QED
    BY <2>2, <2>6, <2>7
<1> QED
  BY <1>5, <1>10, <1>11, <1>12, <1>13

LEMMA StepSend ==
    ASSUME SegTyped, NEW C, NEW H, NEW W, Coupled(C, H, W), NEW s \in Sides, SendPad(s)
    PROVE  SegTyped' /\ (\E D, V, J : Coupled(D, V, J))'
<1>1. PICK k, e, p : k = At(s) + 1 /\ e = Now(s) /\ p = PadContent(s, e)
  OBVIOUS
<1>2. /\ AtBytes(s) /\ ~ sentPad[s] /\ backend = "sim" /\ e.theta \in SidePads
      /\ Puts(s, "sim.t", p) /\ sentPad' = [sentPad EXCEPT ![s] = TRUE]
      /\ UNCHANGED <<backend, parts, bytes, lens, ctr>>
  BY <1>1 DEF SendPad, SidePads
<1>3. k \in Stage /\ OfBytes(k) /\ Item(k) = e
  BY <1>1, <1>2, BytesNext
<1>4. Legal(e) /\ e.h \in Nat
  BY <1>1, <1>3, Next1
<1>5. p \in Value
  BY <1>1, <1>4, PadIs, TextsAre
<1>6. /\ chq' \in [Sides -> Seq(Mail)]
      /\ \E m \in Mail :
            m = [tag |-> "sim.t", val |-> p] /\ chq' = [chq EXCEPT ![s] = Append(@, m)]
  BY <1>2, <1>5, Posted DEF Tags
<1>7. PICK m \in Mail :
      m = [tag |-> "sim.t", val |-> p] /\ chq' = [chq EXCEPT ![s] = Append(@, m)]
  BY <1>6
<1>8. Sends(s, k) /\ m = Note(s, k, H)
  BY <1>1, <1>2, <1>3, <1>7 DEF Sends, Note, TagOf, Said
<1>9. (\E D, V, J : Coupled(D, V, J))'
  BY <1>1, <1>2, <1>3, <1>7, <1>8, Pushes
<1>10. SegTyped'
  <2>1. \A t \in Sides : AtBytes(t)' = AtBytes(t) /\ Now(t)' = Now(t)
    BY <1>2 DEF AtBytes, Now
  <2>2. /\ sentPad' \in [Sides -> BOOLEAN]
        /\ \A t \in Sides : sentPad'[t] => t = s \/ sentPad[t]
    BY <1>2 DEF SegTyped
  <2>3. \A t \in Sides :
           sentPad'[t] => backend = "sim" /\ AtBytes(t) /\ Now(t).theta \in SidePads
    BY <1>1, <1>2, <2>2 DEF SegTyped
  <2>4. /\ backend \in {"ot", "sim"} /\ parts \in Templates
        /\ bytes \in [Sides -> Seq(Seq({0, 1}))] /\ lens \in [Sides -> Seq(Nat)]
        /\ ctr \in [Sides -> Nat]
        /\ \A t \in Sides :
             /\ Len(bytes[t]) = Len(lens[t]) \/ Len(bytes[t]) = Len(lens[t]) + 1
             /\ Len(bytes[t]) <= Len(parts)
    BY DEF SegTyped
  <2> QED
    BY <1>2, <1>6, <2>1, <2>2, <2>3, <2>4 DEF SegTyped
<1> QED
  BY <1>9, <1>10

LEMMA StepTake ==
    ASSUME SegTyped, NEW C, NEW H, NEW W, Coupled(C, H, W), NEW s \in Sides, TakePad(s)
    PROVE  SegTyped' /\ (\E D, V, J : Coupled(D, V, J))'
<1>1. PICK k, e, own, pad, v :
        /\ k = At(s) + 1 /\ e = Now(s) /\ own = PadContent(s, e)
        /\ pad = [i \in DOMAIN own |-> Det(ctr[s] + i) % 2]
        /\ v = IF s = 0 THEN pad ELSE BXor(BXor(own, Here(s)), pad)
  OBVIOUS
<1>2. /\ sentPad[s] /\ Fetches(s, "sim.t") /\ Holds(s, v)
      /\ ctr' = [ctr EXCEPT ![s] = @ + Len(own)]
      /\ sentPad' = [sentPad EXCEPT ![s] = FALSE]
      /\ UNCHANGED <<backend, parts, lens>>
  BY <1>1 DEF TakePad
<1>3. backend = "sim" /\ AtBytes(s) /\ e.theta \in SidePads
  BY <1>1, <1>2 DEF SegTyped
<1>4. k \in Stage /\ OfBytes(k) /\ Item(k) = e
  BY <1>1, <1>3, BytesNext
<1>5. /\ Legal(e) /\ e.h \in Nat /\ C[k - 1] \in Nat /\ ctr[s] = C[k - 1]
      /\ H[k] \in Texts(e.h)
  BY <1>1, <1>4, Next1 DEF MasksAt
<1>6. own \in Texts(e.h) /\ Len(own) = e.h /\ DOMAIN own = 1 .. e.h
  BY <1>1, <1>5, PadIs DEF Texts
<1>7. pad = Dealt(C[k - 1], e.h)
  BY <1>1, <1>5, <1>6 DEF Dealt
<1>8. /\ Sends(s, k) /\ Sends(1 - s, k) /\ Cost(k) = Len(own)
  BY <1>3, <1>4, <1>6 DEF Sends, Cost, SidePads
<1>9. /\ chq' \in [Sides -> Seq(Mail)] /\ chq[1 - s] # <<>>
      /\ chq' = [chq EXCEPT ![1 - s] = Tail(@)]
  BY <1>2, Fetched
<1>10. Here(s) = PadContent(1 - s, e)
  BY <1>1, <1>3, <1>4, <1>8, <1>9, Heard DEF Said
<1>11. v = ByteShare(s, e, C[k - 1], H[k])
  <2>1. CASE s = 0
    BY <1>1, <1>3, <1>7, <2>1 DEF ByteShare, SidePads
  <2>2. CASE s = 1
    BY <1>1, <1>3, <1>7, <1>10, <2>2 DEF ByteShare, SidePads
  <2> QED
    BY <2>1, <2>2 DEF Sides
<1>12. v = Share(s, k, C, H)
  BY <1>4, <1>11 DEF Share
<1>13. v \in Seq({0, 1})
  BY <1>5, <1>11, SharesTyped, TextsAre
<1>14. Made(s, k, v)
  BY <1>1, <1>2, <1>3, <1>13, MadeBytes
<1>15. ctr' = [ctr EXCEPT ![s] = @ + Cost(k)] /\ ctr' \in [Sides -> Nat]
  BY <1>2, <1>5, <1>6, <1>8, Charged
<1>16. SegTyped'
  BY <1>2, <1>3, <1>9, <1>13, <1>15, TypedBytes
<1>17. (\E D, V, J : Coupled(D, V, J))'
  BY <1>2, <1>8, <1>9, <1>12, <1>14, <1>15, Takes
<1> QED
  BY <1>16, <1>17

LEMMA StepLen ==
    ASSUME SegTyped, NEW C, NEW H, NEW W, Coupled(C, H, W), NEW s \in Sides, MakeLen(s)
    PROVE  SegTyped' /\ (\E D, V, J : Coupled(D, V, J))'
<1> DEFINE Lens == 0 .. LenMod - 1
<1>1. PICK k, e, g, d :
        /\ k = At(s) + 1 /\ e = Now(s)
        /\ g = e.g[s] /\ d = Det(ctr[s] + 1) % LenMod
  OBVIOUS
<1>2. /\ Len(bytes[s]) > Len(lens[s]) /\ UNCHANGED <<backend, parts, bytes, sentPad>>
      /\ IF e.theta \in PubLen
           THEN /\ lens' = [lens EXCEPT ![s] = Append(@, e.h)]
                /\ UNCHANGED <<chq, ctr>>
           ELSE \E v \in Lens :
                  /\ SharedAs(s, GOwner(s, e), g, "sha", Lens, d, v)
                  /\ lens' = [lens EXCEPT ![s] = Append(@, v)]
  BY <1>1 DEF MakeLen
<1>3. k \in Stage /\ ~ OfBytes(k) /\ Item(k) = e
  BY <1>1, <1>2, LenNext
<1>4. /\ Legal(e) /\ e.h \in Nat /\ C[k - 1] \in Nat /\ ctr[s] = C[k - 1]
      /\ H[k] \in Lens /\ MasksAt(k) = Lens /\ DOMAIN H = Nat
      /\ k \in Nat /\ backend \in {"ot", "sim"} /\ Lens \subseteq Nat
  <2>1. Lens \subseteq Nat
    BY TemplateAssumption
  <2> QED
    BY <1>1, <1>3, <2>1, Next1 DEF MasksAt
<1> HIDE DEF Lens
<1>5. PICK v \in Nat :
        /\ lens' = [lens EXCEPT ![s] = Append(@, v)]
        /\ \/ e.theta \in PubLen /\ v = e.h /\ UNCHANGED <<chq, ctr>>
           \/ e.theta \notin PubLen /\ SharedAs(s, GOwner(s, e), g, "sha", Lens, d, v)
  BY <1>2, <1>4
<1>6. Made(s, k, v)
  BY <1>1, <1>2, <1>5, MadeLen
<1>7. SUFFICES /\ chq' \in [Sides -> Seq(Mail)] /\ ctr' = [ctr EXCEPT ![s] = @ + Cost(k)]
               /\ ~ sentPad[s] => (\E D, V, J : Coupled(D, V, J))'
  <2>1. ASSUME ctr' = [ctr EXCEPT ![s] = @ + Cost(k)]
        PROVE  ctr' \in [Sides -> Nat]
    <3>1. Cost(k) \in Nat
      BY <1>3, <1>4 DEF Cost
    <3> QED
      BY <2>1, <3>1, Charged
  <2> QED
    BY <1>2, <1>5, <2>1, TypedLen
<1>8. CASE e.theta \in PubLen
  <2>1. v = e.h /\ UNCHANGED <<chq, ctr>>
    BY <1>5, <1>8
  <2>2. v = Share(s, k, C, H)
    BY <1>3, <1>8, <2>1 DEF Share, LenShare
  <2>3. ~ Sends(s, k) /\ ~ Sends(1 - s, k) /\ Cost(k) = 0
    BY <1>3, <1>8 DEF Sends, Cost
  <2>4. ctr' = [ctr EXCEPT ![s] = @ + Cost(k)] /\ chq' \in [Sides -> Seq(Mail)]
    BY <2>1, <2>3 DEF SegTyped
  <2>5. ~ sentPad[s] => (\E D, V, J : Coupled(D, V, J))'
    <3>1. Made(s, k, Share(s, k, C, H)) /\ UNCHANGED <<chq, sentPad>>
      BY <1>2, <1>6, <2>1, <2>2
    <3> QED
      BY <2>3, <2>4, <3>1, Quiet
  <2> QED
    BY <2>4, <2>5
<1>9. CASE e.theta \notin PubLen
  <2>1. SharedAs(s, GOwner(s, e), g, "sha", Lens, d, v)
    BY <1>5, <1>9
  <2>2. /\ Sends(s, k) <=> GOwner(s, e)
        /\ Sends(1 - s, k) <=> ~ GOwner(s, e)
        /\ Cost(k) = IF backend = "ot" THEN 0 ELSE 1
    BY <1>3, <1>4, <1>9, OneOwner DEF Sends, Cost
  <2>3. sentPad' = [sentPad EXCEPT ![s] = FALSE] \/ sentPad[s]
    BY <1>2 DEF SegTyped
  <2>4. CASE backend = "ot" /\ GOwner(s, e)
    <3>1. PICK r \in Lens : Puts(s, "sha", r) /\ v = LSub(g, r)
      BY <2>1, <2>4 DEF SharedAs, Diff
    <3>2. UNCHANGED ctr
      BY <2>1, <2>4 DEF SharedAs
    <3>3. r \in Value
      BY <1>4 DEF Value
    <3>4. /\ chq' \in [Sides -> Seq(Mail)]
          /\ \E m \in Mail :
                m = [tag |-> "sha", val |-> r] /\ chq' = [chq EXCEPT ![s] = Append(@, m)]
      BY <3>1, <3>3, Posted DEF Tags
    <3>5. PICK m \in Mail :
          m = [tag |-> "sha", val |-> r] /\ chq' = [chq EXCEPT ![s] = Append(@, m)]
      BY <3>4
    <3>6. PICK V : V = [H EXCEPT ![k] = r]
      OBVIOUS
    <3>7. V[k] = r /\ (~ sentPad[s] => NewMask(s, k, H, V))
      BY <1>4, <2>2, <2>4, <3>6 DEF NewMask
    <3>8. v = Share(s, k, C, V)
      BY <1>1, <1>3, <1>9, <2>4, <3>1, <3>7 DEF Share, LenShare
    <3>9. m = Note(s, k, V)
      BY <1>3, <2>4, <3>5, <3>7 DEF Note, TagOf, Said
    <3>10. ctr' = [ctr EXCEPT ![s] = @ + Cost(k)]
      BY <2>2, <2>4, <3>2 DEF SegTyped
    <3>11. ASSUME ~ sentPad[s] PROVE (\E D, F, J : Coupled(D, F, J))'
      <4>1. Made(s, k, Share(s, k, C, V)) /\ Sends(s, k) /\ ~ Sends(1 - s, k)
        BY <1>6, <2>2, <2>4, <3>8
      <4>2. NewMask(s, k, H, V) /\ ~ sentPad[s] /\ UNCHANGED sentPad
        BY <1>2, <3>7, <3>11
      <4> QED
        BY <3>5, <3>9, <3>10, <4>1, <4>2, Gives
    <3> QED
      BY <3>4, <3>10, <3>11
  <2>5. CASE backend = "ot" /\ ~ GOwner(s, e)
    <3>1. Fetches(s, "sha") /\ v = Here(s) /\ UNCHANGED ctr
      BY <2>1, <2>5 DEF SharedAs
    <3>2. /\ chq' \in [Sides -> Seq(Mail)] /\ chq[1 - s] # <<>>
          /\ chq' = [chq EXCEPT ![1 - s] = Tail(@)]
      BY <3>1, Fetched
    <3>3. Here(s) = H[k]
      BY <1>1, <1>3, <2>2, <2>5, <3>2, Heard DEF Said
    <3>4. v = Share(s, k, C, H)
      BY <1>3, <1>9, <2>5, <3>1, <3>3 DEF Share, LenShare
    <3>5. ctr' = [ctr EXCEPT ![s] = @ + Cost(k)]
      BY <2>2, <2>5, <3>1 DEF SegTyped
    <3>6. ~ sentPad[s] => (\E D, F, J : Coupled(D, F, J))'
      BY <1>6, <2>2, <2>3, <2>5, <3>2, <3>4, <3>5, Takes
    <3> QED
      BY <3>2, <3>5, <3>6
  <2>6. CASE backend = "sim" /\ GOwner(s, e)
    <3>1. /\ Puts(s, "sim.t", g) /\ v = IF s = 0 THEN d ELSE LSub(g, d)
          /\ ctr' = [ctr EXCEPT ![s] = @ + 1]
      BY <2>1, <2>6 DEF SharedAs, Diff
    <3>2. g \in Value
      <4>1. g \in Lens
        BY <1>1, <1>4, <1>9, <2>6, OneOwner DEF Lens
      <4> QED
        BY <1>4, <4>1 DEF Value
    <3>3. /\ chq' \in [Sides -> Seq(Mail)]
          /\ \E m \in Mail :
                m = [tag |-> "sim.t", val |-> g] /\ chq' = [chq EXCEPT ![s] = Append(@, m)]
      BY <3>1, <3>2, Posted DEF Tags
    <3>4. PICK m \in Mail :
          m = [tag |-> "sim.t", val |-> g] /\ chq' = [chq EXCEPT ![s] = Append(@, m)]
      BY <3>3
    <3>5. s # 0 => AGOwner(e) = s
      BY <1>4, <1>9, <2>6, TheOwner DEF Sides
    <3>6. v = Share(s, k, C, H)
      BY <1>1, <1>3, <1>4, <1>9, <2>6, <3>1, <3>5 DEF Share, LenShare
    <3>7. m = Note(s, k, H)
      BY <1>1, <1>3, <2>6, <3>4 DEF Note, TagOf, Said
    <3>8. ctr' = [ctr EXCEPT ![s] = @ + Cost(k)]
      BY <2>2, <2>6, <3>1
    <3>9. ASSUME ~ sentPad[s] PROVE (\E D, F, J : Coupled(D, F, J))'
      <4>1. Made(s, k, Share(s, k, C, H)) /\ Sends(s, k) /\ ~ Sends(1 - s, k)
        BY <1>6, <2>2, <2>6, <3>6
      <4>2. NewMask(s, k, H, H) /\ ~ sentPad[s] /\ UNCHANGED sentPad
        BY <1>2, <3>9 DEF NewMask
      <4> QED
        BY <3>4, <3>7, <3>8, <4>1, <4>2, Gives
    <3> QED
      BY <3>3, <3>8, <3>9
  <2>7. CASE backend = "sim" /\ ~ GOwner(s, e)
    <3>1. /\ Fetches(s, "sim.t") /\ v = IF s = 0 THEN d ELSE LSub(Here(s), d)
          /\ ctr' = [ctr EXCEPT ![s] = @ + 1]
      BY <2>1, <2>7 DEF SharedAs, Diff
    <3>2. /\ chq' \in [Sides -> Seq(Mail)] /\ chq[1 - s] # <<>>
          /\ chq' = [chq EXCEPT ![1 - s] = Tail(@)]
      BY <3>1, Fetched
    <3>3. Here(s) = e.g[1 - s]
      BY <1>1, <1>3, <2>2, <2>7, <3>2, Heard DEF Said
    <3>4. s # 0 => AGOwner(e) = 1 - s
      BY <1>4, <1>9, <2>7, TheOwner DEF Sides
    <3>5. v = Share(s, k, C, H)
      BY <1>1, <1>3, <1>4, <1>9, <2>7, <3>1, <3>3, <3>4 DEF Share, LenShare
    <3>6. ctr' = [ctr EXCEPT ![s] = @ + Cost(k)]
      BY <2>2, <2>7, <3>1
    <3>7. ~ sentPad[s] => (\E D, F, J : Coupled(D, F, J))'
      BY <1>6, <2>2, <2>3, <2>7, <3>2, <3>5, <3>6, Takes
    <3> QED
      BY <3>2, <3>6, <3>7
  <2> QED
    BY <1>4, <2>4, <2>5, <2>6, <2>7
<1> QED
  BY <1>8, <1>9

LEMMA SegStart ==
    ASSUME SegInit
    PROVE  SegInv
<1>1. /\ backend \in {"ot", "sim"} /\ parts \in Templates
      /\ \A s \in Sides : /\ bytes[s] = <<>> /\ lens[s] = <<>> /\ chq[s] = <<>>
                          /\ ~ sentPad[s] /\ ctr[s] = 0
  BY DEF SegInit
<1>2. SegTyped
  <2>1. Len(parts) \in Nat
    BY <1>1, LegalParts
  <2>2. /\ bytes \in [Sides -> Seq(Seq({0, 1}))] /\ lens \in [Sides -> Seq(Nat)]
        /\ sentPad \in [Sides -> BOOLEAN]
        /\ chq \in [Sides -> Seq(Mail)] /\ ctr \in [Sides -> Nat]
    BY DEF SegInit
  <2>3. \A s \in Sides : Len(bytes[s]) = 0 /\ Len(lens[s]) = 0
    BY <1>1
  <2> QED
    BY <1>1, <2>1, <2>2, <2>3 DEF SegTyped
<1>3. \A s \in Sides : At(s) = 0 /\ SentTo(s) = 0
  <2>1. \A s \in Sides : Len(bytes[s]) = 0 /\ Len(lens[s]) = 0
    BY <1>1
  <2>2. \A s \in Sides : At(s) = 0
    <3>1. ASSUME NEW s \in Sides PROVE At(s) = 0
      <4>1. PICK n, m : n = Len(bytes[s]) /\ m = Len(lens[s])
        OBVIOUS
      <4>2. n = 0 /\ m = 0
        BY <2>1, <4>1
      <4>3. At(s) = n + m
        BY <4>1 DEF At
      <4> QED
        BY <4>2, <4>3
    <3> QED
      BY <3>1
  <2> QED
    BY <1>1, <2>2 DEF SentTo
<1>4. PICK C, H, W :
        /\ C = [n \in Nat |-> 0] /\ W = [s \in Sides |-> <<>>]
        /\ H = [k \in Nat |-> IF OfBytes(k) THEN [i \in 1 .. Item(k).h |-> 0] ELSE 0]
  OBVIOUS
<1>5. C \in [Nat -> Nat] /\ DOMAIN H = Nat /\ H = [k \in Nat |-> H[k]]
  BY <1>4
<1>6. Kept(C, H) /\ Counted(C)
  <2>1. 1 .. 0 = {} /\ C[0] = 0
    BY <1>4
  <2> QED
    BY <1>1, <1>3, <2>1 DEF Kept, Counted
<1>7. Masked(H)
  <2> SUFFICES ASSUME NEW k \in Stage PROVE H[k] \in MasksAt(k)
    BY DEF Masked
  <2>1. H[k] = IF OfBytes(k) THEN [i \in 1 .. Item(k).h |-> 0] ELSE 0
    BY <1>2, <1>4, StageIs
  <2>2. [i \in 1 .. Item(k).h |-> 0] \in Texts(Item(k).h) /\ 0 \in 0 .. LenMod - 1
    BY TemplateAssumption DEF Texts
  <2> QED
    BY <2>1, <2>2 DEF MasksAt
<1>8. ASSUME NEW s \in Sides PROVE Flow(s, H, W[s])
  <2>1. W[s] = <<>> /\ chq[s] = <<>> /\ At(1 - s) = 0 /\ SentTo(s) = 0
    BY <1>1, <1>3, <1>4, Both
  <2>2. SentBy(s) \subseteq Nat
    BY <1>2, StageIs DEF SentBy
  <2>3. 1 .. 0 = {} /\ Len(<<>>) = 0 /\ <<>> \in Seq(Nat)
    OBVIOUS
  <2>4. Lists(<<>>, SentBy(s), 0, 0)
    BY <2>2, <2>3 DEF Lists
  <2> QED
    BY <2>1, <2>3, <2>4 DEF Flow
<1>9. Coupled(C, H, W)
  BY <1>5, <1>6, <1>7, <1>8 DEF Coupled
<1> QED
  BY <1>2, <1>9 DEF SegInv

LEMMA SegStep ==
    ASSUME SegInv, [SegNext]_svars
    PROVE  SegInv'
<1>1. SegTyped /\ \E C, H, W : Coupled(C, H, W)
  BY DEF SegInv
<1>2. PICK C, H, W : Coupled(C, H, W)
  BY <1>1
<1>3. CASE UNCHANGED svars
  <2>1. SegTyped'
    BY <1>1, <1>3 DEF svars, SegTyped, AtBytes, Now
  <2>2. Coupled(C, H, W)'
    <3>1. /\ \A s \in Sides : At(s)' = At(s) /\ SentTo(s)' = SentTo(s)
          /\ \A s, j : Held(s, j)' = Held(s, j)
          /\ UNCHANGED <<parts, backend>> /\ UNCHANGED <<chq, ctr>>
      BY <1>3 DEF svars, At, SentTo, Held
    <3>2. \A s : SentBy(s)' = SentBy(s)
      BY <3>1, Fixed DEF SentBy
    <3>3. /\ C \in [Nat -> Nat] /\ DOMAIN H = Nat /\ H = [k \in Nat |-> H[k]]
          /\ Kept(C, H) /\ Counted(C) /\ Masked(H)
          /\ \A s \in Sides : Flow(s, H, W[s])
      BY <1>2 DEF Coupled
    <3>4. Kept(C, H)'
      BY <3>1, <3>3, Fixed DEF Kept
    <3>5. Counted(C)'
      BY <3>1, <3>3, Fixed DEF Counted
    <3>6. Masked(H)'
      BY <3>1, <3>3, Fixed DEF Masked
    <3>7. ASSUME NEW s \in Sides PROVE Flow(s, H, W[s])'
      <4>1. At(1 - s)' = At(1 - s) /\ SentTo(s)' = SentTo(s)
        BY <3>1, Both
      <4>2. /\ \A j : Sends(s, j)' = Sends(s, j)
            /\ \A j : Note(s, j, H)' = Note(s, j, H)
        BY <3>1, Fixed
      <4> QED
        BY <3>1, <3>2, <3>3, <4>1, <4>2 DEF Flow
    <3> QED
      BY <3>3, <3>4, <3>5, <3>6, <3>7 DEF Coupled
  <2> QED
    BY <2>1, <2>2 DEF SegInv
<1>4. ASSUME NEW s \in Sides, Makes(s) PROVE SegInv'
  <2>1. CASE MakeAlone(s)
    BY <1>1, <1>2, <2>1, StepAlone DEF SegInv
  <2>2. CASE MakeOwned(s)
    BY <1>1, <1>2, <2>2, StepOwned DEF SegInv
  <2>3. CASE SendPad(s)
    BY <1>1, <1>2, <2>3, StepSend DEF SegInv
  <2>4. CASE TakePad(s)
    BY <1>1, <1>2, <2>4, StepTake DEF SegInv
  <2>5. CASE MakeLen(s)
    BY <1>1, <1>2, <2>5, StepLen DEF SegInv
  <2> QED
    BY <1>4, <2>1, <2>2, <2>3, <2>4, <2>5 DEF Makes
<1> QED
  BY <1>3, <1>4 DEF SegNext

LEMMA SegAgrees ==
    ASSUME SegInv
    PROVE  SegmentsAgree
<1>1. SegTyped /\ \E C, H, W : Coupled(C, H, W)
  BY DEF SegInv
<1>2. PICK C, H, W : Coupled(C, H, W)
  BY <1>1
<1>3. C \in [Nat -> Nat] /\ Kept(C, H) /\ Masked(H)
  BY <1>2 DEF Coupled
<1>4. Len(parts) \in Nat /\ DOMAIN parts = 1 .. Len(parts) /\ 0 \in Sides /\ 1 \in Sides
  BY <1>1, LegalParts, Both DEF SegTyped, Sides
<1> SUFFICES ASSUME NEW n \in 1 .. Len(parts)
             PROVE  /\ n <= Len(bytes[0]) /\ n <= Len(bytes[1]) =>
                         BXor(bytes[0][n], bytes[1][n]) = Meant(parts[n])
                    /\ n <= Len(lens[0]) /\ n <= Len(lens[1]) =>
                         IF parts[n].theta \in PubLen
                           THEN lens[0][n] = parts[n].h /\ lens[1][n] = parts[n].h
                           ELSE (lens[0][n] + lens[1][n]) % LenMod = MeantLen(parts[n])
  BY <1>4 DEF SegmentsAgree
<1>5. n \in Nat \ {0} /\ n <= Len(parts)
  BY <1>4
<1>6. ASSUME n <= Len(bytes[0]), n <= Len(bytes[1])
      PROVE  BXor(bytes[0][n], bytes[1][n]) = Meant(parts[n])
  <2>1. PICK k : k = 2 * n - 1
    OBVIOUS
  <2>2. OfBytes(k) /\ Nth(k) = n /\ k \in Stage /\ k - 1 \in Nat
    BY <1>4, <1>5, <2>1, Halves DEF Stage
  <2>3. ASSUME NEW s \in Sides, n <= Len(bytes[s])
        PROVE  bytes[s][n] = ByteShare(s, parts[n], C[k - 1], H[k])
    <3>1. k \in 1 .. At(s)
      <4>1. PICK a, b, m : a = Len(bytes[s]) /\ b = Len(lens[s]) /\ m = At(s)
        OBVIOUS
      <4>2. /\ a \in Nat /\ b \in Nat /\ m = a + b
            /\ a = b \/ a = b + 1
            /\ n <= a
        BY <1>1, <2>3, <4>1, Counts
      <4>3. k \in 1 .. m
        BY <1>5, <2>1, <4>2
      <4> QED
        BY <4>1, <4>3
    <3>2. Held(s, k) = Share(s, k, C, H)
      BY <1>3, <3>1 DEF Kept
    <3> QED
      BY <2>2, <3>2 DEF Held, Share, Item
  <2>4. /\ bytes[0][n] = ByteShare(0, parts[n], C[k - 1], H[k])
        /\ bytes[1][n] = ByteShare(1, parts[n], C[k - 1], H[k])
    BY <1>4, <1>6, <2>3
  <2>5. C[k - 1] \in Nat /\ H[k] \in Texts(parts[n].h) /\ Legal(parts[n])
    BY <1>1, <1>3, <2>2, StageIs DEF Masked, MasksAt, Item
  <2> QED
    BY <2>4, <2>5, BytesJoin
<1>7. ASSUME n <= Len(lens[0]), n <= Len(lens[1])
      PROVE  IF parts[n].theta \in PubLen
               THEN lens[0][n] = parts[n].h /\ lens[1][n] = parts[n].h
               ELSE (lens[0][n] + lens[1][n]) % LenMod = MeantLen(parts[n])
  <2>1. PICK k : k = 2 * n
    OBVIOUS
  <2>2. ~ OfBytes(k) /\ Nth(k) = n /\ k \in Stage /\ k - 1 \in Nat
    BY <1>4, <1>5, <2>1, Halves DEF Stage
  <2>3. ASSUME NEW s \in Sides, n <= Len(lens[s])
        PROVE  lens[s][n] = LenShare(s, parts[n], C[k - 1], H[k])
    <3>1. k \in 1 .. At(s)
      <4>1. PICK a, b, m : a = Len(bytes[s]) /\ b = Len(lens[s]) /\ m = At(s)
        OBVIOUS
      <4>2. /\ a \in Nat /\ b \in Nat /\ m = a + b
            /\ a = b \/ a = b + 1
            /\ n <= b
        BY <1>1, <2>3, <4>1, Counts
      <4>3. k \in 1 .. m
        BY <1>5, <2>1, <4>2
      <4> QED
        BY <4>1, <4>3
    <3>2. Held(s, k) = Share(s, k, C, H)
      BY <1>3, <3>1 DEF Kept
    <3> QED
      BY <2>2, <3>2 DEF Held, Share, Item
  <2>4. /\ lens[0][n] = LenShare(0, parts[n], C[k - 1], H[k])
        /\ lens[1][n] = LenShare(1, parts[n], C[k - 1], H[k])
    BY <1>4, <1>7, <2>3
  <2>5. C[k - 1] \in Nat /\ H[k] \in 0 .. LenMod - 1 /\ Legal(parts[n])
    BY <1>1, <1>3, <2>2, StageIs DEF Masked, MasksAt, Item
  <2> QED
    BY <2>4, <2>5, LensJoin
<1> QED
  BY <1>6, <1>7

\* The invariant: the shares are those of the masks that were sent, the
\* counters keep step, and the messages under way are the ones of the stages
\* that only their sender is through with.
THEOREM SegShares == SegSpec => []SegInv
<1>1. SegInit => SegInv
  BY SegStart
<1>2. SegInv /\ [SegNext]_svars => SegInv'
  BY SegStep
<1> QED
  BY <1>1, <1>2, PTL DEF SegSpec

\* Whatever both parties have made of a part of a template joins to what the
\* part means, for every template, either backend and every interleaving.
THEOREM SegAgree == SegSpec => []SegmentsAgree
BY SegShares, SegAgrees, PTL

\* Side s is in a recv, for a message with the tag Wanted(s).
Awaits(s) ==
    /\ Len(lens[s]) < Len(parts)
    /\ \/ sentPad[s]
       \/ /\ AtBytes(s) /\ Now(s).theta \in {"Af", "Rf", "As", "Rs"}
          /\ ~ Owner(s, Now(s).theta)
       \/ ~ AtBytes(s) /\ Now(s).theta \notin PubLen /\ ~ GOwner(s, Now(s))
Wanted(s) == IF backend = "sim" THEN "sim.t" ELSE IF AtBytes(s) THEN "shb" ELSE "sha"
GoesOn(s) == Len(lens[s]) < Len(parts) /\ (Awaits(s) => chq[1 - s] # <<>>)

\* No recv of make_segment meets a message that is not meant for it, the two
\* threads never wait for each other, and when both are through nothing is
\* left in the channel for the operations that follow.
NeverStuck ==
    /\ \A s \in Sides :
          Awaits(s) /\ chq[1 - s] # <<>> => Head(chq[1 - s]).tag = Wanted(s)
    /\ \/ \A s \in Sides : Len(lens[s]) = Len(parts) /\ chq[s] = <<>>
       \/ \E s \in Sides : GoesOn(s)

\* A side that waits is in a stage whose message the other side sends.
LEMMA AwaitsStage ==
    ASSUME SegTyped, NEW s \in Sides, Awaits(s), NEW k, k = At(s) + 1
    PROVE  /\ k \in Stage /\ Sends(1 - s, k) /\ Wanted(s) = TagOf(k)
           /\ ~ sentPad[s] => ~ Sends(s, k)
           /\ sentPad[s] => Sends(s, k) /\ backend = "sim" /\ Item(k).theta \in SidePads
<1>1. backend \in {"ot", "sim"} /\ Len(lens[s]) < Len(parts)
  BY DEF SegTyped, Awaits
<1>2. CASE sentPad[s]
  <2>1. backend = "sim" /\ AtBytes(s) /\ Now(s).theta \in SidePads
    BY <1>2 DEF SegTyped
  <2>2. k \in Stage /\ OfBytes(k) /\ Item(k) = Now(s)
    BY <2>1, BytesNext
  <2> QED
    BY <1>2, <2>1, <2>2 DEF Sends, Wanted, TagOf
<1>3. CASE ~ sentPad[s] /\ AtBytes(s)
  <2>1. k \in Stage /\ OfBytes(k) /\ Item(k) = Now(s)
    BY <1>3, BytesNext
  <2>2. /\ Item(k).theta \notin SidePads \cup {"P"} /\ Item(k).theta \notin SidePads
        /\ ~ Owner(s, Item(k).theta) /\ Legal(Item(k))
    BY <1>3, <2>1, StageIs DEF Awaits, SidePads
  <2>3. Owner(1 - s, Item(k).theta)
    BY <2>2, OneOwner
  <2> QED
    BY <1>3, <2>1, <2>2, <2>3 DEF Sends, Wanted, TagOf
<1>4. CASE ~ sentPad[s] /\ ~ AtBytes(s)
  <2>1. Len(bytes[s]) > Len(lens[s])
    <3>1. PICK a, b : a = Len(bytes[s]) /\ b = Len(lens[s])
      OBVIOUS
    <3>2. a \in Nat /\ b \in Nat /\ (a = b \/ a = b + 1) /\ a # b
      BY <1>1, <1>4, <3>1, Counts DEF AtBytes
    <3>3. a > b
      BY <3>2
    <3> QED
      BY <3>1, <3>3
  <2>2. k \in Stage /\ ~ OfBytes(k) /\ Item(k) = Now(s)
    BY <2>1, LenNext
  <2>3. Item(k).theta \notin PubLen /\ ~ GOwner(s, Item(k)) /\ Legal(Item(k))
    BY <1>4, <2>2, StageIs DEF Awaits
  <2>4. GOwner(1 - s, Item(k))
    BY <2>3, OneOwner
  <2> QED
    BY <1>4, <2>2, <2>3, <2>4 DEF Sends, Wanted, TagOf
<1> QED
  BY <1>2, <1>3, <1>4

\* The message of a stage that its sender is through with is still there for
\* a side that is not.
LEMMA FlowThere ==
    ASSUME SegTyped, NEW t \in Sides, NEW H, NEW N, Flow(t, H, N), NEW k \in Stage,
           k = At(1 - t) + 1, Sends(t, k), k <= SentTo(t)
    PROVE  chq[t] # <<>>
<1>1. k \in SentBy(t) /\ k \in Nat /\ At(1 - t) < k
  BY StageIs, AtNat DEF SentBy
<1>2. PICK i \in 1 .. Len(N) : N[i] = k
  <2>1. Lists(N, SentBy(t), At(1 - t), SentTo(t))
    BY FlowFacts
  <2> QED
    BY <1>1, <2>1 DEF Lists
<1>3. Len(chq[t]) # 0
  BY <1>2, FlowFacts
<1> QED
  BY <1>3, EmptySeq

\* Behind the last stage nothing is under way.
LEMMA FlowOver ==
    ASSUME SegTyped, NEW t \in Sides, NEW H, NEW N, Flow(t, H, N),
           SentTo(t) <= At(1 - t)
    PROVE  chq[t] = <<>>
<1>1. Len(N) = 0
  <2> SUFFICES ASSUME Len(N) # 0 PROVE FALSE
    OBVIOUS
  <2>1. 1 \in 1 .. Len(N)
    BY FlowFacts
  <2>2. /\ At(1 - t) < N[1] /\ N[1] <= SentTo(t)
        /\ N[1] \in Nat /\ At(1 - t) \in Nat /\ SentTo(t) \in Nat
    BY <2>1, FlowFacts
  <2> QED
    BY <2>2
<1> QED
  BY <1>1, FlowFacts, EmptySeq

\* When one side waits in vain, the other one is in the same stage and does
\* not wait.
LEMMA OtherGoesOn ==
    ASSUME SegTyped, NEW C, NEW H, NEW W, Coupled(C, H, W), NEW s \in Sides,
           Len(lens[s]) < Len(parts), At(s) <= At(1 - s), ~ GoesOn(s)
    PROVE  GoesOn(1 - s)
<1>1. PICK t \in Sides : t = 1 - s
  BY Both
<1>2. PICK k, N : k = At(s) + 1 /\ N = W[t]
  OBVIOUS
<1>3. Awaits(s) /\ chq[t] = <<>> /\ s = 1 - t
  BY <1>1, Both DEF GoesOn
<1>4. /\ k \in Stage /\ Sends(t, k) /\ (~ sentPad[s] => ~ Sends(s, k))
      /\ sentPad[s] => backend = "sim" /\ Item(k).theta \in SidePads
  BY <1>1, <1>2, <1>3, AwaitsStage
<1>5. ~ (k <= SentTo(t))
  <2>1. Flow(t, H, N)
    BY <1>1, <1>2 DEF Coupled
  <2> QED
    BY <1>2, <1>3, <1>4, <2>1, FlowThere
<1>6. At(t) = At(s) /\ ~ sentPad[t] /\ k = At(t) + 1
  <2>1. At(s) \in Nat /\ At(t) \in Nat /\ At(s) <= At(t)
    BY <1>1, AtNat
  <2>2. ~ sentPad[t]
    <3> SUFFICES ASSUME sentPad[t] PROVE FALSE
      OBVIOUS
    <3>1. SentTo(t) = At(t) + 1
      BY DEF SentTo
    <3> QED
      BY <1>2, <1>5, <2>1, <3>1
  <2>3. SentTo(t) = At(t)
    BY <2>1, <2>2 DEF SentTo
  <2> QED
    BY <1>2, <1>5, <2>1, <2>2, <2>3
<1>7. Len(lens[t]) < Len(parts)
  <2>1. PICK a, b, c, d, l :
          /\ a = Len(bytes[s]) /\ b = Len(lens[s])
          /\ c = Len(bytes[t]) /\ d = Len(lens[t]) /\ l = Len(parts)
    OBVIOUS
  <2>2. /\ a \in Nat /\ b \in Nat /\ l \in Nat /\ At(s) = a + b /\ b < l
        /\ a = b \/ a = b + 1
    BY <2>1, Counts
  <2>3. c \in Nat /\ d \in Nat /\ At(t) = c + d /\ (c = d \/ c = d + 1)
    BY <2>1, Counts
  <2>4. a + b = c + d
    BY <1>6, <2>2, <2>3
  <2>5. d < l
    BY <2>2, <2>3, <2>4
  <2> QED
    BY <2>1, <2>5
<1>8. ~ Awaits(t)
  <2> SUFFICES ASSUME Awaits(t) PROVE FALSE
    OBVIOUS
  <2>1. Sends(s, k) /\ ~ Sends(t, k)
    BY <1>3, <1>6, AwaitsStage
  <2> QED
    BY <1>4, <2>1
<1> QED
  BY <1>1, <1>7, <1>8 DEF GoesOn

LEMMA SegNotStuck ==
    ASSUME SegInv
    PROVE  NeverStuck
<1>1. SegTyped /\ \E C, H, W : Coupled(C, H, W)
  BY DEF SegInv
<1>2. PICK C, H, W : Coupled(C, H, W)
  BY <1>1
<1>3. ASSUME NEW s \in Sides, Awaits(s), chq[1 - s] # <<>>
      PROVE  Head(chq[1 - s]).tag = Wanted(s)
  <2>1. PICK k : k = At(s) + 1
    OBVIOUS
  <2>2. k \in Stage /\ Sends(1 - s, k) /\ Wanted(s) = TagOf(k)
    BY <1>1, <1>3, <2>1, AwaitsStage
  <2> QED
    BY <1>1, <1>2, <1>3, <2>1, <2>2, Heard
<1>4. ASSUME NEW s \in Sides, Len(lens[s]) < Len(parts), At(s) <= At(1 - s)
      PROVE  \E t \in Sides : GoesOn(t)
  <2>1. CASE GoesOn(s)
    BY <2>1
  <2>2. CASE ~ GoesOn(s)
    BY <1>1, <1>2, <1>4, <2>2, OtherGoesOn, Both
  <2> QED
    BY <2>1, <2>2
<1>5. \A s \in Sides :
         /\ At(s) \in Nat /\ Len(lens[s]) \in Nat /\ Len(parts) \in Nat
         /\ Len(lens[s]) < Len(parts) <=> At(s) < 2 * Len(parts)
         /\ Len(lens[s]) <= Len(parts) /\ At(s) <= 2 * Len(parts)
  <2> SUFFICES ASSUME NEW s \in Sides
               PROVE  /\ At(s) \in Nat /\ Len(lens[s]) \in Nat /\ Len(parts) \in Nat
                      /\ Len(lens[s]) < Len(parts) <=> At(s) < 2 * Len(parts)
                      /\ Len(lens[s]) <= Len(parts) /\ At(s) <= 2 * Len(parts)
    OBVIOUS
  <2>1. PICK a, b, l, m :
          a = Len(bytes[s]) /\ b = Len(lens[s]) /\ l = Len(parts) /\ m = At(s)
    OBVIOUS
  <2>2. /\ a \in Nat /\ b \in Nat /\ l \in Nat /\ m = a + b
        /\ a = b \/ a = b + 1
        /\ a <= l
    BY <1>1, <2>1, Counts
  <2>3. m \in Nat /\ (b < l <=> m < 2 * l) /\ b <= l /\ m <= 2 * l
    BY <2>2
  <2> QED
    BY <2>1, <2>2, <2>3
<1>6. CASE \A s \in Sides : Len(lens[s]) = Len(parts)
  <2> SUFFICES ASSUME NEW s \in Sides PROVE chq[s] = <<>>
    BY <1>3, <1>6 DEF NeverStuck
  <2>1. Flow(s, H, W[s])
    BY <1>2 DEF Coupled
  <2>2. \A t \in Sides : At(t) = 2 * Len(parts)
    BY <1>5, <1>6
  <2>3. ~ sentPad[s]
    BY <1>1, <1>5, <1>6 DEF SegTyped, AtBytes
  <2>4. SentTo(s) <= At(1 - s)
    <3>1. SentTo(s) = At(s)
      BY <1>5, <2>3 DEF SentTo
    <3>2. At(s) = 2 * Len(parts) /\ At(1 - s) = 2 * Len(parts) /\ Len(parts) \in Nat
      BY <1>5, <2>2, Both
    <3> QED
      BY <3>1, <3>2
  <2> QED
    BY <1>1, <2>1, <2>4, FlowOver
<1>7. CASE \E s \in Sides : Len(lens[s]) # Len(parts)
  <2>1. PICK s \in Sides : Len(lens[s]) < Len(parts)
    BY <1>5, <1>7
  <2>2. PICK t \in Sides : t = 1 - s /\ s = 1 - t
    BY Both
  <2>3. At(s) \in Nat /\ At(t) \in Nat
    BY <1>5
  <2>4. CASE At(s) <= At(t)
    BY <1>3, <1>4, <2>1, <2>2, <2>4 DEF NeverStuck
  <2>5. CASE At(t) <= At(s)
    <3>1. Len(lens[t]) < Len(parts)
      BY <1>5, <2>1, <2>5
    <3> QED
      BY <1>3, <1>4, <2>2, <2>5, <3>1 DEF NeverStuck
  <2> QED
    BY <2>3, <2>4, <2>5
<1> QED
  BY <1>6, <1>7

\* The safe half of SegmentsMade, for every template, either backend and
\* every interleaving of the two threads.
THEOREM SegNeverStuck == SegSpec => []NeverStuck
BY SegShares, SegNotStuck, PTL

-----------------------------------------------------------------------------
(***************************************************************************)
(* Double dabble as i2s runs it is right for every width of the number and *)
(* every number of digits.  Powers are known by their recurrence only, so  *)
(* that they fit together (PowersFit) is part of the invariant.            *)
(***************************************************************************)
LEMMA DivMod ==
    ASSUME NEW n \in Nat, NEW b \in Nat \ {0}
    PROVE  /\ n \div b \in Nat /\ n % b \in 0 .. b - 1
           /\ n = b * (n \div b) + (n % b)
OBVIOUS

LEMMA Quotient ==
    ASSUME NEW n \in Nat, NEW b \in Nat \ {0}, NEW k \in Nat,
           NEW m \in 0 .. b - 1, n = b * k + m
    PROVE  n \div b = k /\ n % b = m
OBVIOUS

LEMMA Product ==
    ASSUME NEW c \in Nat \ {0}, NEW p \in Nat \ {0}, NEW m \in 0 .. p - 1
    PROVE  c * p \in Nat \ {0} /\ c * m \in 0 .. c * p - 1
OBVIOUS

LEMMA Regroup ==
    ASSUME NEW u \in Nat, NEW k \in Nat, NEW m \in Nat, NEW b \in Nat
    PROVE  /\ (10 * u) * k + (u * m + b) = u * (10 * k + m) + b
           /\ 2 * (u * k + m) + b = u * (2 * k) + (2 * m + b)
           /\ 2 * (u * k + m) + b = u * (2 * k + 1) + (2 * m + b - u)
OBVIOUS

LEMMA LastDigit ==
    ASSUME NEW k \in Nat, NEW y \in 0 .. 9
    PROVE  /\ (10 * k + y) % 10 = y
           /\ (2 * k + 1) % 10 = ((2 * (k % 10)) % 10) + 1
           /\ (2 * k) % 10 = (2 * (k % 10)) % 10
OBVIOUS

\* A digit that is dabbled and doubled is the last digit of its double, and
\* its bit 3 before the shift is the carry.
LEMMA DabbledDigit ==
    ASSUME NEW x \in 0 .. 9
    PROVE  /\ Dabbled(x) \in 0 .. 15
           /\ (2 * Dabbled(x)) % 16 = (2 * x) % 10
           /\ Dabbled(x) \div 8 = IF x >= 5 THEN 1 ELSE 0
BY DEF Dabbled

\* A number below twice p is a bit and a number below p.
LEMMA BitSplit ==
    ASSUME NEW p \in Nat \ {0}, NEW m \in 0 .. 2 * p - 1
    PROVE  \E b \in {0, 1}, l \in 0 .. p - 1 : m = p * b + l
<1>1. CASE m < p
  <2>1. m \in 0 .. p - 1 /\ m = p * 0 + m
    BY <1>1
  <2> QED
    BY <2>1
<1>2. CASE m >= p
  <2>1. m - p \in 0 .. p - 1 /\ m = p * 1 + (m - p)
    BY <1>2
  <2> QED
    BY <2>1
<1> QED
  BY <1>1, <1>2

\* One more bit of a number n, of which the top has been read: the bit is
\* the top one of the rest, which is kept in the top bits of a register.
LEMMA NextBit ==
    ASSUME NEW n \in Nat, NEW p \in Nat \ {0}, NEW c \in Nat \ {0}
    PROVE  /\ (n \div p) % 2 \in {0, 1}
           /\ n \div p = 2 * (n \div (2 * p)) + ((n \div p) % 2)
           /\ (2 * (c * (n % (2 * p)))) \div (c * (2 * p)) = (n \div p) % 2
           /\ (2 * (c * (n % (2 * p)))) % (c * (2 * p)) = (2 * c) * (n % p)
<1>1. PICK w, M : w = 2 * p /\ M = c * w
  OBVIOUS
<1>2. w \in Nat \ {0} /\ 2 * c \in Nat \ {0}
  BY <1>1
<1>3. PICK k \in Nat, m \in 0 .. w - 1 :
        k = n \div w /\ m = n % w /\ n = w * k + m
  <2>1. /\ n \div w \in Nat /\ n % w \in 0 .. w - 1
        /\ n = w * (n \div w) + (n % w)
    BY <1>2, DivMod
  <2> QED
    BY <2>1
<1>4. PICK b \in {0, 1}, l \in 0 .. p - 1 : m = p * b + l
  <2>1. m \in 0 .. 2 * p - 1
    BY <1>1, <1>3
  <2> QED
    BY <2>1, BitSplit
<1>5. n \div p = 2 * k + b /\ n % p = l
  <2>1. n = (2 * p) * k + (p * b + l)
    BY <1>1, <1>3, <1>4
  <2>2. (2 * p) * k + (p * b + l) = p * (2 * k + b) + l
    OBVIOUS
  <2>3. 2 * k + b \in Nat
    OBVIOUS
  <2> QED
    BY <2>1, <2>2, <2>3, Quotient
<1>6. M = (2 * c) * p /\ M \in Nat \ {0} /\ (2 * c) * l \in 0 .. M - 1
  <2>1. M = (2 * c) * p
    BY <1>1
  <2> QED
    BY <1>2, <2>1, Product
<1>7. 2 * (c * m) = M * b + (2 * c) * l
  <2>1. 2 * (c * (p * b + l)) = ((2 * c) * p) * b + (2 * c) * l
    OBVIOUS
  <2> QED
    BY <1>4, <1>6, <2>1
<1>8. 2 * (c * m) \in Nat
  <2>1. c * m \in Nat
    BY <1>3
  <2> QED
    BY <2>1
<1>9. (n \div p) % 2 = b
  <2>1. (2 * k + b) % 2 = b
    OBVIOUS
  <2> QED
    BY <1>5, <2>1
<1>10. (2 * (c * m)) \div M = b /\ (2 * (c * m)) % M = (2 * c) * l
  <2>1. ASSUME NEW x \in Nat, NEW y \in 0 .. M - 1, x = M * b + y
        PROVE  x \div M = b /\ x % M = y
    BY <1>6, <2>1, Quotient
  <2> QED
    BY <1>6, <1>7, <1>8, <2>1
<1> QED
  BY <1>1, <1>3, <1>5, <1>9, <1>10

\* A number r cut before its last digits, of weight below u, and before one
\* more: k, that digit y, and the last digits z.
Cut(r, u, w, k, m, y, z) ==
    /\ r = w * k + m /\ m = u * y + z
    /\ r \div u = 10 * k + y /\ (r \div u) % 10 = y /\ r % u = z
    /\ r \div w = k /\ r % w = m

LEMMA Parted ==
    ASSUME NEW r \in Nat, NEW u \in Nat \ {0}, NEW w, w = 10 * u
    PROVE  \E k \in Nat, m \in 0 .. w - 1, y \in 0 .. 9, z \in 0 .. u - 1 :
             Cut(r, u, w, k, m, y, z)
<1>1. w \in Nat \ {0}
  OBVIOUS
<1>2. PICK k \in Nat, m \in 0 .. w - 1 :
        k = r \div w /\ m = r % w /\ r = w * k + m
  <2>1. PICK i, j : i = r \div w /\ j = r % w
    OBVIOUS
  <2>2. i \in Nat /\ j \in 0 .. w - 1 /\ r = w * i + j
    BY <1>1, <2>1, DivMod
  <2> QED
    BY <2>1, <2>2
<1>3. PICK y \in Nat, z \in 0 .. u - 1 : m = u * y + z
  <2>1. m \in Nat
    BY <1>2
  <2> QED
    BY <2>1, DivMod
<1>4. y <= 9
  <2> SUFFICES ASSUME y >= 10 PROVE FALSE
    OBVIOUS
  <2>1. u * y >= u * 10
    BY <1>3
  <2>2. m >= w
    BY <1>3, <2>1
  <2>3. m < w
    BY <1>2
  <2> QED
    BY <2>2, <2>3, <1>1
<1>5. r \div u = 10 * k + y /\ r % u = z
  <2>1. r = u * (10 * k + y) + z
    <3>1. r = (10 * u) * k + (u * y + z)
      BY <1>2, <1>3
    <3>2. (10 * u) * k + (u * y + z) = u * (10 * k + y) + z
      BY Regroup
    <3> QED
      BY <3>1, <3>2
  <2>2. 10 * k + y \in Nat
    BY <1>2, <1>3
  <2> QED
    BY <1>3, <2>1, <2>2, Quotient
<1>6. y \in 0 .. 9 /\ (r \div u) % 10 = y
  <2>1. y \in 0 .. 9
    BY <1>3, <1>4
  <2>2. (10 * k + y) % 10 = y
    BY <1>2, <2>1, LastDigit
  <2> QED
    BY <1>5, <2>1, <2>2
<1> QED
  BY <1>2, <1>3, <1>5, <1>6 DEF Cut

\* A digit in front of another one, when the number r becomes 2 * r + b.
LEMMA DigitStep ==
    ASSUME NEW r \in Nat, NEW b \in {0, 1}, NEW u \in Nat \ {0},
           NEW w, w = 10 * u
    PROVE  ((2 * r + b) \div w) % 10
             = ((2 * ((r \div w) % 10)) % 10)
               + (IF (r \div u) % 10 >= 5 THEN 1 ELSE 0)
<1>1. w \in Nat \ {0}
  OBVIOUS
<1>2. PICK k \in Nat, m \in 0 .. w - 1, y \in 0 .. 9, z \in 0 .. u - 1 :
        /\ r = w * k + m /\ m = u * y + z
        /\ (r \div u) % 10 = y /\ r \div w = k
  <2>1. PICK k \in Nat, m \in 0 .. w - 1, y \in 0 .. 9, z \in 0 .. u - 1 :
          Cut(r, u, w, k, m, y, z)
    BY Parted
  <2> QED
    BY <2>1 DEF Cut
<1>3. CASE y >= 5
  <2>1. u * y >= u * 5 /\ u * y <= u * 9
    BY <1>2, <1>3
  <2>2. 2 * m + b - w \in 0 .. w - 1
    BY <1>2, <2>1
  <2>3. 2 * r + b = w * (2 * k + 1) + (2 * m + b - w)
    <3>1. w \in Nat /\ m \in Nat /\ b \in Nat
      BY <1>1, <1>2
    <3>2. 2 * (w * k + m) + b = w * (2 * k + 1) + (2 * m + b - w)
      BY <3>1, Regroup
    <3> QED
      BY <1>2, <3>2
  <2>4. (2 * r + b) \div w = 2 * k + 1
    <3>1. 2 * k + 1 \in Nat /\ 2 * r + b \in Nat
      BY <1>2
    <3> QED
      BY <1>1, <2>2, <2>3, <3>1, Quotient
  <2>5. (2 * k + 1) % 10 = ((2 * (k % 10)) % 10) + 1
    BY <1>2, LastDigit
  <2> QED
    BY <1>2, <1>3, <2>4, <2>5
<1>4. CASE y < 5
  <2>1. u * y <= u * 4
    BY <1>2, <1>4
  <2>2. 2 * m + b \in 0 .. w - 1
    BY <1>2, <2>1
  <2>3. 2 * r + b = w * (2 * k) + (2 * m + b)
    <3>1. w \in Nat /\ m \in Nat /\ b \in Nat
      BY <1>1, <1>2
    <3>2. 2 * (w * k + m) + b = w * (2 * k) + (2 * m + b)
      BY <3>1, Regroup
    <3> QED
      BY <1>2, <3>2
  <2>4. (2 * r + b) \div w = 2 * k
    <3>1. 2 * k \in Nat /\ 2 * r + b \in Nat
      BY <1>2
    <3> QED
      BY <1>1, <2>2, <2>3, <3>1, Quotient
  <2>5. (2 * k) % 10 = (2 * (k % 10)) % 10
    BY <1>2, LastDigit
  <2>6. (IF (r \div u) % 10 >= 5 THEN 1 ELSE 0) = 0
    BY <1>2, <1>4
  <2>7. (2 * k) % 10 \in 0 .. 9
    BY <1>2
  <2>8. ((2 * (k % 10)) % 10) + 0 = (2 * k) % 10
    BY <2>5, <2>7
  <2> QED
    BY <1>2, <2>4, <2>6, <2>8
<1> QED
  BY <1>2, <1>3, <1>4

LEMMA Powers ==
    /\ \A n \in 0 .. GK : Pow2[n] \in Nat \ {0}
    /\ \A d \in 0 .. Digits : Pow10[d] \in Nat \ {0}
BY PowAssumption

LEMMA InitInv == DabbleInit => DabbleInv
<1> SUFFICES ASSUME DabbleInit PROVE DabbleInv
  OBVIOUS
<1>1. Pow2[GK] \in Nat \ {0} /\ Pow2[0] = 1 /\ num \in 0 .. Pow2[GK] - 1
  BY Powers, PowAssumption, DabbleAssumption DEF DabbleInit
<1>2. DabbleTypeOK
  BY <1>1, DabbleAssumption DEF DabbleInit, DabbleTypeOK
<1>3. num \div Pow2[GK] = 0 /\ num % Pow2[GK] = num
  BY <1>1, Quotient
<1>4. DigitsRight
  <2> SUFFICES ASSUME NEW d \in Digit
               PROVE  bcd[d] = (Read \div Pow10[d]) % 10
    BY DEF DigitsRight
  <2>1. Pow10[d] \in Nat \ {0}
    BY Powers, DabbleAssumption DEF Digit
  <2>2. Read = 0 /\ 0 \div Pow10[d] = 0
    BY <1>3, <2>1, Quotient, DabbleAssumption DEF Read, DabbleInit
  <2> QED
    BY <2>2 DEF DabbleInit
<1>5. RestRight /\ PowersFit
  BY <1>1, <1>3, DabbleAssumption DEF DabbleInit, RestRight, PowersFit
<1> QED
  BY <1>2, <1>4, <1>5 DEF DabbleInv

LEMMA RoundInv == DabbleInv /\ DabbleRound => DabbleInv'
<1> SUFFICES ASSUME DabbleInv, DabbleRound PROVE DabbleInv'
  OBVIOUS
<1> DEFINE p == Pow2[GK - round - 1]
           c == Pow2[round]
<1>1. /\ round \in 0 .. GK - 1 /\ round' = round + 1 /\ num' = num
      /\ GK - round \in 1 .. GK /\ GK - round - 1 \in 0 .. GK - 1
      /\ GK - round' = GK - round - 1
  BY DabbleAssumption DEF DabbleInv, DabbleTypeOK, DabbleRound
<1>2. /\ p \in Nat \ {0} /\ c \in Nat \ {0} /\ Pow2[GK] \in Nat \ {0}
      /\ Pow2[GK - round] = 2 * p /\ Pow2[round'] = 2 * c
      /\ Pow2[GK] = c * (2 * p) /\ num \in Nat
  <2>1. Pow2[(GK - round - 1) + 1] = 2 * p /\ Pow2[round + 1] = 2 * c
    BY <1>1, PowAssumption
  <2> QED
    BY <1>1, <2>1, Powers, DabbleAssumption DEF DabbleInv, PowersFit, DabbleTypeOK
<1>3. gb = c * (num % (2 * p)) /\ Read = num \div (2 * p) /\ Read' = num \div p
  BY <1>1, <1>2 DEF DabbleInv, RestRight, Read
<1>4. PICK b \in {0, 1} : /\ Read' = 2 * Read + b
                          /\ TopBit(gb) = b
                          /\ Advanced(gb) = (2 * c) * (num % p)
  <2>1. num \in Nat /\ p \in Nat \ {0} /\ c \in Nat \ {0}
    BY <1>2
  <2>2. /\ (num \div p) % 2 \in {0, 1}
        /\ num \div p = 2 * (num \div (2 * p)) + ((num \div p) % 2)
        /\ (2 * (c * (num % (2 * p)))) \div (c * (2 * p)) = (num \div p) % 2
        /\ (2 * (c * (num % (2 * p)))) % (c * (2 * p)) = (2 * c) * (num % p)
    <3> HIDE DEF p, c
    <3> QED
      BY <2>1, NextBit
  <2> HIDE DEF p, c
  <2> QED
    BY <1>2, <1>3, <2>2 DEF TopBit, Advanced
<1>5. Read \in Nat
  <2>1. 2 * p \in Nat \ {0}
    BY <1>2
  <2> QED
    BY <1>2, <1>3, <2>1, DivMod
<1>6. ASSUME NEW d \in Digit
      PROVE  /\ bcd'[d] = ((Read' \div Pow10[d]) % 10)
             /\ bcd'[d] \in 0 .. 15
  <2>1. /\ d \in 0 .. Digits - 1 /\ Pow10[d] \in Nat \ {0}
        /\ bcd[d] = (Read \div Pow10[d]) % 10
        /\ Read \div Pow10[d] \in Nat
        /\ bcd[d] \in 0 .. 9
        /\ Digits \in Nat
    <3>1. d \in 0 .. Digits - 1 /\ d \in 0 .. Digits /\ Digits \in Nat
      BY DabbleAssumption DEF Digit
    <3>2. Pow10[d] \in Nat \ {0}
      BY <3>1, Powers
    <3>3. Read \div Pow10[d] \in Nat
      BY <1>5, <3>2, DivMod
    <3>4. bcd[d] = (Read \div Pow10[d]) % 10
      BY DEF DabbleInv, DigitsRight
    <3> QED
      BY <3>1, <3>2, <3>3, <3>4
  <2>2. bcd'[d] = ((2 * bcd[d]) % 10) + CarryInto(d)
    BY <2>1, DabbledDigit DEF DabbleRound
  <2>3. CASE d = 0
    <3>1. Pow10[d] = 1
      BY <2>3, PowAssumption
    <3>2. bcd[d] = Read % 10 /\ CarryInto(d) = b /\ Read' \div Pow10[d] = Read'
      BY SMTT(30), <1>4, <1>5, <2>1, <2>3, <3>1 DEF CarryInto
    <3> QED
      BY <1>4, <1>5, <2>2, <3>2
  <2>4. CASE d > 0
    <3>1. /\ d - 1 \in Digit /\ d - 1 \in 0 .. Digits - 1
          /\ Pow10[d - 1] \in Nat \ {0}
          /\ Pow10[d] = 10 * Pow10[d - 1]
      <4>1. d - 1 \in 0 .. Digits - 1 /\ (d - 1) + 1 = d
        BY <2>1, <2>4
      <4>2. Pow10[(d - 1) + 1] = 10 * Pow10[d - 1]
        BY <4>1, PowAssumption
      <4>3. d - 1 \in 0 .. Digits
        BY <2>1, <4>1
      <4>4. Pow10[d - 1] \in Nat \ {0}
        BY <4>3, Powers
      <4> QED
        BY <4>1, <4>2, <4>4 DEF Digit
    <3>2. bcd[d - 1] = (Read \div Pow10[d - 1]) % 10
      BY <3>1 DEF DabbleInv, DigitsRight
    <3>3. Read \div Pow10[d - 1] \in Nat
      BY <1>5, <3>1, DivMod
    <3>4. CarryInto(d) = IF bcd[d - 1] >= 5 THEN 1 ELSE 0
      <4>1. bcd[d - 1] \in 0 .. 9
        BY <3>2, <3>3
      <4>2. CarryInto(d) = Dabbled(bcd[d - 1]) \div 8
        BY <2>1, <2>4 DEF CarryInto
      <4> QED
        BY <4>1, <4>2, DabbledDigit
    <3>5. (Read' \div Pow10[d]) % 10
            = ((2 * ((Read \div Pow10[d]) % 10)) % 10)
              + (IF (Read \div Pow10[d - 1]) % 10 >= 5 THEN 1 ELSE 0)
      <4>1. PICK r \in Nat, u \in Nat \ {0} : r = Read /\ u = Pow10[d - 1]
        BY <1>5, <3>1
      <4>2. ((2 * r + b) \div (10 * u)) % 10
              = ((2 * ((r \div (10 * u)) % 10)) % 10)
                + (IF (r \div u) % 10 >= 5 THEN 1 ELSE 0)
        BY DigitStep
      <4> QED
        BY <1>4, <3>1, <4>1, <4>2
    <3> QED
      BY <2>1, <2>2, <3>2, <3>4, <3>5
  <2> QED
    BY <2>1, <2>3, <2>4
<1>7. DigitsRight' /\ bcd' \in [Digit -> 0 .. 15]
  BY <1>6 DEF DigitsRight, DabbleRound
<1>8. RestRight' /\ PowersFit'
  <2>1. gb' = (2 * c) * (num % p)
    BY <1>4 DEF DabbleRound
  <2> QED
    BY <1>1, <1>2, <2>1 DEF RestRight, PowersFit
<1>9. gb' \in 0 .. Pow2[GK] - 1
  <2>1. gb \in Nat
    BY <1>2 DEF DabbleInv, DabbleTypeOK
  <2>2. 2 * gb \in Nat
    BY <2>1
  <2>3. (2 * gb) % Pow2[GK] \in 0 .. Pow2[GK] - 1
    BY <1>2, <2>2, DivMod
  <2> QED
    BY <2>3 DEF DabbleRound, Advanced
<1>10. num' \in 0 .. Pow2[GK] - 1 /\ round' \in 0 .. GK
  BY <1>1, DabbleAssumption DEF DabbleInv, DabbleTypeOK
<1>11. DabbleTypeOK'
  BY <1>7, <1>9, <1>10 DEF DabbleTypeOK
<1> QED
  BY <1>7, <1>8, <1>11 DEF DabbleInv

\* After every round of i2s the nibbles are the decimal digits of the bits
\* read so far, for every width and every number of digits.
THEOREM Digitwise == DabbleSpec => []DabbleInv
<1>1. DabbleInv /\ [DabbleRound]_bvars => DabbleInv'
  <2> SUFFICES ASSUME DabbleInv, [DabbleRound]_bvars PROVE DabbleInv'
    OBVIOUS
  <2>1. CASE UNCHANGED bvars
    BY <2>1 DEF bvars, DabbleInv, DabbleTypeOK, DigitsRight, RestRight, PowersFit, Read
  <2> QED
    BY <2>1, RoundInv
<1> QED
  BY <1>1, InitInv, PTL DEF DabbleSpec

\* What i2s returns is the decimal form of the number, modulo 10^Digits.
THEOREM DecimalForm == DabbleSpec => []DecimalOut
<1>1. DabbleInv => DecimalOut
  <2> SUFFICES ASSUME DabbleInv, round = GK, NEW n \in 1 .. Digits
               PROVE  Printed[n] = (num \div Pow10[Digits - n]) % 10
    BY DEF DecimalOut
  <2>1. Digits - n \in Digit /\ Printed[n] = bcd[Digits - n]
    BY DabbleAssumption DEF Digit, Printed
  <2>2. Read = num
    BY PowAssumption, DabbleAssumption DEF Read, DabbleInv, DabbleTypeOK
  <2> QED
    BY <2>1, <2>2 DEF DabbleInv, DigitsRight
<1> QED
  BY <1>1, Digitwise, PTL

-----------------------------------------------------------------------------
(***************************************************************************)
(* The register.  Its value is a recursive function of the digits, so that *)
(* it is the last digits of what has been read is shown for the least      *)
(* number of digits that could refute it.                                  *)
(***************************************************************************)
LEMMA Least ==
    ASSUME NEW T, T \subseteq Nat, T # {}
    PROVE  \E n \in T : \A k \in T : n <= k
<1> DEFINE R == OpToRel(<, Nat)
<1>1. IsWellFoundedOn(R, Nat)
  BY NatLessThanWellFounded
<1>2. \A i \in Nat, j \in Nat : <<j, i>> \in R <=> j < i
  BY DEF OpToRel
<1>3. PICK n \in T : \A j \in T : ~ (<<j, n>> \in R)
  <2> HIDE DEF R
  <2> QED
    BY <1>1, WFMin
<1>4. ASSUME NEW k \in T PROVE n <= k
  <2>1. ~ (k < n)
    <3> HIDE DEF R
    <3> QED
      BY <1>2, <1>3
  <2> QED
    BY <2>1
<1> QED
  BY <1>4

\* The last digits of a number are one digit and the digits behind it.
LEMMA OneMore ==
    ASSUME NEW r \in Nat, NEW u \in Nat \ {0}, NEW w, w = 10 * u
    PROVE  r % w = (r % u) + (((r \div u) % 10) * u)
<1>1. PICK k \in Nat, m \in 0 .. w - 1, y \in 0 .. 9, z \in 0 .. u - 1 :
        Cut(r, u, w, k, m, y, z)
  BY Parted
<1>2. m = u * y + z /\ (r \div u) % 10 = y /\ r % u = z /\ r % w = m
  BY <1>1 DEF Cut
<1>3. u * y + z = z + (y * u)
  OBVIOUS
<1> QED
  BY <1>2, <1>3

\* Doubling the last digits is doubling the number.
LEMMA DoubleLast ==
    ASSUME NEW r \in Nat, NEW b \in {0, 1}, NEW w \in Nat \ {0}
    PROVE  (2 * r + b) % w = (2 * (r % w) + b) % w
<1>1. PICK k \in Nat, m \in 0 .. w - 1 : r = w * k + m /\ r % w = m
  BY DivMod
<1>2. PICK q \in Nat, s \in 0 .. w - 1 :
        2 * m + b = w * q + s /\ (2 * m + b) % w = s
  <2>1. 2 * m + b \in Nat
    OBVIOUS
  <2> QED
    BY <2>1, DivMod
<1>3. 2 * r + b = w * (2 * k + q) + s
  <2>1. 2 * (w * k + m) + b = w * (2 * k) + (2 * m + b)
    OBVIOUS
  <2>2. w * (2 * k) + (w * q + s) = w * (2 * k + q) + s
    OBVIOUS
  <2> QED
    BY <1>1, <1>2, <2>1, <2>2
<1>4. (2 * r + b) % w = s
  <2>1. 2 * k + q \in Nat /\ 2 * r + b \in Nat
    OBVIOUS
  <2> QED
    BY <1>3, <2>1, Quotient
<1> QED
  BY <1>1, <1>2, <1>4

\* The nibbles are the last digits of what has been read.
LEMMA WrittenIs ==
    ASSUME DabbleInv
    PROVE  Read \in Nat /\ Written = Read % Pow10[Digits]
<1> DEFINE Ok(f) == f = [d \in 0 .. Digits |->
                           IF d = 0 THEN 0
                           ELSE f[d - 1] + (bcd[d - 1] * Pow10[d - 1])]
           below == CHOOSE f : Ok(f)
           sums == [d \in 0 .. Digits |-> Read % Pow10[d]]
<1>1. Written = below[Digits]
  BY DEF Written
<1>2. Read \in Nat
  <2>1. /\ num \in Nat /\ GK - round \in 0 .. GK
    BY Powers, DabbleAssumption DEF DabbleInv, DabbleTypeOK
  <2>2. Pow2[GK - round] \in Nat \ {0}
    BY <2>1, Powers
  <2> QED
    BY <2>1, <2>2, DivMod DEF Read
<1>3. Read % Pow10[0] = 0
  BY <1>2, PowAssumption
<1>4. ASSUME NEW d \in 1 .. Digits
      PROVE  Read % Pow10[d] = (Read % Pow10[d - 1]) + (bcd[d - 1] * Pow10[d - 1])
  <2>1. d - 1 \in 0 .. Digits - 1 /\ d - 1 \in 0 .. Digits /\ (d - 1) + 1 = d
    BY DabbleAssumption
  <2>2. Pow10[(d - 1) + 1] = 10 * Pow10[d - 1] /\ Pow10[d - 1] \in Nat \ {0}
    BY <2>1, PowAssumption, Powers
  <2>3. bcd[d - 1] = (Read \div Pow10[d - 1]) % 10
    BY <2>1 DEF DabbleInv, DigitsRight, Digit
  <2>4. Pow10[d] = 10 * Pow10[d - 1]
    BY <2>1, <2>2
  <2>5. ASSUME NEW r, r = Read, NEW u, u = Pow10[d - 1], NEW w, w = Pow10[d]
        PROVE  r % w = (r % u) + (((r \div u) % 10) * u)
    <3>1. r \in Nat /\ u \in Nat \ {0} /\ w = 10 * u
      BY <1>2, <2>2, <2>4, <2>5
    <3> QED
      BY ONLY <3>1, OneMore
  <2> QED
    BY <2>3, <2>5
<1>5. Ok(sums)
  <2>1. ASSUME NEW d \in 0 .. Digits
        PROVE  sums[d] = IF d = 0 THEN 0
                         ELSE sums[d - 1] + (bcd[d - 1] * Pow10[d - 1])
    <3>1. CASE d = 0
      BY <1>3, <3>1
    <3>2. CASE d # 0
      <4>1. d \in 1 .. Digits /\ d - 1 \in 0 .. Digits
        BY <3>2, DabbleAssumption
      <4> QED
        BY <1>4, <3>2, <4>1
    <3> QED
      BY <3>1, <3>2
  <2> QED
    BY <2>1
<1>6. Ok(below)
  <2> HIDE DEF sums, Ok
  <2> QED
    BY <1>5
<1>7. /\ below[0] = 0
      /\ \A d \in 1 .. Digits :
           below[d] = below[d - 1] + (bcd[d - 1] * Pow10[d - 1])
  <2> HIDE DEF below
  <2> QED
    BY <1>6, DabbleAssumption
<1>8. \A d \in 0 .. Digits : below[d] = Read % Pow10[d]
  <2> HIDE DEF below, sums, Ok
  <2> DEFINE T == {d \in 0 .. Digits : below[d] # Read % Pow10[d]}
  <2> SUFFICES ASSUME T # {} PROVE FALSE
    OBVIOUS
  <2>1. PICK d \in T : \A k \in T : d <= k
    <3>1. T \subseteq Nat
      BY DabbleAssumption
    <3> HIDE DEF T
    <3> QED
      BY <3>1, Least
  <2>2. d \in 1 .. Digits
    BY <1>3, <1>7, DabbleAssumption
  <2>3. d - 1 \in 0 .. Digits /\ d - 1 \notin T
    BY <2>1, <2>2, DabbleAssumption
  <2>4. below[d - 1] = Read % Pow10[d - 1]
    BY <2>3
  <2> QED
    BY <1>4, <1>7, <2>2, <2>4
<1> QED
  <2> HIDE DEF below, sums, Ok
  <2> QED
    BY <1>1, <1>2, <1>8, DabbleAssumption

\* A round reads the next bit of the number.
LEMMA ReadNext ==
    ASSUME DabbleInv, DabbleRound
    PROVE  /\ Register!Bit(GK - round - 1) \in {0, 1}
           /\ Read' = 2 * Read + Register!Bit(GK - round - 1)
<1> DEFINE p == Pow2[GK - round - 1]
<1>1. /\ round \in 0 .. GK - 1 /\ round' = round + 1 /\ num' = num
      /\ GK - round \in 1 .. GK /\ GK - round - 1 \in 0 .. GK - 1
      /\ GK - round - 1 \in 0 .. GK
      /\ GK - round' = GK - round - 1
  BY DabbleAssumption DEF DabbleInv, DabbleTypeOK, DabbleRound
<1>2. p \in Nat \ {0} /\ Pow2[GK - round] = 2 * p /\ num \in Nat
  <2>1. Pow2[(GK - round - 1) + 1] = 2 * p
    BY <1>1, PowAssumption
  <2>2. p \in Nat \ {0}
    BY <1>1, Powers
  <2> QED
    BY <1>1, <2>1, <2>2, Powers, DabbleAssumption DEF DabbleInv, DabbleTypeOK
<1>3. Read = num \div (2 * p) /\ Read' = num \div p
  BY <1>1, <1>2 DEF Read
<1>4. /\ (num \div p) % 2 \in {0, 1}
      /\ num \div p = 2 * (num \div (2 * p)) + ((num \div p) % 2)
  <2> HIDE DEF p
  <2>1. 1 \in Nat \ {0}
    OBVIOUS
  <2> QED
    BY <1>2, <2>1, NextBit
<1> QED
  BY <1>3, <1>4 DEF Register!Bit

LEMMA RegisterStep == DabbleInv /\ DabbleInv' /\ DabbleRound => Register!Take
<1> SUFFICES ASSUME DabbleInv, DabbleInv', DabbleRound PROVE Register!Take
  OBVIOUS
<1>1. Read \in Nat /\ Written = Read % Pow10[Digits]
  BY WrittenIs
<1>2. (Read \in Nat /\ Written = Read % Pow10[Digits])'
  BY WrittenIs, PTL
<1>3. Pow10[Digits] \in Nat \ {0}
  BY Powers, DabbleAssumption
<1>4. Written' = (2 * Written + Register!Bit(GK - round - 1)) % Pow10[Digits]
  <2> DEFINE b == Register!Bit(GK - round - 1)
             w == Pow10[Digits]
  <2>1. b \in {0, 1} /\ Read' = 2 * Read + b
    BY ReadNext
  <2>2. Written' = Read' % w
    BY <1>2
  <2> HIDE DEF b, w
  <2>3. (2 * Read + b) % w = (2 * (Read % w) + b) % w
    BY <1>1, <1>3, <2>1, DoubleLast DEF w
  <2> QED
    BY <1>1, <2>1, <2>2, <2>3 DEF w, b
<1> QED
  BY <1>4 DEF Register!Take, DabbleRound

\* i2s implements the decimal register, for every width of the number and
\* every number of digits: each round doubles what the nibbles stand for.
THEOREM IsRegister == DabbleSpec => DoublesRegister
<1>1. DabbleInit /\ DabbleInv => Register!Init
  <2> SUFFICES ASSUME DabbleInit, DabbleInv PROVE Register!Init
    OBVIOUS
  <2>1. Written = Read % Pow10[Digits]
    BY WrittenIs
  <2>2. Pow2[GK] \in Nat \ {0} /\ Pow10[Digits] \in Nat \ {0} /\ GK - 0 = GK
    BY Powers, DabbleAssumption
  <2>3. Read = 0
    <3>1. num \in 0 .. Pow2[GK] - 1 /\ round = 0
      BY DEF DabbleInit
    <3> QED
      BY <2>2, <3>1, Quotient DEF Read
  <2>4. 0 % Pow10[Digits] = 0
    BY <2>2
  <2> QED
    BY <2>1, <2>3, <2>4 DEF Register!Init, DabbleInit
<1>2. DabbleInv /\ DabbleInv' /\ [DabbleRound]_bvars
        => [Register!Take]_<<num, Written, round>>
  <2> SUFFICES ASSUME DabbleInv, DabbleInv', [DabbleRound]_bvars
               PROVE  [Register!Take]_<<num, Written, round>>
    OBVIOUS
  <2>1. CASE UNCHANGED bvars
    BY <2>1 DEF bvars, Written
  <2>2. CASE DabbleRound
    BY <2>2, RegisterStep
  <2> QED
    BY <2>1, <2>2
<1> QED
  BY <1>1, <1>2, Digitwise, PTL DEF DabbleSpec, DoublesRegister, Register!Spec

-----------------------------------------------------------------------------
(***************************************************************************)
(* Assembly.  Recursive functions and sums over an interval first.         *)
(***************************************************************************)
\* A recursive function on an interval exists: from u, by the steps F.
Unfolds(f, lo, hi, S, u, F) ==
    /\ f \in [lo .. hi -> S] /\ f[lo] = u
    /\ \A n \in lo + 1 .. hi : f[n] = F[n][f[n - 1]]

LEMMA Recursion ==
    ASSUME NEW lo \in Int, NEW hi \in Int, lo <= hi, NEW S, NEW u \in S,
           NEW F, F \in [Int -> [S -> S]]
    PROVE  \E f : Unfolds(f, lo, hi, S, u, F)
<1> DEFINE Has(d) == \E f \in [lo .. lo + d -> S] :
                        /\ f[lo] = u
                        /\ \A n \in lo + 1 .. lo + d : f[n] = F[n][f[n - 1]]
<1>1. Has(0)
  <2>1. PICK f : f = [n \in lo .. lo + 0 |-> u]
    OBVIOUS
  <2>2. f \in [lo .. lo + 0 -> S] /\ f[lo] = u
    BY <2>1
  <2> QED
    BY <2>2
<1>2. ASSUME NEW d \in Nat, Has(d) PROVE Has(d + 1)
  <2>1. PICK f \in [lo .. lo + d -> S] :
          f[lo] = u /\ \A n \in lo + 1 .. lo + d : f[n] = F[n][f[n - 1]]
    BY <1>2
  <2>2. PICK h : h = [n \in lo .. lo + (d + 1) |->
                         IF n \in lo .. lo + d THEN f[n] ELSE F[n][f[n - 1]]]
    OBVIOUS
  <2>3. \A n \in lo .. lo + d : h[n] = f[n] /\ f[n] \in S
    BY <2>1, <2>2
  <2>4. lo + (d + 1) - 1 = lo + d /\ lo + d \in lo .. lo + d /\ lo \in lo .. lo + d
    OBVIOUS
  <2>5. h[lo + (d + 1)] = F[lo + (d + 1)][f[lo + d]]
    BY <2>2, <2>4
  <2>6. F[lo + (d + 1)][f[lo + d]] \in S
    BY <2>3, <2>4
  <2>7. \A n \in lo .. lo + (d + 1) : n \in lo .. lo + d \/ n = lo + (d + 1)
    OBVIOUS
  <2>8. h \in [lo .. lo + (d + 1) -> S]
    BY <2>2, <2>3, <2>5, <2>6, <2>7
  <2>9. \A n \in lo + 1 .. lo + (d + 1) : h[n] = F[n][h[n - 1]]
    <3> SUFFICES ASSUME NEW n \in lo + 1 .. lo + (d + 1)
                 PROVE  h[n] = F[n][h[n - 1]]
      OBVIOUS
    <3>1. n - 1 \in lo .. lo + d
      OBVIOUS
    <3>2. CASE n \in lo .. lo + d
      <4>1. n \in lo + 1 .. lo + d
        BY <3>2
      <4> QED
        BY <2>1, <2>3, <3>1, <3>2, <4>1
    <3>3. CASE n = lo + (d + 1)
      BY <2>3, <2>4, <2>5, <3>1, <3>3
    <3> QED
      BY <2>7, <3>2, <3>3
  <2> QED
    BY <2>1, <2>3, <2>4, <2>8, <2>9
<1>3. \A d \in Nat : Has(d)
  <2> SUFFICES ASSUME ~ \A d \in Nat : Has(d) PROVE FALSE
    OBVIOUS
  <2> DEFINE T == {d \in Nat : ~ Has(d)}
  <2> HIDE DEF Has
  <2>1. T \subseteq Nat /\ T # {}
    OBVIOUS
  <2>2. PICK d \in T : \A k \in T : d <= k
    <3> HIDE DEF T
    <3> QED
      BY <2>1, Least
  <2>3. d \in Nat /\ d # 0 /\ d - 1 \in Nat /\ d - 1 \notin T
    BY <1>1, <2>2
  <2>4. Has((d - 1) + 1)
    BY <1>2, <2>3
  <2> QED
    BY <2>2, <2>3, <2>4
<1>4. hi - lo \in Nat /\ lo + (hi - lo) = hi
  OBVIOUS
<1>5. Has(hi - lo)
  BY <1>3, <1>4
<1> QED
  BY <1>4, <1>5 DEF Unfolds

(***************************************************************************)
(* Powers of two, and the number of rotations.                             *)
(***************************************************************************)
LEMMA Constants ==
    /\ MaxSegs \in Nat \ {0} /\ LenBits \in Nat
    /\ \A e \in Parts :
        /\ e.kind \in {"fixed", "hidden", "i2s"}
        /\ e.h \in Nat /\ e.len \in 0 .. e.h
        /\ e.kind = "i2s" => e.len = e.h /\ e.h > 0
        /\ MaxSegs * e.h < TwoTo[LenBits]
BY AssemblyAssumption

LEMMA TwoToIs ==
    /\ TwoTo \in [0 .. LenBits -> Nat] /\ TwoTo[0] = 1
    /\ \A n \in 1 .. LenBits : TwoTo[n] = 2 * TwoTo[n - 1]
<1> DEFINE F == [n \in Int |-> [m \in Nat |-> 2 * m]]
           Is(f) == f = [n \in 0 .. LenBits |-> IF n = 0 THEN 1 ELSE 2 * f[n - 1]]
<1>1. LenBits \in Nat
  BY Constants
<1>2. F \in [Int -> [Nat -> Nat]]
  OBVIOUS
<1>3. \A n \in Int, m \in Nat : F[n][m] = 2 * m
  OBVIOUS
<1>4. PICK f : Unfolds(f, 0, LenBits, Nat, 1, F)
  <2>1. 0 \in Int /\ LenBits \in Int /\ 0 <= LenBits /\ 1 \in Nat
    BY <1>1
  <2> HIDE DEF F
  <2> QED
    BY ONLY <1>2, <2>1, Recursion
<1>5. f \in [0 .. LenBits -> Nat] /\ f[0] = 1 /\ \A n \in 1 .. LenBits : f[n] = 2 * f[n - 1]
  <2>1. f \in [0 .. LenBits -> Nat] /\ f[0] = 1 /\ \A n \in 1 .. LenBits : f[n] = F[n][f[n - 1]]
    BY <1>4 DEF Unfolds
  <2>2. \A n \in 1 .. LenBits : n \in Int /\ f[n - 1] \in Nat
    BY <1>1, <2>1
  <2> HIDE DEF F
  <2> QED
    BY <1>3, <2>1, <2>2
<1>6. Is(f)
  BY <1>1, <1>5
<1>7. Is(TwoTo)
  <2>1. \E h : Is(h)
    BY <1>6
  <2> QED
    BY <2>1 DEF TwoTo
<1>8. TwoTo[0] = 1 /\ \A n \in 1 .. LenBits : TwoTo[n] = 2 * TwoTo[n - 1]
  BY <1>1, <1>7
<1>9. \A n \in 0 .. LenBits : TwoTo[n] \in Nat
  <2> SUFFICES ASSUME ~ \A n \in 0 .. LenBits : TwoTo[n] \in Nat PROVE FALSE
    OBVIOUS
  <2> DEFINE T == {n \in 0 .. LenBits : TwoTo[n] \notin Nat}
  <2>1. T \subseteq Nat /\ T # {}
    OBVIOUS
  <2>2. PICK n \in T : \A k \in T : n <= k
    <3> HIDE DEF T
    <3> QED
      BY <2>1, Least
  <2>3. n # 0
    BY <1>8
  <2>4. n \in 1 .. LenBits /\ n - 1 \in 0 .. LenBits /\ n - 1 \notin T
    BY <1>1, <2>2, <2>3
  <2>5. TwoTo[n - 1] \in Nat /\ TwoTo[n] = 2 * TwoTo[n - 1]
    BY <1>8, <2>4
  <2> QED
    BY <2>2, <2>5
<1> QED
  BY <1>7, <1>8, <1>9

\* A left part and the one behind it are rotated by as many bits as the
\* distances need.
LEMMA LevelsIs ==
    ASSUME NEW n \in Nat, 0 < n, n < TwoTo[LenBits]
    PROVE  /\ Levels[n] \in 0 .. LenBits /\ TwoTo[Levels[n]] \in Nat
           /\ n <= TwoTo[Levels[n]] /\ Levels[n] \in Nat
<1> DEFINE S == {k \in 0 .. LenBits : TwoTo[k] >= n}
<1>1. LenBits \in Nat /\ TwoTo \in [0 .. LenBits -> Nat] /\ TwoTo[0] = 1
  BY Constants, TwoToIs
<1>2. LenBits \in S
  BY <1>1
<1>3. PICK m \in S : \A k \in S : m <= k
  <2>1. S \subseteq Nat /\ S # {}
    BY <1>2
  <2> HIDE DEF S
  <2> QED
    BY <2>1, Least
<1>4. CeilLog2(n) = Min(S)
  BY DEF CeilLog2
<1>5. Min(S) \in S
  <2> HIDE DEF S
  <2> QED
    BY <1>3 DEF Min
<1>6. PICK c \in 0 .. LenBits : c = CeilLog2(n) /\ n <= TwoTo[c]
  BY <1>1, <1>4, <1>5
<1>7. Levels[n] = Max({1, c})
  BY <1>1, <1>6 DEF Levels
<1>8. Max({1, c}) = IF c = 0 THEN 1 ELSE c
  <2>1. PICK r \in {1, c} : \A k \in {1, c} : r >= k
    BY <1>6
  <2>2. Max({1, c}) \in {1, c} /\ \A k \in {1, c} : Max({1, c}) >= k
    BY <2>1 DEF Max
  <2> QED
    BY <1>6, <2>2
<1>9. c = 0 => n = 1 /\ LenBits # 0 /\ TwoTo[1] = 2
  BY <1>1, <1>6, TwoToIs
<1> QED
  BY <1>1, <1>6, <1>7, <1>8, <1>9

\* Induction over an interval, for the numbers of a set.
LEMMA Upto ==
    ASSUME NEW lo \in Int, NEW hi \in Int, NEW T, lo <= hi => lo \in T,
           \A n \in lo .. hi : n \in T /\ n < hi => n + 1 \in T
    PROVE  \A n \in lo .. hi : n \in T
<1> SUFFICES ASSUME ~ \A n \in lo .. hi : n \in T PROVE FALSE
  OBVIOUS
<1> DEFINE U == {d \in Nat : lo + d <= hi /\ lo + d \notin T}
<1>1. U \subseteq Nat /\ U # {}
  <2>1. PICK n \in lo .. hi : n \notin T
    OBVIOUS
  <2>2. n - lo \in Nat /\ lo + (n - lo) = n /\ n <= hi
    OBVIOUS
  <2>3. n - lo \in U
    BY <2>1, <2>2
  <2> QED
    BY <2>3
<1>2. PICK d \in U : \A k \in U : d <= k
  <2> HIDE DEF U
  <2> QED
    BY <1>1, Least
<1>3. d # 0 /\ d \in Nat /\ lo + d <= hi /\ lo + d \notin T
  OBVIOUS
<1>4. d - 1 \in Nat /\ d - 1 \notin U
  BY <1>2, <1>3
<1>5. lo + (d - 1) \in lo .. hi /\ lo + (d - 1) \in T /\ lo + (d - 1) < hi
  BY <1>3, <1>4
<1>6. (lo + (d - 1)) + 1 \in T
  BY <1>5
<1> QED
  BY <1>3, <1>6

(***************************************************************************)
(* Heights of ranges.                                                      *)
(***************************************************************************)
Template == tmpl \in Seq(Parts) /\ L \in 1 .. MaxSegs

LEMMA Heights ==
    ASSUME Template
    PROVE  /\ L \in Nat \ {0} /\ L <= MaxSegs
           /\ \A n \in 1 .. L : tmpl[n] \in Parts /\ tmpl[n].h \in Nat
<1>1. \A n \in 1 .. L : tmpl[n] \in Parts
  BY ElementOfSeq DEF Template, L
<1> QED
  BY <1>1, Constants DEF Template

Sums(f, i, j) == f = [n \in i - 1 .. j |-> IF n < i THEN 0 ELSE f[n - 1] + tmpl[n].h]

LEMMA SumsThere ==
    ASSUME Template, NEW i \in 1 .. L, NEW j \in i .. L
    PROVE  \E f : Sums(f, i, j)
<1> DEFINE F == [n \in Int |-> [m \in Nat |-> m + IF n \in 1 .. L THEN tmpl[n].h ELSE 0]]
<1>1. L \in Nat /\ \A n \in 1 .. L : tmpl[n].h \in Nat
  BY Heights
<1>2. F \in [Int -> [Nat -> Nat]]
  BY <1>1
<1>3. \A n \in 1 .. L, m \in Nat : F[n][m] = m + tmpl[n].h
  BY <1>1
<1>4. PICK f : Unfolds(f, i - 1, j, Nat, 0, F)
  <2>1. i - 1 \in Int /\ j \in Int /\ i - 1 <= j /\ 0 \in Nat
    BY <1>1
  <2> HIDE DEF F
  <2> QED
    BY ONLY <1>2, <2>1, Recursion
<1>5. /\ f = [n \in i - 1 .. j |-> f[n]] /\ f[i - 1] = 0
      /\ \A n \in i .. j : f[n] = f[n - 1] + tmpl[n].h
  <2> HIDE DEF F
  <2>1. (i - 1) + 1 = i
    BY <1>1
  <2>2. /\ f \in [i - 1 .. j -> Nat] /\ f[i - 1] = 0
        /\ \A n \in i .. j : f[n] = F[n][f[n - 1]]
    BY <1>4, <2>1 DEF Unfolds
  <2>3. \A n \in i .. j : n \in 1 .. L /\ f[n - 1] \in Nat
    BY <1>1, <2>2
  <2> QED
    BY <1>3, <2>2, <2>3
<1>6. \A n \in i - 1 .. j : IF n < i THEN n = i - 1 ELSE n \in i .. j
  BY <1>1
<1>7. f = [n \in i - 1 .. j |-> IF n < i THEN 0 ELSE f[n - 1] + tmpl[n].h]
  BY <1>5, <1>6
<1> QED
  BY <1>7 DEF Sums

LEMMA SumsAre ==
    ASSUME Template, NEW i \in 1 .. L, NEW j \in i .. L, NEW f, Sums(f, i, j)
    PROVE  /\ f[i - 1] = 0
           /\ \A n \in i .. j : f[n] = f[n - 1] + tmpl[n].h /\ n - 1 \in i - 1 .. j
<1>1. f = [n \in i - 1 .. j |-> IF n < i THEN 0 ELSE f[n - 1] + tmpl[n].h]
  BY DEF Sums
<1>2. i \in Int /\ j \in Int /\ i - 1 < i /\ i - 1 \in i - 1 .. j
      /\ \A n \in i .. j : n \in i - 1 .. j /\ ~ n < i /\ n - 1 \in i - 1 .. j
  BY Heights
<1> QED
  BY ONLY <1>1, <1>2

LEMMA HSumIs ==
    ASSUME Template, NEW i \in 1 .. L, NEW j \in i .. L
    PROVE  \E f : Sums(f, i, j) /\ HSum(i, j) = f[j]
<1>1. \E f : f = [n \in i - 1 .. j |-> IF n < i THEN 0 ELSE f[n - 1] + tmpl[n].h]
  BY SumsThere DEF Sums
<1> QED
  BY <1>1 DEF Sums, HSum

\* Sums on a range and on a longer one are the same.
LEMMA SumsOnce ==
    ASSUME Template, NEW i \in 1 .. L, NEW j \in i .. L, NEW k \in i .. j,
           NEW f, NEW g, Sums(f, i, j), Sums(g, i, k)
    PROVE  f[k] = g[k]
<1> DEFINE T == {n \in i - 1 .. k : f[n] = g[n]}
<1>1. i \in Int /\ j \in Int /\ k \in Int /\ i - 1 \in Int /\ k \in i .. L
  BY Heights
<1>2. i - 1 \in T
  BY <1>1, SumsAre
<1>3. ASSUME NEW n \in i - 1 .. k, n \in T, n < k PROVE n + 1 \in T
  <2>1. n + 1 \in i .. j /\ n + 1 \in i .. k /\ (n + 1) - 1 = n /\ n + 1 \in i - 1 .. k
    BY <1>1, <1>3
  <2>2. f[n + 1] = f[n] + tmpl[n + 1].h /\ g[n + 1] = g[n] + tmpl[n + 1].h
    BY <1>1, <2>1, SumsAre
  <2> QED
    BY <1>3, <2>1, <2>2
<1>4. \A n \in i - 1 .. k : n \in T
  <2> HIDE DEF T
  <2> QED
    BY <1>1, <1>2, <1>3, Upto
<1>5. k \in i - 1 .. k
  BY <1>1
<1> QED
  BY <1>4, <1>5

LEMMA HSumSteps ==
    ASSUME Template, NEW i \in 1 .. L
    PROVE  /\ HSum(i, i) = tmpl[i].h
           /\ \A j \in i .. L : j < L => HSum(i, j + 1) = HSum(i, j) + tmpl[j + 1].h
<1>1. i \in Int /\ L \in Int /\ \A n \in 1 .. L : tmpl[n].h \in Nat
  BY Heights
<1>2. HSum(i, i) = tmpl[i].h
  <2>1. i \in i .. L /\ i \in i .. i
    BY <1>1
  <2>2. PICK f : Sums(f, i, i) /\ HSum(i, i) = f[i]
    BY <2>1, HSumIs
  <2>3. f[i] = 0 + tmpl[i].h
    BY <2>1, <2>2, SumsAre
  <2> QED
    BY <1>1, <2>2, <2>3
<1>3. ASSUME NEW j \in i .. L, j < L PROVE HSum(i, j + 1) = HSum(i, j) + tmpl[j + 1].h
  <2>1. j + 1 \in i .. L /\ j + 1 \in i .. j + 1 /\ (j + 1) - 1 = j /\ j \in i .. j + 1
    BY <1>1, <1>3
  <2>2. PICK f : Sums(f, i, j + 1) /\ HSum(i, j + 1) = f[j + 1]
    BY <2>1, HSumIs
  <2>3. PICK h : Sums(h, i, j) /\ HSum(i, j) = h[j]
    BY HSumIs
  <2>4. f[j + 1] = f[j] + tmpl[j + 1].h
    BY <2>1, <2>2, SumsAre
  <2>5. f[j] = h[j]
    BY <2>1, <2>2, <2>3, SumsOnce
  <2> QED
    BY <2>2, <2>3, <2>4, <2>5
<1> QED
  BY <1>2, <1>3

LEMMA HSumNat ==
    ASSUME Template, NEW i \in 1 .. L
    PROVE  \A j \in i .. L : HSum(i, j) \in Nat
<1> DEFINE T == {j \in i .. L : HSum(i, j) \in Nat}
<1>1. i \in Int /\ L \in Int /\ i <= L /\ \A n \in 1 .. L : tmpl[n].h \in Nat
  BY Heights
<1>2. i \in T
  BY <1>1, HSumSteps
<1>3. ASSUME NEW j \in i .. L, j \in T, j < L PROVE j + 1 \in T
  <2>1. j + 1 \in i .. L /\ j + 1 \in 1 .. L
    BY <1>1, <1>3
  <2>2. HSum(i, j + 1) = HSum(i, j) + tmpl[j + 1].h
    BY <1>3, HSumSteps
  <2> QED
    BY <1>1, <1>3, <2>1, <2>2
<1>4. \A j \in i .. L : j \in T
  <2> HIDE DEF T
  <2> QED
    BY <1>1, <1>2, <1>3, Upto
<1> QED
  BY <1>4

LEMMA HSumSplit ==
    ASSUME Template, NEW i \in 1 .. L, NEW k \in i .. L, k < L
    PROVE  \A j \in k + 1 .. L : HSum(i, j) = HSum(i, k) + HSum(k + 1, j)
<1> DEFINE T == {j \in k + 1 .. L : HSum(i, j) = HSum(i, k) + HSum(k + 1, j)}
<1>1. /\ i \in Int /\ k \in Int /\ L \in Int /\ k + 1 \in 1 .. L /\ k + 1 \in k + 1 .. L
      /\ \A n \in 1 .. L : tmpl[n].h \in Nat
  BY Heights
<1>2. k + 1 \in T
  BY <1>1, HSumSteps
<1>3. ASSUME NEW j \in k + 1 .. L, j \in T, j < L PROVE j + 1 \in T
  <2>1. j + 1 \in k + 1 .. L /\ j + 1 \in 1 .. L /\ j \in i .. L
    BY <1>1, <1>3
  <2>2. /\ HSum(i, j + 1) = HSum(i, j) + tmpl[j + 1].h
        /\ HSum(k + 1, j + 1) = HSum(k + 1, j) + tmpl[j + 1].h
    BY <1>1, <1>3, <2>1, HSumSteps
  <2>3. HSum(i, k) \in Nat /\ HSum(k + 1, j) \in Nat
    BY <1>1, HSumNat
  <2> QED
    BY <1>1, <1>3, <2>1, <2>2, <2>3
<1>4. \A j \in k + 1 .. L : j \in T
  <2> HIDE DEF T
  <2> QED
    BY <1>1, <1>2, <1>3, Upto
<1> QED
  BY <1>4

LEMMA HSumPart ==
    ASSUME Template, NEW i \in 1 .. L, NEW j \in i .. L, NEW n \in i .. j
    PROVE  tmpl[n].h <= HSum(i, j)
<1>1. /\ i \in Int /\ j \in Int /\ n \in Int /\ L \in Int /\ n \in 1 .. L /\ n \in i .. L
      /\ j \in n .. L /\ \A m \in 1 .. L : tmpl[m].h \in Nat
  BY Heights
<1>2. tmpl[n].h <= HSum(i, n)
  <2>1. CASE n = i
    BY <1>1, <2>1, HSumSteps
  <2>2. CASE n # i
    <3>1. n - 1 \in i .. L /\ n - 1 < L /\ (n - 1) + 1 = n
      BY <1>1, <2>2
    <3>2. HSum(i, (n - 1) + 1) = HSum(i, n - 1) + tmpl[(n - 1) + 1].h /\ HSum(i, n - 1) \in Nat
      BY <3>1, HSumSteps, HSumNat
    <3> QED
      BY <1>1, <3>1, <3>2
  <2> QED
    BY <2>1, <2>2
<1>3. HSum(i, n) <= HSum(i, j)
  <2>1. CASE n = j
    BY <1>1, <2>1, HSumNat
  <2>2. CASE n # j
    <3>1. n < L /\ j \in n + 1 .. L /\ n + 1 \in 1 .. L
      BY <1>1, <2>2
    <3>2. HSum(i, j) = HSum(i, n) + HSum(n + 1, j)
      BY <1>1, <3>1, HSumSplit
    <3>3. HSum(i, n) \in Nat /\ HSum(n + 1, j) \in Nat
      BY <1>1, <3>1, HSumNat
    <3> QED
      BY <3>2, <3>3
  <2> QED
    BY <2>1, <2>2
<1>4. HSum(i, n) \in Nat /\ HSum(i, j) \in Nat
  BY <1>1, HSumNat
<1> QED
  BY <1>1, <1>2, <1>3, <1>4

\* All parts together are less than a shared length can count to.
LEMMA HSumBound ==
    ASSUME Template, NEW i \in 1 .. L, NEW j \in i .. L
    PROVE  HSum(i, j) < TwoTo[LenBits]
<1>1. PICK D \in Int, m \in Nat \ {0} : m = MaxSegs /\ D = TwoTo[LenBits] - 1
  BY Constants, TwoToIs
<1>2. TwoTo[LenBits] = D + 1
  BY <1>1, Constants, TwoToIs
<1>3. /\ i \in Int /\ j \in Int /\ L \in Int /\ 1 <= i /\ i <= L /\ L <= m
      /\ \A n \in 1 .. L : tmpl[n].h \in Nat /\ m * tmpl[n].h <= D
  <2>1. \A n \in 1 .. L : MaxSegs * tmpl[n].h < TwoTo[LenBits] /\ tmpl[n].h \in Nat
    BY Heights, Constants
  <2>2. \A n \in 1 .. L : m * tmpl[n].h \in Int /\ m * tmpl[n].h < D + 1
    BY <1>1, <1>2, <2>1
  <2>3. \A n \in 1 .. L : m * tmpl[n].h <= D
    BY <2>2
  <2> QED
    BY <1>1, <2>1, <2>3, Heights
<1> DEFINE T == {n \in i .. L : m * HSum(i, n) <= (n - i + 1) * D}
<1>4. i \in T
  <2>1. HSum(i, i) = tmpl[i].h /\ (i - i + 1) * D = D
    BY <1>1, <1>3, HSumSteps
  <2> QED
    BY <1>3, <2>1
<1>5. ASSUME NEW n \in i .. L, n \in T, n < L PROVE n + 1 \in T
  <2>1. PICK a \in Int, b \in Int, d \in Int : a = HSum(i, n) /\ b = tmpl[n + 1].h /\ d = n - i + 1
    <3>1. HSum(i, n) \in Int /\ n - i + 1 \in Int
      BY <1>3, HSumNat
    <3>2. tmpl[n + 1].h \in Int
      BY <1>3, <1>5
    <3> QED
      BY <3>1, <3>2
  <2>2. HSum(i, n + 1) = a + b /\ m * a <= d * D /\ m * b <= D /\ (n + 1) - i + 1 = d + 1
    BY <1>3, <1>5, <2>1, HSumSteps
  <2>3. m * (a + b) = m * a + m * b /\ (d + 1) * D = d * D + D
    BY <1>1
  <2>4. PICK u \in Int, v \in Int, w \in Int : u = m * a /\ v = m * b /\ w = d * D
    BY <1>1, <2>1
  <2>5. m * (a + b) <= (d + 1) * D
    BY <1>1, <2>2, <2>3, <2>4
  <2> QED
    BY <1>3, <1>5, <2>2, <2>5
<1>6. j \in T
  <2> HIDE DEF T
  <2> QED
    BY <1>3, <1>4, <1>5, Upto
<1>7. PICK a \in Nat, d \in Int : a = HSum(i, j) /\ d = j - i + 1
  BY <1>3, HSumNat
<1>8. m * a <= d * D /\ d <= m /\ 1 <= d
  BY <1>3, <1>6, <1>7
<1>9. 0 <= D
  BY <1>1, <1>3
<1>10. d * D <= m * D
  BY <1>1, <1>7, <1>8, <1>9
<1>11. a <= D
  <2> SUFFICES ASSUME a >= D + 1 PROVE FALSE
    BY <1>1, <1>7
  <2>1. m * a >= m * (D + 1) /\ m * (D + 1) = m * D + m
    BY <1>1, <1>7
  <2>2. PICK u \in Int, v \in Int, w \in Int : u = m * a /\ v = m * D /\ w = d * D
    BY <1>1, <1>7
  <2> QED
    BY <1>1, <1>8, <1>10, <2>1, <2>2
<1> QED
  BY <1>1, <1>2, <1>7, <1>11

(***************************************************************************)
(* The text of a range.                                                    *)
(***************************************************************************)

Row(seqs, m) == m \in Nat \ {0} /\ Len(seqs) = m /\ \A n \in 1 .. m : seqs[n] \in Seq(Nat)

Flats(f, seqs, m) == f = [n \in 1 .. m |-> IF n = 1 THEN seqs[n] ELSE f[n - 1] \o seqs[n]]

LEMMA FlatsThere ==
    ASSUME NEW seqs, NEW m, Row(seqs, m)
    PROVE  \E f : Flats(f, seqs, m)
<1> DEFINE F == [n \in Int |-> [s \in Seq(Nat) |-> IF n \in 1 .. m THEN s \o seqs[n] ELSE s]]
<1>1. m \in Nat \ {0} /\ 1 \in 1 .. m /\ \A n \in 1 .. m : seqs[n] \in Seq(Nat)
  BY DEF Row
<1>2. F \in [Int -> [Seq(Nat) -> Seq(Nat)]]
  <2>1. \A n \in 1 .. m, s \in Seq(Nat) : s \o seqs[n] \in Seq(Nat)
    BY <1>1, ConcatProperties
  <2>2. PICK S : S = Seq(Nat)
    OBVIOUS
  <2>3. \A n \in Int, s \in S : (IF n \in 1 .. m THEN s \o seqs[n] ELSE s) \in S
    BY <2>1, <2>2
  <2> QED
    BY <2>2, <2>3
<1>3. \A n \in 1 .. m, s \in Seq(Nat) : F[n][s] = s \o seqs[n]
  BY <1>1
<1>4. PICK f : Unfolds(f, 1, m, Seq(Nat), seqs[1], F)
  <2>1. 1 \in Int /\ m \in Int /\ 1 <= m /\ seqs[1] \in Seq(Nat)
    BY <1>1
  <2> HIDE DEF F
  <2> QED
    BY ONLY <1>2, <2>1, Recursion
<1>5. /\ f = [n \in 1 .. m |-> f[n]] /\ f[1] = seqs[1]
      /\ \A n \in 2 .. m : f[n] = f[n - 1] \o seqs[n]
  <2> HIDE DEF F
  <2>1. /\ f \in [1 .. m -> Seq(Nat)] /\ f[1] = seqs[1]
        /\ \A n \in 2 .. m : f[n] = F[n][f[n - 1]]
    BY <1>4 DEF Unfolds
  <2>2. \A n \in 2 .. m : n \in 1 .. m /\ f[n - 1] \in Seq(Nat)
    BY <1>1, <2>1
  <2> QED
    BY <1>3, <2>1, <2>2
<1>6. \A n \in 1 .. m : n = 1 \/ n \in 2 .. m
  BY <1>1
<1>7. f = [n \in 1 .. m |-> IF n = 1 THEN seqs[n] ELSE f[n - 1] \o seqs[n]]
  BY <1>5, <1>6
<1> QED
  BY <1>7 DEF Flats

Grows(f, seqs, m) ==
    /\ f[1] = seqs[1]
    /\ \A n \in 1 .. m : n # 1 => n - 1 \in 1 .. m /\ f[n] = f[n - 1] \o seqs[n]

LEMMA FlatsAre ==
    ASSUME NEW seqs, NEW m, Row(seqs, m), NEW f, Flats(f, seqs, m)
    PROVE  Grows(f, seqs, m)
<1>1. f = [n \in 1 .. m |-> IF n = 1 THEN seqs[n] ELSE f[n - 1] \o seqs[n]]
  BY DEF Flats
<1>2. 1 \in 1 .. m /\ \A n \in 1 .. m : n # 1 => n - 1 \in 1 .. m
  BY DEF Row
<1> QED
  BY ONLY <1>1, <1>2 DEF Grows

LEMMA FlattenIs ==
    ASSUME NEW seqs, NEW m, Row(seqs, m)
    PROVE  \E f : Flats(f, seqs, m) /\ FlattenSeq(seqs) = f[m]
<1>2. Len(seqs) = m /\ m # 0
  BY DEF Row
<1>3. PICK f : Flats(f, seqs, m)
  BY FlatsThere
<1>1. \E e : e = [n \in 1 .. Len(seqs) |-> IF n = 1 THEN seqs[n] ELSE e[n - 1] \o seqs[n]]
  BY <1>2, <1>3 DEF Flats
<1> QED
  BY <1>1, <1>2 DEF Flats, FlattenSeq

\* The text of a longer row of parts has that of the parts before the last.
LEMMA FlattenMore ==
    ASSUME NEW seqs, NEW more, NEW m, Row(seqs, m), Row(more, m + 1),
           \A n \in 1 .. m : more[n] = seqs[n]
    PROVE  FlattenSeq(more) = FlattenSeq(seqs) \o more[m + 1]
<1>1. m \in Nat \ {0}
  BY DEF Row
<1>2. PICK f : Flats(f, seqs, m) /\ FlattenSeq(seqs) = f[m]
  BY FlattenIs
<1>3. PICK h : Flats(h, more, m + 1) /\ FlattenSeq(more) = h[m + 1]
  BY FlattenIs
<1>4. /\ f[1] = seqs[1]
      /\ \A n \in 1 .. m : n # 1 => n - 1 \in 1 .. m /\ f[n] = f[n - 1] \o seqs[n]
  <2>1. Grows(f, seqs, m)
    BY <1>2, FlatsAre
  <2> QED
    BY <2>1 DEF Grows
<1>5. /\ h[1] = more[1]
      /\ \A n \in 1 .. m + 1 : n # 1 => n - 1 \in 1 .. m + 1 /\ h[n] = h[n - 1] \o more[n]
  <2>1. Grows(h, more, m + 1)
    BY <1>3, FlatsAre
  <2> QED
    BY <2>1 DEF Grows
<1> DEFINE T == {n \in 1 .. m : f[n] = h[n]}
<1>6. 1 \in T
  BY <1>1, <1>4, <1>5
<1>7. ASSUME NEW n \in 1 .. m, n \in T, n < m PROVE n + 1 \in T
  <2>1. n + 1 \in 1 .. m /\ n + 1 \in 1 .. m + 1 /\ n + 1 # 1 /\ (n + 1) - 1 = n
    BY <1>1, <1>7
  <2>2. f[n + 1] = f[n] \o seqs[n + 1]
    BY <1>4, <2>1
  <2>3. h[n + 1] = h[n] \o more[n + 1]
    BY <1>5, <2>1
  <2>4. more[n + 1] = seqs[n + 1]
    BY <2>1
  <2> QED
    BY <1>7, <2>1, <2>2, <2>3, <2>4
<1>8. f[m] = h[m]
  <2>1. \A n \in 1 .. m : n \in T
    <3>1. 1 \in Int /\ m \in Int
      BY <1>1
    <3> HIDE DEF T
    <3> QED
      BY <3>1, <1>6, <1>7, Upto
  <2> QED
    BY <1>1, <2>1
<1>9. h[m + 1] = h[m] \o more[m + 1]
  <2>1. m + 1 \in 1 .. m + 1 /\ m + 1 # 1 /\ (m + 1) - 1 = m
    BY <1>1
  <2> QED
    BY <1>5, <2>1
<1> QED
  BY <1>2, <1>3, <1>8, <1>9

LEMMA FlattenOne ==
    ASSUME NEW seqs, Row(seqs, 1)
    PROVE  FlattenSeq(seqs) = seqs[1]
<1>1. PICK f : Flats(f, seqs, 1) /\ FlattenSeq(seqs) = f[1]
  BY FlattenIs
<1> QED
  BY <1>1, FlatsAre DEF Grows

(***************************************************************************)
(* Rows of bytes: a text in a row of a capacity, padding behind it.        *)
(***************************************************************************)
Bytes(s, a) == s \in Seq(Nat) /\ Len(s) = a /\ a \in Nat /\ DOMAIN s = 1 .. a

Fill(t, h) == [n \in 1 .. h |-> IF n <= Len(t) THEN t[n] ELSE PAD]

LEMMA BytesAre ==
    ASSUME NEW s, s \in Seq(Nat)
    PROVE  Bytes(s, Len(s))
BY LenProperties DEF Bytes

LEMMA BytesOf ==
    ASSUME NEW f, NEW a, a \in Nat, f \in [1 .. a -> Nat]
    PROVE  Bytes(f, a)
<1>1. f \in Seq(Nat)
  BY SeqDef
<1>2. Len(f) \in Nat /\ DOMAIN f = 1 .. Len(f)
  BY <1>1, LenProperties
<1>3. 1 .. a = 1 .. Len(f)
  BY <1>2
<1>4. Len(f) = a
  BY <1>2, <1>3
<1> QED
  BY <1>1, <1>4 DEF Bytes

Behind(c, s, t, a, h) ==
    Bytes(c, h) /\ \A n \in 1 .. h : c[n] = IF n <= a THEN s[n] ELSE t[n - a]

LEMMA ConcatIs ==
    ASSUME NEW s, NEW t, NEW a, NEW b, Bytes(s, a), Bytes(t, b)
    PROVE  Behind(s \o t, s, t, a, a + b)
<1>1. s \in Seq(Nat) /\ t \in Seq(Nat) /\ a \in Nat /\ b \in Nat /\ Len(s) = a /\ Len(t) = b
  BY DEF Bytes
<1>2. /\ s \o t \in Seq(Nat) /\ Len(s \o t) = Len(s) + Len(t)
      /\ \A n \in 1 .. Len(s) + Len(t) :
           (s \o t)[n] = IF n <= Len(s) THEN s[n] ELSE t[n - Len(s)]
  BY <1>1, ConcatProperties
<1>3. Bytes(s \o t, Len(s \o t))
  BY <1>2, BytesAre
<1>4. Len(s \o t) = a + b
  BY <1>1, <1>2
<1> QED
  BY <1>1, <1>2, <1>3, <1>4 DEF Behind

LEMMA BytesSame ==
    ASSUME NEW s, NEW t, NEW a, Bytes(s, a), Bytes(t, a), \A n \in 1 .. a : s[n] = t[n]
    PROVE  s = t
<1>1. s \in Seq(Nat) /\ t \in Seq(Nat) /\ Len(s) = a /\ Len(t) = a
  BY DEF Bytes
<1> QED
  BY <1>1, SeqEqual

LEMMA BytesAt ==
    ASSUME NEW s, NEW a, Bytes(s, a)
    PROVE  \A n \in 1 .. a : s[n] \in Nat
<1>1. s \in Seq(Nat) /\ Len(s) = a
  BY DEF Bytes
<1> QED
  BY <1>1, ElementOfSeq

LEMMA PadsAre ==
    ASSUME NEW a, a \in Nat
    PROVE  Bytes(Pads(a), a) /\ \A n \in 1 .. a : Pads(a)[n] = PAD
<1>1. Pads(a) \in [1 .. a -> Nat] /\ \A n \in 1 .. a : Pads(a)[n] = PAD
  BY DEF Pads, PAD
<1> QED
  BY <1>1, BytesOf

Filled(f, t, g, h) ==
    Bytes(f, h) /\ \A n \in 1 .. h : f[n] = IF n <= g THEN t[n] ELSE PAD

LEMMA FillBytes ==
    ASSUME NEW t, NEW g, NEW h, Bytes(t, g), h \in Nat
    PROVE  Filled(Fill(t, h), t, g, h)
<1>1. g \in Nat /\ Len(t) = g /\ \A n \in 1 .. g : t[n] \in Nat
  BY BytesAt DEF Bytes
<1>2. \A n \in 1 .. h : Fill(t, h)[n] = IF n <= g THEN t[n] ELSE PAD
  BY <1>1 DEF Fill
<1>3. Fill(t, h) = [n \in 1 .. h |-> IF n <= g THEN t[n] ELSE PAD]
  BY <1>1 DEF Fill
<1>4. \A n \in 1 .. h : (IF n <= g THEN t[n] ELSE PAD) \in Nat
  BY <1>1 DEF PAD
<1>5. Fill(t, h) \in [1 .. h -> Nat]
  BY <1>3, <1>4
<1> QED
  BY <1>2, <1>5, BytesOf DEF Filled

LEMMA FillOnly ==
    ASSUME NEW f, NEW e, NEW t, NEW g, NEW h, Filled(f, t, g, h), Filled(e, t, g, h)
    PROVE  f = e
<1>1. Bytes(f, h) /\ Bytes(e, h) /\ \A n \in 1 .. h : f[n] = e[n]
  BY DEF Filled
<1> QED
  BY <1>1, BytesSame

LEMMA FillIs ==
    ASSUME NEW t, NEW g, NEW h, Bytes(t, g), h \in Nat, g <= h
    PROVE  t \o Pads(h - g) = Fill(t, h)
<1>1. g \in Nat /\ h - g \in Nat /\ g + (h - g) = h
  BY DEF Bytes
<1>2. Bytes(Pads(h - g), h - g) /\ \A n \in 1 .. h - g : Pads(h - g)[n] = PAD
  BY <1>1, PadsAre
<1>3. Behind(t \o Pads(h - g), t, Pads(h - g), g, h)
  <2>1. Behind(t \o Pads(h - g), t, Pads(h - g), g, g + (h - g))
    BY <1>2, ConcatIs
  <2> QED
    BY <1>1, <2>1
<1>4. ASSUME NEW n \in 1 .. h
      PROVE  (t \o Pads(h - g))[n] = IF n <= g THEN t[n] ELSE PAD
  <2>1. (t \o Pads(h - g))[n] = IF n <= g THEN t[n] ELSE Pads(h - g)[n - g]
    BY <1>3 DEF Behind
  <2>2. ~ n <= g => n - g \in 1 .. h - g
    BY <1>1
  <2> QED
    BY <1>2, <2>1, <2>2
<1>5. Filled(t \o Pads(h - g), t, g, h)
  BY <1>3, <1>4 DEF Behind, Filled
<1>6. Filled(Fill(t, h), t, g, h)
  BY FillBytes
<1> QED
  BY <1>5, <1>6, FillOnly

\* ldc: behind a text that fills its row.
LEMMA FillBehind ==
    ASSUME NEW t, NEW u, NEW g, NEW r, NEW h, Bytes(t, g), Bytes(u, r), h \in Nat
    PROVE  Fill(t, g) \o Fill(u, h) = Fill(t \o u, g + h)
<1>1. g \in Nat /\ r \in Nat /\ g + h \in Nat /\ g + r \in Nat
  BY DEF Bytes
<1>2. Filled(Fill(t, g), t, g, g) /\ Filled(Fill(u, h), u, r, h)
  BY <1>1, FillBytes
<1> DEFINE c == Fill(t, g) \o Fill(u, h)
<1>3. Behind(c, Fill(t, g), Fill(u, h), g, g + h)
  BY <1>2, ConcatIs DEF Filled
<1>4. Behind(t \o u, t, u, g, g + r)
  BY ConcatIs
<1>5. Filled(Fill(t \o u, g + h), t \o u, g + r, g + h)
  BY <1>1, <1>4, FillBytes DEF Behind
<1>6. ASSUME NEW n \in 1 .. g + h
      PROVE  c[n] = IF n <= g + r THEN (t \o u)[n] ELSE PAD
  <2>1. c[n] = IF n <= g THEN Fill(t, g)[n] ELSE Fill(u, h)[n - g]
    BY <1>3 DEF Behind
  <2>2. n <= g + r => n \in 1 .. g + r
    BY <1>1
  <2>3. n <= g + r => (t \o u)[n] = IF n <= g THEN t[n] ELSE u[n - g]
    BY <1>4, <2>2 DEF Behind
  <2>4. CASE n <= g
    <3>1. n \in 1 .. g /\ n <= g + r
      BY <1>1, <2>4
    <3>2. Fill(t, g)[n] = t[n]
      BY <1>2, <2>4, <3>1 DEF Filled
    <3> QED
      BY <2>1, <2>3, <2>4, <3>1, <3>2
  <2>5. CASE ~ n <= g
    <3>1. n - g \in 1 .. h /\ (n - g <= r <=> n <= g + r)
      BY <1>1, <2>5
    <3>2. Fill(u, h)[n - g] = IF n - g <= r THEN u[n - g] ELSE PAD
      BY <1>2, <3>1 DEF Filled
    <3> QED
      BY <2>1, <2>3, <2>5, <3>1, <3>2
  <2> QED
    BY <2>4, <2>5
<1>7. Filled(c, t \o u, g + r, g + h)
  BY <1>3, <1>6 DEF Behind, Filled
<1> QED
  BY <1>5, <1>7, FillOnly

\* shc: rotated behind a text that does not fill its row.
LEMMA FillRotated ==
    ASSUME NEW t, NEW u, NEW g, NEW r, NEW a, NEW b, NEW d, Bytes(t, g), Bytes(u, r),
           a \in Nat, b \in Nat, g <= a, r <= b, d \in Nat, d = a - g \/ b = 0
    PROVE  XorPads(Fill(t, a) \o Pads(b), RotateLeft(Pads(a) \o Fill(u, b), d)) = Fill(t \o u, a + b)
<1>1. g \in Nat /\ r \in Nat /\ a + b \in Nat /\ g + r \in Nat
  BY DEF Bytes
<1>2. /\ Filled(Fill(t, a), t, g, a) /\ Filled(Fill(u, b), u, r, b)
      /\ Bytes(Pads(a), a) /\ Bytes(Pads(b), b)
      /\ \A n \in 1 .. a : Pads(a)[n] = PAD
      /\ \A n \in 1 .. b : Pads(b)[n] = PAD
  BY <1>1, FillBytes, PadsAre
<1>3. PICK va : va = Fill(t, a) \o Pads(b)
  OBVIOUS
<1>4. PICK w : w = Pads(a) \o Fill(u, b)
  OBVIOUS
<1>5. Behind(va, Fill(t, a), Pads(b), a, a + b) /\ Behind(w, Pads(a), Fill(u, b), a, a + b)
  BY <1>2, <1>3, <1>4, ConcatIs DEF Filled
<1>6. PICK vb : vb = RotateLeft(w, d)
  OBVIOUS
<1>7. DOMAIN w = 1 .. a + b /\ Len(w) = a + b /\ DOMAIN va = 1 .. a + b
  BY <1>5 DEF Behind, Bytes
<1>8. ASSUME NEW n \in 1 .. a + b
      PROVE  va[n] = IF n <= g THEN t[n] ELSE PAD
  <2>1. va[n] = IF n <= a THEN Fill(t, a)[n] ELSE Pads(b)[n - a]
    BY <1>5 DEF Behind
  <2>2. CASE n <= a
    <3>1. n \in 1 .. a
      BY <2>2
    <3> QED
      BY <1>2, <2>1, <2>2, <3>1 DEF Filled
  <2>3. CASE ~ n <= a
    <3>1. n - a \in 1 .. b /\ ~ n <= g
      BY <1>1, <2>3
    <3> QED
      BY <1>2, <2>1, <2>3, <3>1
  <2> QED
    BY <2>2, <2>3
<1>9. ASSUME NEW n \in 1 .. a + b
      PROVE  vb[n] = IF n <= g THEN PAD ELSE IF n <= g + r THEN u[n - g] ELSE PAD
  <2>1. vb[n] = IF n + d <= a + b THEN w[n + d] ELSE PAD
    BY <1>6, <1>7 DEF RotateLeft, PAD
  <2>2. n + d \in Nat /\ 1 <= n + d
    OBVIOUS
  <2>3. n + d <= a + b => w[n + d] = IF n + d <= a THEN PAD ELSE Fill(u, b)[n + d - a]
    <3>1. SUFFICES ASSUME n + d <= a + b
                   PROVE  w[n + d] = IF n + d <= a THEN PAD ELSE Fill(u, b)[n + d - a]
      OBVIOUS
    <3>2. n + d \in 1 .. a + b
      BY <2>2, <3>1
    <3>3. w[n + d] = IF n + d <= a THEN Pads(a)[n + d] ELSE Fill(u, b)[n + d - a]
      BY <1>5, <3>2 DEF Behind
    <3>4. n + d <= a => n + d \in 1 .. a
      BY <2>2
    <3> QED
      BY <1>2, <3>3, <3>4
  <2>4. CASE b = 0
    <3>1. r = 0 /\ (n + d <= a + b => n + d <= a)
      BY <1>1, <2>4
    <3> QED
      BY <1>1, <2>1, <2>3, <3>1
  <2>5. CASE d = a - g
    <3>1. n + d <= a <=> n <= g
      BY <1>1, <2>5
    <3>2. n + d - a = n - g /\ (n + d <= a + b <=> n - g <= b) /\ (n - g <= r <=> n <= g + r)
      BY <1>1, <2>5
    <3>3. CASE n <= g
      BY <2>1, <2>3, <3>1, <3>3
    <3>4. CASE ~ n <= g /\ n - g <= b
      <4>1. n - g \in 1 .. b
        BY <1>1, <3>4
      <4>2. Fill(u, b)[n - g] = IF n - g <= r THEN u[n - g] ELSE PAD
        BY <1>2, <4>1 DEF Filled
      <4> QED
        BY <2>1, <2>3, <3>1, <3>2, <3>4, <4>2
    <3>5. CASE ~ n <= g /\ ~ n - g <= b
      <4>1. ~ n <= g + r
        BY <1>1, <3>5
      <4> QED
        BY <2>1, <3>2, <3>5, <4>1
    <3> QED
      BY <3>3, <3>4, <3>5
  <2> QED
    BY <2>4, <2>5
<1>10. PICK x : x = XorPads(va, vb)
  OBVIOUS
<1>11. Behind(t \o u, t, u, g, g + r)
  BY ConcatIs
<1>12. ASSUME NEW n \in 1 .. a + b
       PROVE  x[n] = IF n <= g + r THEN (t \o u)[n] ELSE PAD
  <2>1. x[n] = IF va[n] = PAD THEN vb[n] ELSE IF vb[n] = PAD THEN va[n] ELSE -1
    BY <1>7, <1>10 DEF XorPads
  <2>2. n <= g + r => (t \o u)[n] = IF n <= g THEN t[n] ELSE u[n - g]
    <3>1. n <= g + r => n \in 1 .. g + r
      BY <1>1
    <3> QED
      BY <1>11, <3>1 DEF Behind
  <2>3. n <= g => n <= g + r
    BY <1>1
  <2>4. x[n] = IF n <= g THEN t[n] ELSE vb[n]
    BY <1>8, <1>9, <2>1
  <2> QED
    BY <1>9, <2>2, <2>3, <2>4
<1>13. Bytes(t \o u, g + r) /\ \A n \in 1 .. g + r : (t \o u)[n] \in Nat
  BY <1>11, BytesAt DEF Behind
<1>14. Filled(x, t \o u, g + r, a + b)
  <2>1. \A n \in 1 .. a + b : x[n] \in Nat
    <3> SUFFICES ASSUME NEW n \in 1 .. a + b PROVE x[n] \in Nat
      OBVIOUS
    <3>1. n <= g + r => n \in 1 .. g + r
      BY <1>1
    <3>2. x[n] = IF n <= g + r THEN (t \o u)[n] ELSE PAD
      BY <1>12
    <3>3. n <= g + r => (t \o u)[n] \in Nat
      BY <1>13, <3>1
    <3>4. CASE n <= g + r
      BY <3>2, <3>3, <3>4
    <3>5. CASE ~ n <= g + r
      BY <3>2, <3>5 DEF PAD
    <3> QED
      BY <3>4, <3>5
  <2>2. x = [n \in 1 .. a + b |-> x[n]]
    BY <1>7, <1>10 DEF XorPads
  <2>3. x \in [1 .. a + b -> Nat]
    BY ONLY <2>1, <2>2
  <2>4. Bytes(x, a + b)
    BY <1>1, <2>3, BytesOf
  <2> QED
    BY <1>12, <2>4 DEF Filled
<1>15. Filled(Fill(t \o u, a + b), t \o u, g + r, a + b)
  BY <1>1, <1>13, FillBytes
<1>16. x = Fill(t \o u, a + b)
  BY <1>14, <1>15, FillOnly
<1> QED
  BY <1>3, <1>4, <1>6, <1>10, <1>16

(***************************************************************************)
(* The text of a range of parts.                                           *)
(***************************************************************************)
TextsOf(i, j) == [n \in 1 .. j - i + 1 |-> Text(i + n - 1)]
Joined(i, j) == FlattenSeq(TextsOf(i, j))

LEMMA TextIs ==
    ASSUME Template, NEW n \in 1 .. L
    PROVE  \E g \in 0 .. tmpl[n].h :
             /\ Bytes(Text(n), g) /\ Bytes(Content(n), tmpl[n].len)
             /\ Text(n) \o Pads(tmpl[n].h - g) = Content(n) \o Pads(tmpl[n].h - tmpl[n].len)
             /\ g = IF tmpl[n].kind = "fixed" THEN tmpl[n].h ELSE tmpl[n].len
<1>1. PICK h \in Nat, l \in Nat : l <= h /\ h = tmpl[n].h /\ l = tmpl[n].len /\ n \in Nat
  <2>1. tmpl[n] \in Parts /\ n \in Nat
    BY Heights
  <2> QED
    BY <2>1, Constants
<1>2. Bytes(Content(n), l)
  <2>1. \A m \in 1 .. l : 10 * n + m \in Nat
    BY <1>1
  <2>2. Content(n) \in [1 .. l -> Nat]
    BY <1>1, <2>1 DEF Content
  <2> QED
    BY <1>1, <2>2, BytesOf
<1>3. CASE tmpl[n].kind = "fixed"
  <2>1. h - l \in Nat /\ l + (h - l) = h /\ h - h = 0 /\ h \in 0 .. h
    BY <1>1
  <2>2. Bytes(Pads(h - l), h - l)
    BY <2>1, PadsAre
  <2>3. Text(n) = Content(n) \o Pads(h - l)
    BY <1>1, <1>3 DEF Text
  <2>4. Bytes(Text(n), l + (h - l))
    BY <1>2, <2>2, <2>3, ConcatIs DEF Behind
  <2>5. Bytes(Text(n), h)
    BY <2>1, <2>4
  <2>6. Text(n) \o Pads(0) = Text(n)
    <3>1. Text(n) \in Seq(Nat) /\ Pads(0) = << >>
      BY <2>5 DEF Bytes, Pads
    <3> QED
      BY <3>1, ConcatEmptySeq
  <2> QED
    BY <1>1, <1>2, <1>3, <2>1, <2>3, <2>5, <2>6
<1>4. CASE tmpl[n].kind # "fixed"
  <2>1. Text(n) = Content(n)
    BY <1>4 DEF Text
  <2>2. /\ l \in 0 .. h /\ Bytes(Text(n), l) /\ Bytes(Content(n), l)
        /\ Text(n) \o Pads(h - l) = Content(n) \o Pads(h - l)
        /\ l = IF tmpl[n].kind = "fixed" THEN h ELSE l
    BY <1>1, <1>2, <1>4, <2>1
  <2> QED
    BY <1>1, <2>2
<1> QED
  BY <1>3, <1>4

LEMMA RowOf ==
    ASSUME Template, NEW i \in 1 .. L, NEW j \in i .. L
    PROVE  Row(TextsOf(i, j), j - i + 1)
<1>1. i \in Int /\ j \in Int /\ L \in Int /\ j - i + 1 \in Nat \ {0}
  BY Heights
<1>2. PICK m \in Nat \ {0} : m = j - i + 1
  BY <1>1
<1>3. ASSUME NEW n \in 1 .. m PROVE Text(i + n - 1) \in Seq(Nat)
  <2>1. i + n - 1 \in 1 .. L
    BY <1>1, <1>2
  <2> QED
    BY <2>1, TextIs DEF Bytes
<1>4. TextsOf(i, j) = [n \in 1 .. m |-> Text(i + n - 1)]
  BY <1>2 DEF TextsOf
<1>5. TextsOf(i, j) \in [1 .. m -> Seq(Nat)] /\ DOMAIN TextsOf(i, j) = 1 .. m
  BY <1>3, <1>4
<1>6. Len(TextsOf(i, j)) = m
  <2>1. TextsOf(i, j) \in Seq(Seq(Nat))
    BY <1>5, SeqDef
  <2>2. Len(TextsOf(i, j)) \in Nat /\ 1 .. m = 1 .. Len(TextsOf(i, j))
    BY <1>5, <2>1, LenProperties
  <2> QED
    BY <2>2
<1>7. \A n \in 1 .. m : TextsOf(i, j)[n] \in Seq(Nat)
  BY <1>3, <1>4
<1> QED
  BY <1>2, <1>6, <1>7 DEF Row

LEMMA JoinedSteps ==
    ASSUME Template, NEW i \in 1 .. L
    PROVE  /\ Joined(i, i) = Text(i)
           /\ \A j \in i .. L : j < L => Joined(i, j + 1) = Joined(i, j) \o Text(j + 1)
<1>1. i \in Int /\ L \in Int /\ i \in i .. L
  BY Heights
<1>2. Joined(i, i) = Text(i)
  <2>1. i - i + 1 = 1 /\ i + 1 - 1 = i
    BY <1>1
  <2>2. Row(TextsOf(i, i), i - i + 1)
    BY <1>1, RowOf
  <2>3. FlattenSeq(TextsOf(i, i)) = TextsOf(i, i)[1]
    BY <2>1, <2>2, FlattenOne
  <2>4. TextsOf(i, i)[1] = Text(i + 1 - 1)
    BY <2>1 DEF TextsOf
  <2> QED
    BY <2>1, <2>3, <2>4 DEF Joined
<1>3. ASSUME NEW j \in i .. L, j < L
      PROVE  Joined(i, j + 1) = Joined(i, j) \o Text(j + 1)
  <2>1. PICK m \in Nat \ {0} : m = j - i + 1
    BY <1>1
  <2>2. j + 1 \in i .. L /\ (j + 1) - i + 1 = m + 1 /\ i + (m + 1) - 1 = j + 1
    BY <1>1, <1>3, <2>1
  <2>3. Row(TextsOf(i, j), m)
    BY <2>1, RowOf
  <2>4. Row(TextsOf(i, j + 1), m + 1)
    <3>1. Row(TextsOf(i, j + 1), (j + 1) - i + 1)
      BY <2>2, RowOf
    <3> QED
      BY <2>2, <3>1
  <2>5. TextsOf(i, j) = [n \in 1 .. m |-> Text(i + n - 1)]
    BY <2>1 DEF TextsOf
  <2>6. TextsOf(i, j + 1) = [n \in 1 .. m + 1 |-> Text(i + n - 1)]
    BY <2>2 DEF TextsOf
  <2>7. \A n \in 1 .. m : n \in 1 .. m + 1
    BY <2>1
  <2>8. \A n \in 1 .. m : TextsOf(i, j + 1)[n] = TextsOf(i, j)[n]
    BY ONLY <2>5, <2>6, <2>7
  <2>9. FlattenSeq(TextsOf(i, j + 1)) = FlattenSeq(TextsOf(i, j)) \o TextsOf(i, j + 1)[m + 1]
    BY <2>3, <2>4, <2>8, FlattenMore
  <2>10. TextsOf(i, j + 1)[m + 1] = Text(j + 1)
    <3>1. m + 1 \in 1 .. m + 1
      BY <2>1
    <3>2. TextsOf(i, j + 1)[m + 1] = Text(i + (m + 1) - 1)
      BY ONLY <2>6, <3>1
    <3> QED
      BY <2>2, <3>2
  <2> QED
    BY <2>9, <2>10 DEF Joined
<1> QED
  BY <1>2, <1>3

\* A range of parts has no longer text than the parts have room for.
LEMMA JoinedIs ==
    ASSUME Template, NEW i \in 1 .. L
    PROVE  \A j \in i .. L : \E g \in 0 .. HSum(i, j) : Bytes(Joined(i, j), g)
<1> DEFINE T == {j \in i .. L : \E g \in 0 .. HSum(i, j) : Bytes(Joined(i, j), g)}
<1>1. i \in Int /\ L \in Int /\ i \in i .. L
  BY Heights
<1>2. i \in T
  <2>1. PICK g \in 0 .. tmpl[i].h : Bytes(Text(i), g)
    BY TextIs
  <2>2. g \in 0 .. HSum(i, i) /\ Bytes(Joined(i, i), g)
    BY <2>1, JoinedSteps, HSumSteps
  <2> QED
    BY <1>1, <2>2
<1>3. ASSUME NEW j \in i .. L, j \in T, j < L PROVE j + 1 \in T
  <2>1. j + 1 \in i .. L /\ j + 1 \in 1 .. L
    BY <1>1, <1>3
  <2>2. PICK g \in 0 .. HSum(i, j) : Bytes(Joined(i, j), g)
    BY <1>3
  <2>3. PICK r \in 0 .. tmpl[j + 1].h : Bytes(Text(j + 1), r)
    BY <2>1, TextIs
  <2>4. Joined(i, j + 1) = Joined(i, j) \o Text(j + 1)
    BY <1>3, JoinedSteps
  <2>5. Behind(Joined(i, j) \o Text(j + 1), Joined(i, j), Text(j + 1), g, g + r)
    BY <2>2, <2>3, ConcatIs
  <2>6. Bytes(Joined(i, j + 1), g + r)
    BY <2>4, <2>5 DEF Behind
  <2>7. g + r \in 0 .. HSum(i, j + 1)
    <3>1. HSum(i, j + 1) = HSum(i, j) + tmpl[j + 1].h
      BY <1>3, HSumSteps
    <3>2. HSum(i, j) \in Nat /\ tmpl[j + 1].h \in Nat
      BY <2>1, HSumNat, Heights
    <3> QED
      BY <3>1, <3>2
  <2> QED
    BY <2>1, <2>6, <2>7
<1>4. \A j \in i .. L : j \in T
  <2> HIDE DEF T
  <2> QED
    BY <1>1, <1>2, <1>3, Upto
<1> QED
  BY <1>4

LEMMA JoinedSplit ==
    ASSUME Template, NEW i \in 1 .. L, NEW k \in i .. L, k < L
    PROVE  \A j \in k + 1 .. L : Joined(i, j) = Joined(i, k) \o Joined(k + 1, j)
<1> DEFINE T == {j \in k + 1 .. L : Joined(i, j) = Joined(i, k) \o Joined(k + 1, j)}
<1>1. i \in Int /\ k \in Int /\ L \in Int /\ k + 1 \in 1 .. L /\ k + 1 \in k + 1 .. L
  BY Heights
<1>2. k + 1 \in T
  <2>1. Joined(i, k + 1) = Joined(i, k) \o Text(k + 1) /\ Joined(k + 1, k + 1) = Text(k + 1)
    BY <1>1, JoinedSteps
  <2> QED
    BY <1>1, <2>1
<1>3. ASSUME NEW j \in k + 1 .. L, j \in T, j < L PROVE j + 1 \in T
  <2>1. j + 1 \in k + 1 .. L /\ j + 1 \in 1 .. L /\ j \in i .. L
    BY <1>1, <1>3
  <2>2. /\ Joined(i, j + 1) = Joined(i, j) \o Text(j + 1)
        /\ Joined(k + 1, j + 1) = Joined(k + 1, j) \o Text(j + 1)
    BY <1>1, <1>3, <2>1, JoinedSteps
  <2>3. /\ Joined(i, k) \in Seq(Nat) /\ Joined(k + 1, j) \in Seq(Nat)
        /\ Text(j + 1) \in Seq(Nat)
    <3>1. \E g : Bytes(Joined(i, k), g)
      BY JoinedIs
    <3>2. \E g : Bytes(Joined(k + 1, j), g)
      BY <1>1, JoinedIs
    <3>3. \E g : Bytes(Text(j + 1), g)
      BY <2>1, TextIs
    <3> QED
      BY <3>1, <3>2, <3>3 DEF Bytes
  <2>4. (Joined(i, k) \o Joined(k + 1, j)) \o Text(j + 1)
          = Joined(i, k) \o (Joined(k + 1, j) \o Text(j + 1))
    <3>1. PICK a \in Seq(Nat), b \in Seq(Nat), c \in Seq(Nat) :
            a = Joined(i, k) /\ b = Joined(k + 1, j) /\ c = Text(j + 1)
      BY <2>3
    <3>2. (a \o b) \o c = a \o (b \o c)
      BY ONLY ConcatAssociative, SMTT(30)
    <3> QED
      BY <3>1, <3>2
  <2>5. Joined(i, j) = Joined(i, k) \o Joined(k + 1, j)
    BY <1>3
  <2> QED
    BY <2>1, <2>2, <2>4, <2>5
<1>4. \A j \in k + 1 .. L : j \in T
  <2> HIDE DEF T
  <2> QED
    BY <1>1, <1>2, <1>3, Upto
<1> QED
  BY <1>4

(***************************************************************************)
(* What a merged range is: the texts of its parts at the front of a row of *)
(* their heights, its share of the length the length of the text, and a    *)
(* length that is public the full one.                                     *)
(***************************************************************************)
Merged(i, j, e) ==
    \E g \in 0 .. HSum(i, j) :
        /\ Bytes(Joined(i, j), g)
        /\ e.h = HSum(i, j) /\ e.g = g /\ e.s = Fill(Joined(i, j), HSum(i, j))
        /\ e.pub => g = HSum(i, j) /\ \A n \in i .. j : tmpl[n].kind = "fixed"
        /\ ~ e.pub => \E n \in i .. j : tmpl[n].kind # "fixed"

LEMMA SegmentMerged ==
    ASSUME Template, NEW n \in 1 .. L
    PROVE  Merged(n, n, Segment(n))
<1>1. PICK g \in 0 .. tmpl[n].h :
        /\ Bytes(Text(n), g) /\ Bytes(Content(n), tmpl[n].len)
        /\ Text(n) \o Pads(tmpl[n].h - g) = Content(n) \o Pads(tmpl[n].h - tmpl[n].len)
        /\ g = IF tmpl[n].kind = "fixed" THEN tmpl[n].h ELSE tmpl[n].len
  BY TextIs
<1>2. Joined(n, n) = Text(n) /\ HSum(n, n) = tmpl[n].h
  BY JoinedSteps, HSumSteps
<1>3. tmpl[n].h \in Nat /\ n \in n .. n /\ g \in Nat /\ g <= tmpl[n].h
  BY <1>1, Heights
<1>4. Text(n) \o Pads(tmpl[n].h - g) = Fill(Text(n), tmpl[n].h)
  BY <1>1, <1>3, FillIs
<1>5. /\ Segment(n).h = tmpl[n].h /\ Segment(n).g = g
      /\ Segment(n).pub = (tmpl[n].kind = "fixed")
      /\ Segment(n).s = Fill(Text(n), tmpl[n].h)
  BY <1>1, <1>4 DEF Segment
<1>6. /\ Segment(n).pub => g = tmpl[n].h /\ \A m \in n .. n : tmpl[m].kind = "fixed"
      /\ ~ Segment(n).pub => \E m \in n .. n : tmpl[m].kind # "fixed"
  <2>1. \A m \in n .. n : m = n
    BY <1>3, Heights
  <2> QED
    BY <1>1, <1>3, <1>5, <2>1
<1> QED
  BY <1>1, <1>2, <1>5, <1>6 DEF Merged

\* Numbers and texts of two neighbouring ranges and of the range of both.
Side(i, k, j, a, b, t, u, D) ==
    /\ a \in Nat /\ b \in Nat /\ D \in Nat
    /\ a = HSum(i, k) /\ b = HSum(k + 1, j) /\ a + b = HSum(i, j)
    /\ D = TwoTo[LenBits] /\ a + b < D
    /\ t = Joined(i, k) /\ u = Joined(k + 1, j) /\ t \o u = Joined(i, j)
    /\ \A n \in i .. k : n \in i .. j
    /\ \A n \in k + 1 .. j : n \in i .. j

LEMMA Neighbours ==
    ASSUME Template, NEW i \in 1 .. L, NEW k \in i .. L, k < L, NEW j \in k + 1 .. L
    PROVE  \E a, b, t, u, D : Side(i, k, j, a, b, t, u, D)
<1>1. i \in Int /\ k \in Int /\ L \in Int /\ j \in i .. L /\ k + 1 \in 1 .. L
      /\ (\A n \in i .. k : n \in i .. j) /\ (\A n \in k + 1 .. j : n \in i .. j)
  BY Heights
<1>2. HSum(i, k) \in Nat /\ HSum(k + 1, j) \in Nat /\ HSum(i, j) \in Nat
  BY <1>1, HSumNat
<1>3. HSum(i, j) = HSum(i, k) + HSum(k + 1, j)
  BY HSumSplit
<1>4. HSum(i, j) < TwoTo[LenBits] /\ TwoTo[LenBits] \in Nat
  BY <1>1, HSumBound, Constants, TwoToIs
<1>5. Joined(i, j) = Joined(i, k) \o Joined(k + 1, j)
  BY JoinedSplit
<1>6. Side(i, k, j, HSum(i, k), HSum(k + 1, j), Joined(i, k), Joined(k + 1, j), TwoTo[LenBits])
  BY <1>1, <1>2, <1>3, <1>4, <1>5 DEF Side
<1> QED
  BY <1>6

LEMMA ModSmall ==
    ASSUME NEW x \in Nat, NEW D \in Nat, x < D
    PROVE  x % D = x
OBVIOUS

LEMMA LdcMerged ==
    ASSUME Template, NEW i \in 1 .. L, NEW k \in i .. L, k < L, NEW j \in k + 1 .. L,
           NEW el, NEW er, Merged(i, k, el), Merged(k + 1, j, er), el.pub
    PROVE  Merged(i, j, LdcOf(el, er))
<1>0. PICK a, b, t, u, D : Side(i, k, j, a, b, t, u, D)
  BY Neighbours
<1>1. /\ a \in Nat /\ b \in Nat /\ D \in Nat
      /\ a = HSum(i, k) /\ b = HSum(k + 1, j) /\ a + b = HSum(i, j)
      /\ D = TwoTo[LenBits] /\ a + b < D
  BY <1>0 DEF Side
<1>2. t = Joined(i, k) /\ u = Joined(k + 1, j) /\ t \o u = Joined(i, j)
  BY <1>0 DEF Side
<1>3. Bytes(t, a) /\ el.h = a /\ el.g = a /\ el.s = Fill(t, a)
  BY <1>1, <1>2 DEF Merged
<1>4. PICK r \in Nat :
        /\ r <= b /\ Bytes(u, r)
        /\ er.h = b /\ er.g = r /\ er.s = Fill(u, b)
        /\ er.pub => r = b /\ \A n \in k + 1 .. j : tmpl[n].kind = "fixed"
        /\ ~ er.pub => \E n \in k + 1 .. j : tmpl[n].kind # "fixed"
  BY <1>1, <1>2 DEF Merged
<1>5. PICK e : e = LdcOf(el, er)
  OBVIOUS
<1>6. /\ e.s = el.s \o er.s /\ e.h = el.h + er.h /\ e.pub = er.pub
      /\ e.g = (el.g + er.g) % TwoTo[LenBits]
  BY <1>5 DEF LdcOf
<1>7. Bytes(t \o u, a + r)
  BY <1>3, <1>4, ConcatIs DEF Behind
<1>8. e.s = Fill(t \o u, a + b)
  <2>1. Fill(t, a) \o Fill(u, b) = Fill(t \o u, a + b)
    <3>1. Bytes(t, a) /\ Bytes(u, r) /\ b \in Nat
      BY <1>1, <1>3, <1>4
    <3> QED
      BY ONLY <3>1, FillBehind
  <2> QED
    BY <1>3, <1>4, <1>6, <2>1
<1>9. e.h = a + b /\ e.g = a + r /\ a + r \in 0 .. a + b
  <2>1. a + r \in Nat /\ a + r < D /\ a + r \in 0 .. a + b
    BY <1>1, <1>4
  <2>2. PICK x \in Nat : x = a + r /\ x < D
    BY <2>1
  <2>3. x % D = x
    BY <1>1, <2>2, ModSmall
  <2> QED
    BY <1>1, <1>3, <1>4, <1>6, <2>1, <2>2, <2>3
<1>10. e.pub => a + r = a + b /\ \A n \in i .. j : tmpl[n].kind = "fixed"
  <2>1. \A n \in i .. k : tmpl[n].kind = "fixed"
    BY DEF Merged
  <2>2. \A n \in i .. j : n \in i .. k \/ n \in k + 1 .. j
    BY Heights
  <2> QED
    BY <1>4, <1>6, <2>1, <2>2
<1>11. ~ e.pub => \E n \in i .. j : tmpl[n].kind # "fixed"
  BY <1>0, <1>4, <1>6 DEF Side
<1>12. Merged(i, j, e)
  BY <1>1, <1>2, <1>7, <1>8, <1>9, <1>10, <1>11 DEF Merged
<1> QED
  BY <1>5, <1>12

\* The room a hidden left range is rotated into never is more than the bits
\* of the distance count, unless there is nothing to its right.
LEMMA ShcMerged ==
    ASSUME Template, ~ NoLog, NEW i \in 1 .. L, NEW k \in i .. L, k < L, NEW j \in k + 1 .. L,
           NEW el, NEW er, Merged(i, k, el), Merged(k + 1, j, er), ~ el.pub
    PROVE  Merged(i, j, ShcOf(el, er))
<1>0. PICK a, b, t, u, D : Side(i, k, j, a, b, t, u, D)
  BY Neighbours
<1>1. /\ a \in Nat /\ b \in Nat /\ D \in Nat
      /\ a = HSum(i, k) /\ b = HSum(k + 1, j) /\ a + b = HSum(i, j)
      /\ D = TwoTo[LenBits] /\ a + b < D
  BY <1>0 DEF Side
<1>2. t = Joined(i, k) /\ u = Joined(k + 1, j) /\ t \o u = Joined(i, j)
  BY <1>0 DEF Side
<1>3. PICK g \in Nat :
        g <= a /\ Bytes(t, g) /\ el.h = a /\ el.g = g /\ el.s = Fill(t, a)
  BY <1>1, <1>2 DEF Merged
<1>4. PICK r \in Nat : r <= b /\ Bytes(u, r) /\ er.h = b /\ er.g = r /\ er.s = Fill(u, b)
  BY <1>1, <1>2 DEF Merged
<1>5. PICK m \in i .. k : tmpl[m].kind # "fixed"
  BY DEF Merged
<1>6. m \in 1 .. L /\ m \in i .. j /\ k \in 1 .. L /\ j \in 1 .. L /\ i <= k /\ k < j
  BY Heights
<1>7. 0 < a + b
  <2>1. CASE tmpl[m].kind = "hidden"
    <3>1. ~ DeclaredPub(i, k)
      BY <2>1 DEF DeclaredPub
    <3>2. HSum(i, j) # 0
      BY <1>6, <3>1 DEF NoLog
    <3> QED
      BY <1>1, <3>2
  <2>2. CASE tmpl[m].kind # "hidden"
    <3>1. tmpl[m].kind = "i2s" /\ tmpl[m].h > 0
      BY <1>5, <1>6, <2>2, Heights, Constants
    <3>2. tmpl[m].h <= HSum(i, k) /\ tmpl[m].h \in Nat
      BY <1>6, Heights, HSumPart
    <3> QED
      BY <1>1, <3>1, <3>2
  <2> QED
    BY <2>1, <2>2
<1>8. PICK W \in Nat : W = TwoTo[Levels[a + b]] /\ a + b <= W
  BY <1>1, <1>7, LevelsIs
<1>9. PICK d \in Nat : d = Distance(el, Levels[a + b]) /\ (d = a - g \/ b = 0)
  <2>1. PICK x \in Nat : x = a - g /\ x < D /\ x <= W
    BY <1>1, <1>3, <1>8
  <2>2. Distance(el, Levels[a + b]) = (x % D) % W
    BY <1>1, <1>3, <1>8, <2>1 DEF Distance
  <2>3. x % D = x
    BY <1>1, <2>1, ModSmall
  <2>4. CASE x < W
    <3>1. x % W = x
      BY <1>8, <2>4, ModSmall
    <3> QED
      BY <2>1, <2>2, <2>3, <3>1
  <2>5. CASE ~ x < W
    <3>1. b = 0
      BY <1>1, <1>3, <1>8, <2>1, <2>5
    <3>2. W \in Nat \ {0}
      BY <1>1, <1>7, <1>8
    <3>3. x % W \in Nat
      BY <2>1, <3>2
    <3> QED
      BY <2>2, <2>3, <3>1, <3>3
  <2> QED
    BY <2>4, <2>5
<1>10. PICK e : e = ShcOf(el, er)
  OBVIOUS
<1>11. /\ e.s = XorPads(el.s \o Pads(b), RotateLeft(Pads(a) \o er.s, d))
       /\ e.h = a + b /\ e.pub = FALSE /\ e.g = (g + r) % D
  BY <1>1, <1>3, <1>4, <1>9, <1>10 DEF ShcOf
<1>12. Bytes(t \o u, g + r)
  BY <1>3, <1>4, ConcatIs DEF Behind
<1>13. e.s = Fill(t \o u, a + b)
  <2>1. XorPads(Fill(t, a) \o Pads(b), RotateLeft(Pads(a) \o Fill(u, b), d)) = Fill(t \o u, a + b)
    BY <1>1, <1>3, <1>4, <1>9, FillRotated
  <2> QED
    BY <1>3, <1>4, <1>11, <2>1
<1>14. e.g = g + r /\ g + r \in 0 .. a + b
  <2>1. g + r \in Nat /\ g + r < D /\ g + r \in 0 .. a + b
    BY <1>1, <1>3, <1>4
  <2>2. PICK x \in Nat : x = g + r /\ x < D
    BY <2>1
  <2>3. x % D = x
    BY <1>1, <2>2, ModSmall
  <2> QED
    BY <1>11, <2>1, <2>2, <2>3
<1>15. \E n \in i .. j : tmpl[n].kind # "fixed"
  BY <1>5, <1>6
<1>16. Merged(i, j, e)
  BY <1>1, <1>2, <1>11, <1>12, <1>13, <1>14, <1>15 DEF Merged
<1> QED
  BY <1>10, <1>16

(***************************************************************************)
(* The plan: tables whose splits lie inside their ranges give merges of    *)
(* neighbouring ranges.                                                    *)
(***************************************************************************)
Merges == {<<i, k, j>> : i \in 1 .. L, k \in 1 .. L, j \in 1 .. L}
Proper(st) == \E i \in 1 .. L : \E k \in i .. L : \E j \in k + 1 .. L : k < L /\ st = <<i, k, j>>
Splits == {st \in Merges : Proper(st)}

LEMMA DeltaNat ==
    ASSUME Template, ~ NoLog, NEW i \in 1 .. L, NEW k \in i .. L, k < L, NEW j \in k + 1 .. L
    PROVE  Delta(i, k, j) \in Nat
<1>1. CASE DeclaredPub(i, k)
  BY <1>1 DEF Delta
<1>2. CASE ~ DeclaredPub(i, k)
  <2>1. i \in 1 .. L /\ k \in 1 .. L /\ j \in 1 .. L /\ i <= k /\ k < j /\ j \in i .. L
    BY Heights
  <2>2. HSum(i, j) # 0
    BY <1>2, <2>1 DEF NoLog
  <2>3. PICK h \in Nat : h = HSum(i, j) /\ 0 < h /\ h < TwoTo[LenBits]
    BY <2>1, <2>2, HSumNat, HSumBound
  <2>4. PICK l \in Nat : l = Levels[h]
    BY <2>3, LevelsIs
  <2>5. h * l \in Nat
    BY <2>3, <2>4
  <2> QED
    BY <1>2, <2>3, <2>4, <2>5 DEF Delta
<1> QED
  BY <1>1, <1>2

LEMMA SplitIn ==
    ASSUME Template, ~ NoLog, G \in [Ranges -> Nat],
           NEW i \in 1 .. L, NEW j \in i + 1 .. L
    PROVE  /\ Split(i, j) \in i .. j - 1 /\ Through(i, Split(i, j), j) \in Nat
           /\ \A k \in i .. j - 1 : Through(i, Split(i, j), j) <= Through(i, k, j)
<1>1. i \in Int /\ j \in Int /\ L \in Int /\ i \in i .. j - 1
  BY Heights
<1>2. ASSUME NEW k \in i .. j - 1 PROVE Through(i, k, j) \in Nat
  <2>1. k \in i .. L /\ k < L /\ j \in k + 1 .. L
    BY <1>1
  <2>2. Delta(i, k, j) \in Nat
    BY <2>1, DeltaNat
  <2>3. <<i, k>> \in Ranges /\ <<k + 1, j>> \in Ranges
    BY <1>1, <2>1 DEF Ranges
  <2>4. G[<<i, k>>] \in Nat /\ G[<<k + 1, j>>] \in Nat
    BY <2>3
  <2> QED
    BY <2>2, <2>4 DEF Through
<1> DEFINE V == {Through(i, k, j) : k \in i .. j - 1}
<1>3. PICK v \in V : \A w \in V : v <= w
  <2>1. V \subseteq Nat /\ V # {}
    BY <1>1, <1>2
  <2> HIDE DEF V
  <2> QED
    BY <2>1, Least
<1> DEFINE U == {k \in i .. j - 1 : Through(i, k, j) = v}
<1>4. PICK k \in U : \A m \in U : k <= m
  <2>1. U \subseteq Nat /\ U # {}
    BY <1>1, <1>3
  <2> HIDE DEF U
  <2> QED
    BY <2>1, Least
<1>5. k \in i .. j - 1 /\ Through(i, k, j) = v /\ v \in Nat
  BY <1>2, <1>4
<1>6. \A m \in i .. j - 1 :
        \/ Through(i, k, j) < Through(i, m, j)
        \/ Through(i, k, j) = Through(i, m, j) /\ k <= m
  <2> SUFFICES ASSUME NEW m \in i .. j - 1
               PROVE  \/ Through(i, k, j) < Through(i, m, j)
                      \/ Through(i, k, j) = Through(i, m, j) /\ k <= m
    OBVIOUS
  <2>1. Through(i, m, j) \in Nat /\ v <= Through(i, m, j)
    BY <1>2, <1>3
  <2>2. Through(i, m, j) = v => k <= m
    BY <1>4
  <2> QED
    BY <1>5, <2>1, <2>2
<1>7. \E n \in i .. j - 1 : \A m \in i .. j - 1 :
        \/ Through(i, n, j) < Through(i, m, j)
        \/ Through(i, n, j) = Through(i, m, j) /\ n <= m
  BY <1>5, <1>6
<1>8. /\ Split(i, j) \in i .. j - 1
      /\ \A m \in i .. j - 1 :
            \/ Through(i, Split(i, j), j) < Through(i, m, j)
            \/ Through(i, Split(i, j), j) = Through(i, m, j) /\ Split(i, j) <= m
  BY <1>7 DEF Split
<1>9. ASSUME NEW m \in i .. j - 1 PROVE Through(i, Split(i, j), j) <= Through(i, m, j)
  BY <1>2, <1>8
<1> QED
  BY <1>2, <1>8, <1>9

\* What the tables hold of a range once it is filled in: a split of it that
\* is cheapest, and what that costs.
Best(i, j) ==
    /\ K[<<i, j>>] \in i .. j - 1 /\ G[<<i, j>>] = Through(i, K[<<i, j>>], j)
    /\ \A k \in i .. j - 1 : G[<<i, j>>] <= Through(i, k, j)
Planned == \A i \in 1 .. L : \A j \in i + 1 .. L : K[<<i, j>>] \in i .. j - 1

\* The merges of a range, behind those of its halves.
After(e, ij) ==
    IF ij[1] >= ij[2] THEN << >>
    ELSE e[<<ij[1], K[ij]>>] \o e[<<K[ij] + 1, ij[2]>>] \o <<<<ij[1], K[ij], ij[2]>>>>

\* A range to be split has two halves in the table, which are narrower.
LEMMA RangeHalves ==
    ASSUME Template, Planned, NEW ij \in Ranges, ~ ij[1] >= ij[2]
    PROVE  /\ <<ij[1], K[ij]>> \in Ranges /\ <<K[ij] + 1, ij[2]>> \in Ranges
           /\ <<ij[1], K[ij], ij[2]>> \in Splits
           /\ K[ij] \in Int /\ K[ij] - ij[1] < ij[2] - ij[1] /\ ij[2] - (K[ij] + 1) < ij[2] - ij[1]
<1>1. PICK i \in 1 .. L, j \in 1 .. L : ij = <<i, j>> /\ i < j
  <2>1. ij[1] \in 1 .. L /\ ij[2] \in 1 .. L /\ ij = <<ij[1], ij[2]>>
    BY DEF Ranges
  <2>2. ij[1] < ij[2]
    BY <2>1, Heights
  <2> QED
    BY <2>1, <2>2
<1>2. i \in Int /\ j \in Int /\ L \in Int /\ j \in i + 1 .. L
  BY <1>1, Heights
<1>3. PICK k \in i .. j - 1 : k = K[ij]
  BY <1>1, <1>2 DEF Planned
<1>4. k \in 1 .. L /\ k + 1 \in 1 .. L /\ k \in i .. L /\ k < L /\ j \in k + 1 .. L
  BY <1>2
<1>5. <<i, k>> \in Ranges /\ <<k + 1, j>> \in Ranges
  BY <1>4 DEF Ranges
<1>6. <<i, k, j>> \in Splits
  <2>1. <<i, k, j>> \in Merges
    BY <1>4 DEF Merges
  <2>2. Proper(<<i, k, j>>)
    BY <1>4 DEF Proper
  <2> QED
    BY <2>1, <2>2 DEF Splits
<1>7. k - i < j - i /\ j - (k + 1) < j - i /\ k \in Int
  BY <1>2
<1> QED
  BY <1>1, <1>3, <1>5, <1>6, <1>7

\* Induction over the ranges, along the splits in the table.
LEMMA ByHalves ==
    ASSUME Template, Planned, NEW T,
           \A ij \in Ranges :
              (~ ij[1] >= ij[2] => <<ij[1], K[ij]>> \in T /\ <<K[ij] + 1, ij[2]>> \in T)
                => ij \in T
    PROVE  \A ij \in Ranges : ij \in T
<1> SUFFICES ASSUME ~ \A ij \in Ranges : ij \in T PROVE FALSE
  OBVIOUS
<1> DEFINE U == {d \in Nat : \E ij \in Ranges : ij \notin T /\ d = L + ij[2] - ij[1]}
<1>1. \A ij \in Ranges : ij[1] \in 1 .. L /\ ij[2] \in 1 .. L /\ L + ij[2] - ij[1] \in Nat
  BY Heights DEF Ranges
<1>2. U \subseteq Nat /\ U # {}
  BY <1>1
<1>3. PICK d \in U : \A n \in U : d <= n
  <2> HIDE DEF U
  <2> QED
    BY <1>2, Least
<1>4. PICK ij \in Ranges : ij \notin T /\ d = L + ij[2] - ij[1]
  BY <1>3
<1>5. ASSUME NEW x \in Ranges, x[2] - x[1] < ij[2] - ij[1] PROVE x \in T
  <2>1. L + x[2] - x[1] \in Nat /\ L + x[2] - x[1] < d
    BY <1>1, <1>4, <1>5, Heights
  <2>2. L + x[2] - x[1] \notin U
    BY <1>3, <2>1
  <2> QED
    BY <2>1, <2>2
<1>6. ASSUME ~ ij[1] >= ij[2] PROVE <<ij[1], K[ij]>> \in T /\ <<K[ij] + 1, ij[2]>> \in T
  <2>1. /\ <<ij[1], K[ij]>> \in Ranges /\ <<K[ij] + 1, ij[2]>> \in Ranges
        /\ K[ij] - ij[1] < ij[2] - ij[1] /\ ij[2] - (K[ij] + 1) < ij[2] - ij[1]
    BY <1>6, RangeHalves
  <2>2. PICK x : x = <<ij[1], K[ij]>>
    OBVIOUS
  <2>3. PICK y : y = <<K[ij] + 1, ij[2]>>
    OBVIOUS
  <2>4. x \in Ranges /\ y \in Ranges /\ x[2] - x[1] < ij[2] - ij[1] /\ y[2] - y[1] < ij[2] - ij[1]
    BY <2>1, <2>2, <2>3
  <2> QED
    BY <1>5, <2>2, <2>3, <2>4
<1> QED
  BY <1>4, <1>6

LEMMA AfterIs ==
    ASSUME Template, Planned, NEW ij \in Ranges, NEW e,
           ~ ij[1] >= ij[2] =>
             /\ e[<<ij[1], K[ij]>>] \in Seq(Splits)
             /\ e[<<K[ij] + 1, ij[2]>>] \in Seq(Splits)
    PROVE  After(e, ij) \in Seq(Splits)
<1>1. CASE ij[1] >= ij[2]
  <2>1. << >> \in Seq(Splits)
    BY EmptySeq
  <2> QED
    BY <1>1, <2>1 DEF After
<1>2. CASE ~ ij[1] >= ij[2]
  <2>1. PICK s \in Splits : s = <<ij[1], K[ij], ij[2]>>
    BY <1>2, RangeHalves
  <2>2. PICK a \in Seq(Splits), b \in Seq(Splits) :
          a = e[<<ij[1], K[ij]>>] /\ b = e[<<K[ij] + 1, ij[2]>>]
    BY <1>2
  <2>3. <<s>> \in Seq(Splits)
    <3>1. <<s>> \in [1 .. 1 -> Splits]
      OBVIOUS
    <3> QED
      BY <3>1, SeqDef
  <2>4. a \o b \in Seq(Splits)
    BY ConcatProperties
  <2>5. (a \o b) \o <<s>> \in Seq(Splits)
    BY <2>3, <2>4, ConcatProperties
  <2>6. After(e, ij) = (a \o b) \o <<s>>
    BY <1>2, <2>1, <2>2 DEF After
  <2> QED
    BY <2>5, <2>6
<1> QED
  BY <1>1, <1>2

Emits(e) == \A ij \in Ranges : e[ij] = After(e, ij)

\* What satisfies emit's recursion consists of merges of neighbours.
LEMMA EmitsSplits ==
    ASSUME Template, Planned, NEW e, Emits(e)
    PROVE  \A ij \in Ranges : e[ij] \in Seq(Splits)
<1> DEFINE T == {ij \in Ranges : e[ij] \in Seq(Splits)}
<1>1. ASSUME NEW ij \in Ranges,
             ~ ij[1] >= ij[2] => <<ij[1], K[ij]>> \in T /\ <<K[ij] + 1, ij[2]>> \in T
      PROVE  ij \in T
  <2>1. After(e, ij) \in Seq(Splits)
    BY <1>1, AfterIs
  <2> QED
    BY <2>1 DEF Emits
<1>2. \A ij \in Ranges : ij \in T
  <2> HIDE DEF T
  <2> QED
    BY <1>1, ByHalves
<1> QED
  BY <1>2

\* emit's recursion has a solution: filled in by growing width.
LEMMA EmitThere ==
    ASSUME Template, Planned
    PROVE  \E e : e = [ij \in Ranges |-> After(e, ij)]
<1>1. PICK S : S = Seq(Splits)
  OBVIOUS
<1> DEFINE Rows == [Ranges -> S]
           F == [n \in Int |-> [e \in Rows |-> [ij \in Ranges |-> After(e, ij)]]]
           none == [ij \in Ranges |-> << >>]
<1>2. \A e \in Rows : [ij \in Ranges |-> After(e, ij)] \in Rows
  <2> SUFFICES ASSUME NEW e \in Rows, NEW ij \in Ranges PROVE After(e, ij) \in S
    OBVIOUS
  <2>1. ~ ij[1] >= ij[2] => /\ e[<<ij[1], K[ij]>>] \in Seq(Splits)
                            /\ e[<<K[ij] + 1, ij[2]>>] \in Seq(Splits)
    BY <1>1, RangeHalves
  <2> QED
    BY <1>1, <2>1, AfterIs
<1>3. F \in [Int -> [Rows -> Rows]]
  BY <1>2
<1>4. \A n \in Int, e \in Rows, ij \in Ranges : F[n][e][ij] = After(e, ij)
  OBVIOUS
<1>5. none \in Rows
  BY <1>1, EmptySeq
<1>6. L \in Nat /\ 0 <= L /\ 0 \in Int /\ L \in Int
  BY Heights
<1>7. PICK f : Unfolds(f, 0, L, Rows, none, F)
  <2> HIDE DEF F, Rows, none
  <2> QED
    BY ONLY <1>3, <1>5, <1>6, Recursion
<1>8. /\ f \in [0 .. L -> Rows]
      /\ \A n \in 1 .. L, ij \in Ranges : f[n][ij] = After(f[n - 1], ij)
  <2>1. f \in [0 .. L -> Rows] /\ \A n \in 1 .. L : f[n] = F[n][f[n - 1]]
    <3>1. 0 + 1 = 1
      OBVIOUS
    <3> HIDE DEF F, Rows, none
    <3> QED
      BY <1>7, <3>1 DEF Unfolds
  <2>2. \A n \in 1 .. L : n \in Int /\ f[n - 1] \in Rows
    <3> HIDE DEF Rows
    <3> QED
      BY <1>6, <2>1
  <2> HIDE DEF F, Rows
  <2> QED
    BY <1>4, <2>1, <2>2
<1> DEFINE Still(d) == \A ij \in Ranges : ij[2] - ij[1] <= d => f[d + 1][ij] = f[d][ij]
           T == {d \in 0 .. L - 1 : Still(d)}
<1>9. \A ij \in Ranges : ij[1] \in 1 .. L /\ ij[2] \in 1 .. L /\ ij[2] - ij[1] <= L - 1
                         /\ ij[1] \in Int /\ ij[2] \in Int
  BY Heights DEF Ranges
<1>10. \A n \in 0 .. L, ij \in Ranges : ij[1] >= ij[2] => f[n][ij] = << >>
  <2> SUFFICES ASSUME NEW n \in 0 .. L, NEW ij \in Ranges, ij[1] >= ij[2]
               PROVE  f[n][ij] = << >>
    OBVIOUS
  <2>1. CASE n = 0
    <3>1. f[0] = none
      BY <1>7 DEF Unfolds
    <3> QED
      BY <2>1, <3>1
  <2>2. CASE n # 0
    <3>1. n \in 1 .. L
      BY <1>6, <2>2
    <3>2. f[n][ij] = After(f[n - 1], ij)
      BY <1>8, <3>1
    <3> QED
      BY <3>2 DEF After
  <2> QED
    BY <2>1, <2>2
<1>11. 0 \in T
  <2>1. 0 \in 0 .. L - 1 /\ 0 + 1 \in 0 .. L /\ 0 \in 0 .. L
    BY Heights
  <2>2. ASSUME NEW ij \in Ranges, ij[2] - ij[1] <= 0 PROVE f[0 + 1][ij] = f[0][ij]
    <3>1. ij[1] >= ij[2]
      BY <1>9, <2>2
    <3> QED
      BY <1>10, <2>1, <3>1
  <2> QED
    BY <2>1, <2>2
<1>12. ASSUME NEW d \in 0 .. L - 1, d \in T, d < L - 1 PROVE d + 1 \in T
  <2>1. d + 1 \in 0 .. L - 1 /\ d + 1 \in 1 .. L /\ d + 1 + 1 \in 1 .. L
        /\ (d + 1) - 1 = d /\ (d + 1 + 1) - 1 = d + 1 /\ d + 1 + 1 \in 0 .. L /\ d + 1 \in 0 .. L
    BY <1>6, <1>12
  <2>2. ASSUME NEW ij \in Ranges, ij[2] - ij[1] <= d + 1 PROVE f[d + 1 + 1][ij] = f[d + 1][ij]
    <3>1. CASE ij[1] >= ij[2]
      BY <1>10, <2>1, <3>1
    <3>2. CASE ~ ij[1] >= ij[2]
      <4>1. /\ <<ij[1], K[ij]>> \in Ranges /\ <<K[ij] + 1, ij[2]>> \in Ranges
            /\ K[ij] - ij[1] < ij[2] - ij[1] /\ ij[2] - (K[ij] + 1) < ij[2] - ij[1]
            /\ K[ij] \in Int
        BY <3>2, RangeHalves
      <4>2. PICK x : x = <<ij[1], K[ij]>>
        OBVIOUS
      <4>3. PICK y : y = <<K[ij] + 1, ij[2]>>
        OBVIOUS
      <4>4. x \in Ranges /\ y \in Ranges /\ x[2] - x[1] <= d /\ y[2] - y[1] <= d
        BY <1>9, <2>2, <4>1, <4>2, <4>3
      <4>5. f[d + 1][x] = f[d][x] /\ f[d + 1][y] = f[d][y]
        BY <1>12, <4>4
      <4>6. f[d + 1 + 1][ij] = After(f[d + 1], ij) /\ f[d + 1][ij] = After(f[d], ij)
        BY <1>8, <2>1
      <4> QED
        BY <4>2, <4>3, <4>5, <4>6 DEF After
    <3> QED
      BY <3>1, <3>2
  <2> QED
    BY <2>1, <2>2
<1>13. \A d \in 0 .. L - 1 : d \in T
  <2>1. 0 \in Int /\ L - 1 \in Int
    BY <1>6
  <2> HIDE DEF T
  <2> QED
    BY <1>11, <1>12, <2>1, Upto
<1>14. ASSUME NEW ij \in Ranges PROVE f[L][ij] = After(f[L], ij)
  <2>1. L \in 1 .. L /\ L - 1 \in 0 .. L - 1 /\ (L - 1) + 1 = L /\ L \in 0 .. L
    BY Heights
  <2>2. f[L][ij] = After(f[L - 1], ij)
    BY <1>8, <2>1
  <2>3. CASE ij[1] >= ij[2]
    BY <2>2, <2>3 DEF After
  <2>4. CASE ~ ij[1] >= ij[2]
    <3>1. <<ij[1], K[ij]>> \in Ranges /\ <<K[ij] + 1, ij[2]>> \in Ranges
      BY <2>4, RangeHalves
    <3>2. \A x \in Ranges : f[L][x] = f[L - 1][x]
      <4>1. L - 1 \in T
        BY <1>13, <2>1
      <4> QED
        BY <1>9, <2>1, <4>1
    <3> QED
      BY <2>2, <3>1, <3>2 DEF After
  <2> QED
    BY <2>3, <2>4
<1>15. f[L] = [ij \in Ranges |-> After(f[L], ij)]
  <2>1. L \in 0 .. L
    BY <1>6
  <2>2. f[L] = [ij \in Ranges |-> f[L][ij]]
    BY <1>8, <2>1
  <2> QED
    BY <1>14, <2>2
<1> QED
  BY <1>15

LEMMA EmittedIs ==
    ASSUME Template, Planned
    PROVE  \E e : Emits(e) /\ Emitted = e[<<1, L>>] /\ <<1, L>> \in Ranges
<1>1. \E e : e = [ij \in Ranges |-> After(e, ij)]
  BY EmitThere
<1>2. \E e : /\ e = [ij \in Ranges |->
                       IF ij[1] >= ij[2] THEN << >>
                       ELSE e[<<ij[1], K[ij]>>] \o e[<<K[ij] + 1, ij[2]>>]
                            \o <<<<ij[1], K[ij], ij[2]>>>>]
              /\ Emitted = e[<<1, L>>]
  BY <1>1 DEF Emitted, After
<1>3. PICK e : Emits(e) /\ Emitted = e[<<1, L>>]
  BY <1>2 DEF Emits, After
<1>4. <<1, L>> \in Ranges
  BY Heights DEF Ranges
<1> QED
  BY <1>3, <1>4

\* A row of merges, another one and a last merge behind both.
Joins(c, a, b, s) ==
    /\ Len(a) \in Nat /\ Len(b) \in Nat /\ Len(c) = Len(a) + Len(b) + 1
    /\ \A n \in 1 .. Len(a) : c[n] = a[n]
    /\ \A n \in 1 .. Len(b) : c[Len(a) + n] = b[n]
    /\ c[Len(c)] = s

LEMMA JoinsThree ==
    ASSUME NEW S, NEW a \in Seq(S), NEW b \in Seq(S), NEW s \in S
    PROVE  Joins(a \o b \o <<s>>, a, b, s)
<1>1. PICK t \in Seq(S) : t = <<s>> /\ Len(t) = 1 /\ t[1] = s
  <2>1. <<s>> \in [1 .. 1 -> S]
    OBVIOUS
  <2>2. <<s>> \in Seq(S)
    BY <2>1, SeqDef
  <2>3. Len(<<s>>) = 1 /\ <<s>>[1] = s
    OBVIOUS
  <2> QED
    BY <2>2, <2>3
<1>2. PICK d \in Seq(S) : /\ d = a \o b /\ Len(d) = Len(a) + Len(b)
                           /\ \A n \in 1 .. Len(d) : d[n] = IF n <= Len(a) THEN a[n] ELSE b[n - Len(a)]
  <2>1. /\ a \o b \in Seq(S) /\ Len(a \o b) = Len(a) + Len(b)
        /\ \A n \in 1 .. Len(a) + Len(b) :
             (a \o b)[n] = IF n <= Len(a) THEN a[n] ELSE b[n - Len(a)]
    BY ConcatProperties
  <2> QED
    BY <2>1
<1>3. PICK c : c = d \o t
  OBVIOUS
<1>4. /\ Len(c) = Len(d) + 1
      /\ \A n \in 1 .. Len(c) : c[n] = IF n <= Len(d) THEN d[n] ELSE t[n - Len(d)]
  BY <1>1, <1>3, ConcatProperties
<1>5. Len(a) \in Nat /\ Len(b) \in Nat /\ Len(d) \in Nat /\ Len(c) \in Nat
  BY <1>2, <1>4, LenProperties
<1>6. ASSUME NEW n \in 1 .. Len(a) PROVE c[n] = a[n]
  <2>1. n \in 1 .. Len(c) /\ n \in 1 .. Len(d) /\ n <= Len(d) /\ n <= Len(a)
    BY <1>2, <1>4, <1>5
  <2> QED
    BY <1>2, <1>4, <2>1
<1>7. ASSUME NEW n \in 1 .. Len(b) PROVE c[Len(a) + n] = b[n]
  <2>1. PICK m \in Nat : m = Len(a) + n
    BY <1>5
  <2>2. m \in 1 .. Len(c) /\ m \in 1 .. Len(d) /\ m <= Len(d) /\ ~ m <= Len(a) /\ m - Len(a) = n
    BY <1>2, <1>4, <1>5, <2>1
  <2>3. c[m] = b[n]
    BY <1>2, <1>4, <2>2
  <2> QED
    BY <2>1, <2>3
<1>8. c[Len(c)] = s
  <2>1. Len(c) \in 1 .. Len(c) /\ ~ Len(c) <= Len(d) /\ Len(c) - Len(d) = 1
    BY <1>4, <1>5
  <2> QED
    BY <1>1, <1>4, <2>1
<1>9. c = a \o b \o <<s>>
  BY <1>1, <1>2, <1>3
<1> QED
  BY <1>2, <1>4, <1>5, <1>6, <1>7, <1>8, <1>9 DEF Joins

\* Range i..j is a single part, or one of the first n - 1 merges made it.
Before(s, n, i, j) == i = j \/ \E m \in 1 .. n - 1 : s[m][1] = i /\ s[m][3] = j

\* No merge comes before its operands.
Ordered(s) ==
    \A n \in 1 .. Len(s) : Before(s, n, s[n][1], s[n][2]) /\ Before(s, n, s[n][2] + 1, s[n][3])

LEMMA OrderedJoins ==
    ASSUME NEW a, NEW b, NEW c, NEW s, Joins(c, a, b, s), Ordered(a), Ordered(b),
           Before(a, Len(a) + 1, s[1], s[2]), Before(b, Len(b) + 1, s[2] + 1, s[3])
    PROVE  Ordered(c) /\ Before(c, Len(c) + 1, s[1], s[3])
<1>1. /\ Len(a) \in Nat /\ Len(b) \in Nat /\ Len(c) = Len(a) + Len(b) + 1
      /\ \A n \in 1 .. Len(a) : c[n] = a[n]
      /\ \A n \in 1 .. Len(b) : c[Len(a) + n] = b[n]
      /\ c[Len(c)] = s
  BY DEF Joins
<1>2. ASSUME NEW n \in 1 .. Len(a) + 1, NEW i, NEW j, Before(a, n, i, j),
             NEW h \in Nat, n <= h
      PROVE  Before(c, h, i, j)
  <2>1. \A m \in 1 .. n - 1 : m \in 1 .. h - 1 /\ c[m] = a[m]
    BY <1>1, <1>2
  <2> QED
    BY <1>2, <2>1 DEF Before
<1>3. ASSUME NEW n \in 1 .. Len(b) + 1, NEW i, NEW j, Before(b, n, i, j)
      PROVE  Before(c, Len(a) + n, i, j)
  <2>1. \A m \in 1 .. n - 1 : Len(a) + m \in 1 .. Len(a) + n - 1 /\ c[Len(a) + m] = b[m]
    BY <1>1, <1>3, SMTT(30)
  <2> QED
    BY <1>3, <2>1, SMTT(30) DEF Before
<1>4. ASSUME NEW n \in 1 .. Len(c)
      PROVE  Before(c, n, c[n][1], c[n][2]) /\ Before(c, n, c[n][2] + 1, c[n][3])
  <2>1. CASE n <= Len(a)
    <3>1. n \in 1 .. Len(a) /\ n \in 1 .. Len(a) + 1 /\ n \in Nat /\ n <= n
      BY <1>1, <2>1
    <3>2. /\ c[n] = a[n] /\ Before(a, n, a[n][1], a[n][2])
          /\ Before(a, n, a[n][2] + 1, a[n][3])
      BY <1>1, <3>1 DEF Ordered
    <3> QED
      BY <1>2, <3>1, <3>2
  <2>2. CASE ~ n <= Len(a) /\ n <= Len(a) + Len(b)
    <3>1. PICK m \in 1 .. Len(b) : n = Len(a) + m /\ m \in 1 .. Len(b) + 1
      <4>1. n - Len(a) \in 1 .. Len(b) /\ n = Len(a) + (n - Len(a)) /\ n - Len(a) \in 1 .. Len(b) + 1
        BY <1>1, <2>2
      <4> QED
        BY <4>1
    <3>2. /\ c[n] = b[m] /\ Before(b, m, b[m][1], b[m][2])
          /\ Before(b, m, b[m][2] + 1, b[m][3])
      BY <1>1, <3>1 DEF Ordered
    <3> QED
      BY <1>3, <3>1, <3>2
  <2>3. CASE n = Len(c)
    <3>1. /\ Len(a) + 1 \in 1 .. Len(a) + 1 /\ n \in Nat /\ Len(a) + 1 <= n
          /\ Len(b) + 1 \in 1 .. Len(b) + 1 /\ Len(a) + (Len(b) + 1) = n
      BY <1>1, <2>3
    <3>2. Before(c, n, s[1], s[2])
      BY <1>2, <3>1
    <3>3. Before(c, Len(a) + (Len(b) + 1), s[2] + 1, s[3])
      BY <1>3, <3>1
    <3> QED
      BY <1>1, <2>3, <3>1, <3>2, <3>3
  <2>4. n <= Len(a) \/ (~ n <= Len(a) /\ n <= Len(a) + Len(b)) \/ n = Len(c)
    <3>1. PICK la \in Nat, lb \in Nat : la = Len(a) /\ lb = Len(b) /\ Len(c) = la + lb + 1
      BY <1>1
    <3>2. n \in 1 .. la + lb + 1
      BY <3>1
    <3> QED
      BY <3>1, <3>2
  <2> QED
    BY <2>1, <2>2, <2>3, <2>4
<1>5. Before(c, Len(c) + 1, s[1], s[3])
  <2>1. Len(c) \in 1 .. (Len(c) + 1) - 1
    BY <1>1
  <2> QED
    BY <1>1, <2>1 DEF Before
<1> QED
  BY <1>4, <1>5 DEF Ordered

\* emit lists the merges of a range in an order in which they can be made,
\* and the merge that makes the range is among them.
Ready(s, i, j) == Ordered(s) /\ Before(s, Len(s) + 1, i, j)

LEMMA EmitsReady ==
    ASSUME Template, Planned, NEW e, Emits(e)
    PROVE  \A ij \in Ranges : ij[1] <= ij[2] => Ready(e[ij], ij[1], ij[2])
<1> DEFINE T == {ij \in Ranges : ij[1] <= ij[2] => Ready(e[ij], ij[1], ij[2])}
<1>1. ASSUME NEW ij \in Ranges,
             ~ ij[1] >= ij[2] => <<ij[1], K[ij]>> \in T /\ <<K[ij] + 1, ij[2]>> \in T
      PROVE  ij \in T
  <2>1. ij[1] \in 1 .. L /\ ij[2] \in 1 .. L /\ ij[1] \in Int /\ ij[2] \in Int
    BY Heights DEF Ranges
  <2>2. CASE ij[1] >= ij[2]
    <3>1. e[ij] = << >>
      BY <2>2 DEF Emits, After
    <3>2. Ordered(<< >>)
      BY DEF Ordered
    <3>3. ij[1] <= ij[2] => Before(<< >>, Len(<< >>) + 1, ij[1], ij[2])
      BY <2>1, <2>2 DEF Before
    <3> QED
      BY <3>1, <3>2, <3>3 DEF Ready
  <2>3. CASE ~ ij[1] >= ij[2]
    <3>1. PICK x, y, s : x = <<ij[1], K[ij]>> /\ y = <<K[ij] + 1, ij[2]>>
                         /\ s = <<ij[1], K[ij], ij[2]>>
      OBVIOUS
    <3>2. x \in Ranges /\ y \in Ranges /\ s \in Splits /\ x \in T /\ y \in T
      BY <1>1, <2>3, <3>1, RangeHalves
    <3>3. K[ij] \in ij[1] .. ij[2] - 1
      <4>1. ij[2] \in ij[1] + 1 .. L /\ ij = <<ij[1], ij[2]>>
        BY <2>1, <2>3 DEF Ranges
      <4> QED
        BY <2>1, <4>1 DEF Planned
    <3>4. Ready(e[x], ij[1], K[ij]) /\ Ready(e[y], K[ij] + 1, ij[2])
      <4>1. x[1] <= x[2] /\ y[1] <= y[2]
        BY <2>1, <3>1, <3>3
      <4> QED
        BY <3>1, <3>2, <4>1
    <3>5. PICK a \in Seq(Splits), b \in Seq(Splits) : a = e[x] /\ b = e[y]
      BY <3>2, EmitsSplits
    <3>6. PICK c : c = a \o b \o <<s>>
      OBVIOUS
    <3>7. e[ij] = c
      BY <2>3, <3>1, <3>5, <3>6 DEF Emits, After
    <3>8. Joins(c, a, b, s)
      BY <3>2, <3>6, JoinsThree
    <3>9. /\ Ordered(a) /\ Before(a, Len(a) + 1, s[1], s[2])
          /\ Ordered(b) /\ Before(b, Len(b) + 1, s[2] + 1, s[3])
      BY <3>1, <3>4, <3>5 DEF Ready
    <3>10. Ordered(c) /\ Before(c, Len(c) + 1, s[1], s[3])
      BY <3>8, <3>9, OrderedJoins
    <3> QED
      BY <3>1, <3>7, <3>10 DEF Ready
  <2> QED
    BY <2>2, <2>3
<1>2. \A ij \in Ranges : ij \in T
  <2> HIDE DEF T
  <2> QED
    BY <1>1, ByHalves
<1> QED
  BY <1>2

\* The merges of s cost c in all, by the DP's own view of each, and f[n] is
\* what the first n of them cost.
DeltaOf(st) == Delta(st[1], st[2], st[3])

Bill(f, s, c) ==
    /\ Len(s) \in Nat /\ f \in [0 .. Len(s) -> Nat] /\ f[0] = 0
    /\ \A n \in 1 .. Len(s) : DeltaOf(s[n]) \in Nat /\ f[n] = f[n - 1] + DeltaOf(s[n])
    /\ f[Len(s)] = c

LEMMA BillJoins ==
    ASSUME NEW a, NEW b, NEW c, NEW s, Joins(c, a, b, s), DeltaOf(s) \in Nat,
           NEW f, NEW g, NEW x, NEW y, Bill(f, a, x), Bill(g, b, y)
    PROVE  \E h : Bill(h, c, x + y + DeltaOf(s))
<1>1. /\ Len(a) \in Nat /\ Len(b) \in Nat /\ Len(c) = Len(a) + Len(b) + 1
      /\ \A n \in 1 .. Len(a) : c[n] = a[n]
      /\ \A n \in 1 .. Len(b) : c[Len(a) + n] = b[n]
      /\ c[Len(c)] = s
  BY DEF Joins
<1>2. PICK la \in Nat, lb \in Nat, lc \in Nat :
        la = Len(a) /\ lb = Len(b) /\ lc = Len(c) /\ lc = la + lb + 1
  BY <1>1
<1>3. PICK d \in Nat : d = DeltaOf(s)
  OBVIOUS
<1>4. f \in [0 .. la -> Nat] /\ f[0] = 0 /\ f[la] = x /\ x \in Nat
  <2>1. f \in [0 .. la -> Nat] /\ f[la] = x /\ la \in 0 .. la
    BY <1>2 DEF Bill
  <2> QED
    BY <1>2, <2>1 DEF Bill
<1>5. g \in [0 .. lb -> Nat] /\ g[0] = 0 /\ g[lb] = y /\ y \in Nat
  <2>1. g \in [0 .. lb -> Nat] /\ g[lb] = y /\ lb \in 0 .. lb
    BY <1>2 DEF Bill
  <2> QED
    BY <1>2, <2>1 DEF Bill
<1>14. \A n \in 1 .. la : DeltaOf(a[n]) \in Nat /\ f[n] = f[n - 1] + DeltaOf(a[n])
  BY <1>2 DEF Bill
<1>15. \A n \in 1 .. lb : DeltaOf(b[n]) \in Nat /\ g[n] = g[n - 1] + DeltaOf(b[n])
  BY <1>2 DEF Bill
<1>6. PICK h : h = [n \in 0 .. lc |-> IF n <= la THEN f[n]
                                      ELSE IF n <= la + lb THEN x + g[n - la] ELSE x + y + d]
  OBVIOUS
<1>7. \A n \in 0 .. la : h[n] = f[n] /\ f[n] \in Nat
  <2>1. \A n \in 0 .. la : n \in 0 .. lc /\ n <= la
    BY <1>2
  <2> QED
    BY <1>4, <1>6, <2>1
<1>8. \A n \in 0 .. lb : h[la + n] = x + g[n] /\ g[n] \in Nat
  <2> SUFFICES ASSUME NEW n \in 0 .. lb PROVE h[la + n] = x + g[n] /\ g[n] \in Nat
    OBVIOUS
  <2>1. g[n] \in Nat /\ la + n \in 0 .. lc /\ la + n <= la + lb /\ (la + n) - la = n
    BY <1>2, <1>5, SMTT(30)
  <2>2. CASE n = 0
    BY <1>4, <1>5, <1>7, <2>1, <2>2
  <2>3. CASE n # 0
    <3>1. ~ la + n <= la
      BY <2>3
    <3>2. PICK m \in 0 .. lc : m = la + n
      BY <2>1
    <3>3. h[m] = x + g[m - la]
      BY <1>6, <2>1, <3>1, <3>2
    <3> QED
      BY <2>1, <3>2, <3>3
  <2> QED
    BY <2>2, <2>3
<1>9. h[lc] = x + y + d
  <2>1. lc \in 0 .. lc /\ ~ lc <= la /\ ~ lc <= la + lb
    BY <1>2
  <2> QED
    BY <1>6, <2>1
<1>10. h \in [0 .. lc -> Nat]
  <2> SUFFICES ASSUME NEW n \in 0 .. lc PROVE h[n] \in Nat
    BY <1>6
  <2>1. CASE n <= la
    BY <1>7, <2>1
  <2>2. CASE ~ n <= la /\ n <= la + lb
    <3>1. n - la \in 0 .. lb /\ n = la + (n - la)
      BY <2>2
    <3>2. PICK m \in 0 .. lb : n = la + m
      BY <3>1
    <3>3. h[n] = x + g[m] /\ g[m] \in Nat /\ x \in Nat
      BY <1>4, <1>8, <3>2
    <3> QED
      BY <3>3
  <2>3. CASE n = lc
    BY <1>4, <1>5, <1>9, <2>3
  <2> QED
    BY <1>2, <2>1, <2>2, <2>3
<1>11. ASSUME NEW n \in 1 .. lc PROVE DeltaOf(c[n]) \in Nat /\ h[n] = h[n - 1] + DeltaOf(c[n])
  <2>1. CASE n <= la
    <3>1. n \in 1 .. la /\ n \in 0 .. la /\ n - 1 \in 0 .. la
      BY <2>1
    <3> QED
      BY <1>1, <1>2, <1>14, <1>7, <3>1
  <2>2. CASE ~ n <= la /\ n <= la + lb
    <3>1. n - la \in 1 .. lb /\ n = la + (n - la)
      BY <2>2
    <3>2. PICK m \in 1 .. lb : n = la + m
      BY <3>1
    <3>3. m \in 0 .. lb /\ m - 1 \in 0 .. lb /\ n - 1 = la + (m - 1)
      BY <3>2
    <3>4. h[n] = x + g[m] /\ h[n - 1] = x + g[m - 1] /\ g[m - 1] \in Nat
      BY <1>8, <3>2, <3>3
    <3>5. g[m] = g[m - 1] + DeltaOf(b[m]) /\ c[n] = b[m]
      BY <1>1, <1>2, <1>15, <3>2
    <3>6. PICK z \in Nat : z = DeltaOf(b[m])
      BY <1>15, <3>2
    <3> QED
      BY <1>4, <3>4, <3>5, <3>6
  <2>3. CASE n = lc
    <3>1. lb \in 0 .. lb /\ n - 1 = la + lb
      BY <1>2, <2>3
    <3>2. h[n - 1] = x + y
      BY <1>5, <1>8, <3>1
    <3> QED
      BY <1>1, <1>2, <1>3, <1>9, <2>3, <3>2
  <2> QED
    BY <1>2, <2>1, <2>2, <2>3
<1>12. h[0] = 0
  BY <1>4, <1>7
<1>13. Bill(h, c, x + y + d)
  BY <1>2, <1>9, <1>10, <1>11, <1>12 DEF Bill
<1> QED
  BY <1>3, <1>13

\* The tables are filled in.
Cheap ==
    /\ G \in [Ranges -> Nat] /\ \A i \in 1 .. L : G[<<i, i>>] = 0
    /\ \A i \in 1 .. L : \A j \in i + 1 .. L : Best(i, j)

\* What emit lists for a range costs what the table says.
LEMMA EmitsBilled ==
    ASSUME Template, ~ NoLog, Cheap, NEW e, Emits(e)
    PROVE  \A ij \in Ranges : ij[1] <= ij[2] => \E f : Bill(f, e[ij], G[ij])
<1>0. Planned
  BY DEF Planned, Cheap, Best
<1> DEFINE T == {ij \in Ranges : ij[1] <= ij[2] => \E f : Bill(f, e[ij], G[ij])}
<1>1. ASSUME NEW ij \in Ranges,
             ~ ij[1] >= ij[2] => <<ij[1], K[ij]>> \in T /\ <<K[ij] + 1, ij[2]>> \in T
      PROVE  ij \in T
  <2>1. /\ ij[1] \in 1 .. L /\ ij[2] \in 1 .. L /\ ij[1] \in Int /\ ij[2] \in Int
        /\ ij = <<ij[1], ij[2]>>
    BY Heights DEF Ranges
  <2>2. CASE ij[1] >= ij[2]
    <3> SUFFICES ASSUME ij[1] <= ij[2] PROVE \E f : Bill(f, e[ij], G[ij])
      OBVIOUS
    <3>1. e[ij] = << >>
      BY <2>2 DEF Emits, After
    <3>2. G[ij] = 0
      <4>1. ij = <<ij[1], ij[1]>>
        BY <2>1, <2>2
      <4> QED
        BY <2>1, <4>1 DEF Cheap
    <3>3. PICK f : f = [n \in 0 .. 0 |-> 0]
      OBVIOUS
    <3>4. PICK s : s = << >> /\ Len(s) = 0
      OBVIOUS
    <3>5. f \in [0 .. Len(s) -> Nat] /\ f[0] = 0 /\ f[Len(s)] = 0 /\ Len(s) \in Nat
      BY <3>3, <3>4
    <3>6. \A n \in 1 .. Len(s) : FALSE
      BY <3>4
    <3>7. Bill(f, s, 0)
      BY <3>5, <3>6 DEF Bill
    <3> QED
      BY <3>1, <3>2, <3>4, <3>7
  <2>3. CASE ~ ij[1] >= ij[2]
    <3>1. PICK x, y, s : x = <<ij[1], K[ij]>> /\ y = <<K[ij] + 1, ij[2]>>
                         /\ s = <<ij[1], K[ij], ij[2]>>
      OBVIOUS
    <3>2. x \in Ranges /\ y \in Ranges /\ s \in Splits /\ x \in T /\ y \in T
      BY <1>0, <1>1, <2>3, <3>1, RangeHalves
    <3>3. K[ij] \in ij[1] .. ij[2] - 1 /\ G[ij] = Through(ij[1], K[ij], ij[2])
      <4>1. ij[2] \in ij[1] + 1 .. L
        BY <2>1, <2>3
      <4> QED
        BY <2>1, <4>1 DEF Cheap, Best
    <3>4. x[1] <= x[2] /\ y[1] <= y[2]
      BY <2>1, <3>1, <3>3
    <3>5. PICK f : Bill(f, e[x], G[x])
      BY <3>2, <3>4
    <3>6. PICK g : Bill(g, e[y], G[y])
      BY <3>2, <3>4
    <3>7. PICK a \in Seq(Splits), b \in Seq(Splits) : a = e[x] /\ b = e[y]
      BY <1>0, <3>2, EmitsSplits
    <3>8. PICK c : c = a \o b \o <<s>>
      OBVIOUS
    <3>9. e[ij] = c
      BY <2>3, <3>1, <3>7, <3>8 DEF Emits, After
    <3>10. Joins(c, a, b, s)
      BY <3>2, <3>8, JoinsThree
    <3>11. DeltaOf(s) \in Nat /\ DeltaOf(s) = Delta(ij[1], K[ij], ij[2])
      <4>1. K[ij] \in ij[1] .. L /\ K[ij] < L /\ ij[2] \in K[ij] + 1 .. L
        BY <2>1, <3>3, Heights
      <4>2. Delta(ij[1], K[ij], ij[2]) \in Nat
        BY <2>1, <4>1, DeltaNat
      <4> QED
        BY <3>1, <4>2 DEF DeltaOf
    <3>12. \E h : Bill(h, c, G[x] + G[y] + DeltaOf(s))
      BY <3>5, <3>6, <3>7, <3>10, <3>11, BillJoins
    <3>13. G[ij] = G[x] + G[y] + DeltaOf(s)
      BY <3>1, <3>3, <3>11 DEF Through
    <3> QED
      BY <3>9, <3>12, <3>13
  <2> QED
    BY <2>2, <2>3
<1>2. \A ij \in Ranges : ij \in T
  <2> HIDE DEF T
  <2> QED
    BY <1>0, <1>1, ByHalves
<1> QED
  BY <1>2

LEMMA MinIs ==
    ASSUME NEW T, T \subseteq Nat, T # {}
    PROVE  Min(T) \in T /\ \A n \in T : Min(T) <= n
<1>1. \E n \in T : \A k \in T : n <= k
  BY Least
<1> QED
  BY <1>1 DEF Min

(***************************************************************************)
(* The cuts that separate the parts, and the ways to merge them away.      *)
(***************************************************************************)
Cuts == 1 .. L - 1

\* p and q are cuts, or ends, with no cut in between.
Gap(cuts, p, q) ==
    /\ p \in cuts \cup {0, L} /\ q \in cuts \cup {0, L} /\ p < q
    /\ \A n \in cuts : ~ (p < n /\ n < q)

LEMMA GapIs ==
    ASSUME Template, NEW cuts \in SUBSET Cuts, NEW m
    PROVE  m \in Neighbouring(cuts) <=>
             \E i \in 1 .. L : \E k \in 1 .. L : \E j \in 1 .. L :
                /\ m = <<i, k, j>> /\ k \in cuts
                /\ Gap(cuts, i - 1, k) /\ Gap(cuts, k, j)
<1>1. L \in Int /\ 1 <= L /\ \A n \in cuts : n \in Int /\ 1 <= n /\ n <= L - 1
  <2>1. L \in Int /\ 1 <= L
    BY Heights
  <2>2. \A n \in Cuts : n \in Int /\ 1 <= n /\ n <= L - 1
    BY <2>1 DEF Cuts
  <2> QED
    BY <2>1, <2>2
<1>2. ASSUME NEW i \in 1 .. L, NEW k \in 1 .. L, NEW j \in 1 .. L
      PROVE  (/\ i <= k /\ k < j
              /\ (i - 1 .. j) \cap (cuts \cup {0, L}) = {i - 1, k, j})
             <=> k \in cuts /\ Gap(cuts, i - 1, k) /\ Gap(cuts, k, j)
  <2>1. i \in Int /\ k \in Int /\ j \in Int /\ 1 <= i /\ j <= L
    BY <1>1
  <2>2. ASSUME i <= k, k < j, (i - 1 .. j) \cap (cuts \cup {0, L}) = {i - 1, k, j}
        PROVE  k \in cuts /\ Gap(cuts, i - 1, k) /\ Gap(cuts, k, j)
    <3>1. \A n : n \in i - 1 .. j /\ n \in cuts \cup {0, L} <=> n = i - 1 \/ n = k \/ n = j
      BY <2>2
    <3>2. i - 1 \in cuts \cup {0, L} /\ k \in cuts \cup {0, L} /\ j \in cuts \cup {0, L}
      BY <3>1
    <3>3. k \in cuts
      BY <1>1, <2>1, <2>2, <3>2
    <3>4. \A n \in cuts : ~ (i - 1 < n /\ n < k) /\ ~ (k < n /\ n < j)
      <4> SUFFICES ASSUME NEW n \in cuts, n # k, n # j, i - 1 < n, n < j PROVE FALSE
        BY <1>1, <2>1, <2>2
      <4>1. n \in i - 1 .. j /\ n # i - 1
        BY <1>1, <2>1
      <4> QED
        BY <3>1, <4>1
    <3> QED
      BY <2>1, <2>2, <3>2, <3>3, <3>4 DEF Gap
  <2>3. ASSUME k \in cuts, Gap(cuts, i - 1, k), Gap(cuts, k, j)
        PROVE  /\ i <= k /\ k < j
               /\ (i - 1 .. j) \cap (cuts \cup {0, L}) = {i - 1, k, j}
    <3>1. i <= k /\ k < j
      BY <2>1, <2>3 DEF Gap
    <3>2. i - 1 \in i - 1 .. j /\ k \in i - 1 .. j /\ j \in i - 1 .. j
      BY <2>1, <3>1
    <3>3. i - 1 \in cuts \cup {0, L} /\ k \in cuts \cup {0, L} /\ j \in cuts \cup {0, L}
      BY <2>3 DEF Gap
    <3>4. ASSUME NEW n \in i - 1 .. j, n \in cuts \cup {0, L} PROVE n = i - 1 \/ n = k \/ n = j
      <4>1. CASE n \in cuts
        <5>1. ~ (i - 1 < n /\ n < k) /\ ~ (k < n /\ n < j)
          BY <2>3, <4>1 DEF Gap
        <5> QED
          BY <2>1, <3>1, <5>1
      <4>2. CASE n = 0 \/ n = L
        BY <1>1, <2>1, <4>2
      <4> QED
        BY <3>4, <4>1, <4>2
    <3> QED
      BY <3>1, <3>2, <3>3, <3>4
  <2> QED
    BY <2>2, <2>3
<1>3. ASSUME m \in Neighbouring(cuts)
      PROVE  \E i \in 1 .. L : \E k \in 1 .. L : \E j \in 1 .. L :
                /\ m = <<i, k, j>> /\ k \in cuts
                /\ Gap(cuts, i - 1, k) /\ Gap(cuts, k, j)
  <2>1. PICK i \in 1 .. L, k \in 1 .. L, j \in 1 .. L : m = <<i, k, j>>
    BY <1>3 DEF Neighbouring
  <2>2. /\ i <= k /\ k < j
        /\ (i - 1 .. j) \cap (cuts \cup {0, L}) = {i - 1, k, j}
    BY <1>3, <2>1 DEF Neighbouring
  <2> QED
    BY <1>2, <2>1, <2>2
<1>4. ASSUME NEW i \in 1 .. L, NEW k \in 1 .. L, NEW j \in 1 .. L, m = <<i, k, j>>, k \in cuts,
             Gap(cuts, i - 1, k), Gap(cuts, k, j)
      PROVE  m \in Neighbouring(cuts)
  <2>1. /\ i <= k /\ k < j
        /\ (i - 1 .. j) \cap (cuts \cup {0, L}) = {i - 1, k, j}
    BY <1>2, <1>4
  <2>2. m \in (1 .. L) \X (1 .. L) \X (1 .. L) /\ m[1] = i /\ m[2] = k /\ m[3] = j
    BY <1>4
  <2> QED
    BY <2>1, <2>2 DEF Neighbouring
<1> QED
  BY <1>3, <1>4

\* While there is a cut, two segments can be merged.
LEMMA NeighboursThere ==
    ASSUME Template, NEW cuts \in SUBSET Cuts, cuts # {}
    PROVE  Neighbouring(cuts) # {}
<1>1. L \in Int /\ 1 <= L /\ \A n \in cuts : n \in Int /\ 1 <= n /\ n <= L - 1
  <2>1. L \in Int /\ 1 <= L
    BY Heights
  <2>2. \A n \in Cuts : n \in Int /\ 1 <= n /\ n <= L - 1
    BY <2>1 DEF Cuts
  <2> QED
    BY <2>1, <2>2
<1>2. PICK k \in cuts : \A n \in cuts : k <= n
  <2>1. cuts \subseteq Nat
    BY <1>1
  <2> QED
    BY <2>1, Least
<1> DEFINE R == {n \in cuts \cup {L} : k < n}
<1>3. PICK j \in R : \A n \in R : j <= n
  <2>1. R \subseteq Nat
    BY <1>1
  <2>2. L \in R
    BY <1>1, <1>2
  <2> HIDE DEF R
  <2> QED
    BY <2>1, <2>2, Least
<1>4. 1 \in 1 .. L /\ k \in 1 .. L /\ j \in 1 .. L /\ 1 - 1 = 0
  BY <1>1
<1>5. Gap(cuts, 0, k)
  <2>1. \A n \in cuts : ~ (0 < n /\ n < k)
    BY <1>1, <1>2
  <2> QED
    BY <1>1, <2>1 DEF Gap
<1>6. Gap(cuts, k, j)
  <2>1. \A n \in cuts : ~ (k < n /\ n < j)
    <3> SUFFICES ASSUME NEW n \in cuts, k < n PROVE ~ n < j
      OBVIOUS
    <3>1. n \in R /\ j \in Int /\ n \in Int
      BY <1>1
    <3> QED
      BY <1>3, <3>1
  <2> QED
    BY <1>1, <1>3, <2>1 DEF Gap
<1>7. <<1, k, j>> \in Neighbouring(cuts)
  BY <1>4, <1>5, <1>6, GapIs
<1> QED
  BY <1>7

\* Induction over the sets of cuts, by the cuts taken away.
LEMMA CutsFinite ==
    ASSUME Template, NEW cuts \in SUBSET Cuts
    PROVE  /\ Cardinality(cuts) \in 0 .. L /\ (Cardinality(cuts) = 0 <=> cuts = {})
           /\ \A c \in cuts : Cardinality(cuts \ {c}) = Cardinality(cuts) - 1
<1>1. L \in Int /\ 1 <= L
  BY Heights
<1>2. IsFiniteSet(Cuts) /\ Cardinality(Cuts) <= L
  <2>1. 1 \in Int /\ L - 1 \in Int
    BY <1>1
  <2>2. IsFiniteSet(1 .. L - 1) /\ Cardinality(1 .. L - 1) = IF 1 > L - 1 THEN 0 ELSE L - 1 - 1 + 1
    BY <2>1, FS_Interval
  <2> QED
    BY <1>1, <2>2 DEF Cuts
<1>3. IsFiniteSet(cuts) /\ Cardinality(cuts) <= Cardinality(Cuts)
  BY <1>2, FS_Subset
<1>4. Cardinality(cuts) \in Nat /\ Cardinality(Cuts) \in Nat
  BY <1>2, <1>3, FS_CardinalityType
<1>5. Cardinality(cuts) = 0 <=> cuts = {}
  BY <1>3, FS_EmptySet
<1>6. \A c \in cuts : Cardinality(cuts \ {c}) = Cardinality(cuts) - 1
  BY <1>3, FS_RemoveElement
<1> QED
  BY <1>1, <1>2, <1>3, <1>4, <1>5, <1>6

LEMMA ByCuts ==
    ASSUME Template, NEW T,
           \A cuts \in SUBSET Cuts : (\A c \in cuts : cuts \ {c} \in T) => cuts \in T
    PROVE  \A cuts \in SUBSET Cuts : cuts \in T
<1> SUFFICES ASSUME ~ \A cuts \in SUBSET Cuts : cuts \in T PROVE FALSE
  OBVIOUS
<1> DEFINE U == {d \in Nat : \E cuts \in SUBSET Cuts : cuts \notin T /\ d = Cardinality(cuts)}
<1>1. \A cuts \in SUBSET Cuts : Cardinality(cuts) \in Nat
  BY CutsFinite, Heights
<1>2. U \subseteq Nat /\ U # {}
  BY <1>1
<1>3. PICK d \in U : \A n \in U : d <= n
  <2> HIDE DEF U
  <2> QED
    BY <1>2, Least
<1>4. PICK cuts \in SUBSET Cuts : cuts \notin T /\ d = Cardinality(cuts)
  BY <1>3
<1>5. ASSUME NEW c \in cuts PROVE cuts \ {c} \in T
  <2>1. PICK rest \in SUBSET Cuts : rest = cuts \ {c}
    OBVIOUS
  <2>2. Cardinality(rest) \in Nat /\ Cardinality(rest) = d - 1 /\ d \in Nat
    BY <1>1, <1>4, <2>1, CutsFinite
  <2>3. Cardinality(rest) \notin U
    BY <1>3, <2>2
  <2> QED
    BY <2>1, <2>2, <2>3
<1> QED
  BY <1>4, <1>5

\* The reference's cost of a merge is the DP's, where no part is i2s.
LEMMA MergeCostIs ==
    ASSUME Template, Declared, NEW i \in 1 .. L, NEW k \in 1 .. L, NEW j \in 1 .. L
    PROVE  MergeCost(<<i, k, j>>) = Delta(i, k, j)
<1>1. \A n \in i .. k : n \in 1 .. L /\ tmpl[n].kind \in {"fixed", "hidden"}
  <2> SUFFICES ASSUME NEW n \in i .. k PROVE n \in 1 .. L /\ tmpl[n].kind \in {"fixed", "hidden"}
    OBVIOUS
  <2>1. n \in 1 .. L
    BY Heights
  <2>2. tmpl[n].kind \in {"fixed", "hidden", "i2s"}
    BY <2>1, Heights, Constants
  <2> QED
    BY <2>1, <2>2 DEF Declared
<1>2. (\A n \in i .. k : tmpl[n].kind = "fixed") <=> DeclaredPub(i, k)
  BY <1>1 DEF DeclaredPub
<1>3. PICK m : m = <<i, k, j>>
  OBVIOUS
<1>4. MergeCost(m) = IF \A n \in i .. k : tmpl[n].kind = "fixed" THEN 0
                     ELSE HSum(i, j) * Levels[HSum(i, j)]
  <2>1. m[1] = i /\ m[2] = k /\ m[3] = j
    BY <1>3
  <2> QED
    BY <2>1 DEF MergeCost
<1> QED
  BY <1>2, <1>3, <1>4 DEF Delta

\* A way to merge: its ends and cut, and its cost.
LEMMA NeighbourIs ==
    ASSUME Template, Declared, ~ NoLog, NEW cuts \in SUBSET Cuts, NEW m \in Neighbouring(cuts)
    PROVE  \E i \in 1 .. L : \E k \in i .. L : \E j \in k + 1 .. L :
              /\ k < L /\ k \in cuts /\ m = <<i, k, j>> /\ m[2] = k
              /\ Gap(cuts, i - 1, k) /\ Gap(cuts, k, j)
              /\ MergeCost(m) = Delta(i, k, j) /\ Delta(i, k, j) \in Nat
<1>1. PICK i \in 1 .. L : \E k \in 1 .. L : \E j \in 1 .. L :
        /\ m = <<i, k, j>> /\ k \in cuts /\ Gap(cuts, i - 1, k) /\ Gap(cuts, k, j)
  BY GapIs
<1>2. PICK k \in 1 .. L, j \in 1 .. L :
        /\ m = <<i, k, j>> /\ k \in cuts /\ Gap(cuts, i - 1, k) /\ Gap(cuts, k, j)
  BY <1>1
<1>3. k \in i .. L /\ j \in k + 1 .. L /\ k < L
  <2>1. i - 1 < k /\ k < j
    BY <1>2 DEF Gap
  <2> QED
    BY <2>1, Heights
<1>4. MergeCost(m) = Delta(i, k, j)
  BY <1>2, MergeCostIs
<1>5. Delta(i, k, j) \in Nat
  BY <1>3, DeltaNat
<1>6. m[2] = k
  BY <1>2
<1> QED
  BY <1>2, <1>3, <1>4, <1>5, <1>6

(***************************************************************************)
(* The reference: least[cuts] is what it costs to merge the cuts away.     *)
(***************************************************************************)
CutCost(least, cuts) ==
    IF cuts = {} THEN 0
    ELSE Min({MergeCost(m) + least[cuts \ {m[2]}] : m \in Neighbouring(cuts)})

LEMMA CutCostIs ==
    ASSUME Template, Declared, ~ NoLog, NEW cuts \in SUBSET Cuts, cuts # {}, NEW least,
           \A c \in cuts : least[cuts \ {c}] \in Nat
    PROVE  /\ CutCost(least, cuts) \in Nat
           /\ \A m \in Neighbouring(cuts) :
                CutCost(least, cuts) <= MergeCost(m) + least[cuts \ {m[2]}]
           /\ \E m \in Neighbouring(cuts) :
                CutCost(least, cuts) = MergeCost(m) + least[cuts \ {m[2]}]
<1> DEFINE V == {MergeCost(m) + least[cuts \ {m[2]}] : m \in Neighbouring(cuts)}
<1>1. \A m \in Neighbouring(cuts) : MergeCost(m) + least[cuts \ {m[2]}] \in Nat
  <2> SUFFICES ASSUME NEW m \in Neighbouring(cuts)
               PROVE  MergeCost(m) + least[cuts \ {m[2]}] \in Nat
    OBVIOUS
  <2>1. MergeCost(m) \in Nat /\ m[2] \in cuts
    BY NeighbourIs
  <2>2. least[cuts \ {m[2]}] \in Nat
    BY <2>1
  <2> QED
    BY <2>1, <2>2
<1>2. V \subseteq Nat /\ V # {}
  BY <1>1, NeighboursThere
<1>3. Min(V) \in V /\ \A n \in V : Min(V) <= n
  <2> HIDE DEF V
  <2> QED
    BY <1>2, MinIs
<1>4. CutCost(least, cuts) = Min(V)
  BY DEF CutCost
<1>5. PICK v : v = Min(V)
  OBVIOUS
<1>6. v \in V /\ \A n \in V : v <= n
  BY <1>3, <1>5
<1>7. v = CutCost(least, cuts)
  BY <1>4, <1>5
<1> QED
  BY <1>2, <1>6, <1>7

Leasts(least) == \A cuts \in SUBSET Cuts : least[cuts] = CutCost(least, cuts)

LEMMA LeastsNat ==
    ASSUME Template, Declared, ~ NoLog, NEW least, Leasts(least)
    PROVE  \A cuts \in SUBSET Cuts : least[cuts] \in Nat
<1> DEFINE T == {cuts \in SUBSET Cuts : least[cuts] \in Nat}
<1>1. ASSUME NEW cuts \in SUBSET Cuts, \A c \in cuts : cuts \ {c} \in T
      PROVE  cuts \in T
  <2>1. CASE cuts = {}
    <3>1. CutCost(least, cuts) = 0
      BY <2>1 DEF CutCost
    <3>2. least[cuts] = CutCost(least, cuts)
      BY DEF Leasts
    <3> QED
      BY <3>1, <3>2
  <2>2. CASE cuts # {}
    <3>1. CutCost(least, cuts) \in Nat
      BY <1>1, <2>2, CutCostIs
    <3> QED
      BY <3>1 DEF Leasts
  <2> QED
    BY <2>1, <2>2
<1>2. \A cuts \in SUBSET Cuts : cuts \in T
  <2> HIDE DEF T
  <2> QED
    BY <1>1, ByCuts
<1> QED
  BY <1>2

\* The recursion has a solution: filled in by the number of cuts.
LEMMA LeastsThere ==
    ASSUME Template, Declared, ~ NoLog
    PROVE  \E least : least = [cuts \in SUBSET Cuts |-> CutCost(least, cuts)]
<1> DEFINE Rows == [SUBSET Cuts -> Nat]
           Costs(e) == [cuts \in SUBSET Cuts |-> CutCost(e, cuts)]
           F == [n \in Int |-> [e \in Rows |-> Costs(e)]]
           none == [cuts \in SUBSET Cuts |-> 0]
<1>1. ASSUME NEW e \in Rows, NEW cuts \in SUBSET Cuts PROVE CutCost(e, cuts) \in Nat
  <2>1. CASE cuts = {}
    BY <2>1 DEF CutCost
  <2>2. CASE cuts # {}
    <3>1. \A c \in cuts : e[cuts \ {c}] \in Nat
      OBVIOUS
    <3> QED
      BY <2>2, <3>1, CutCostIs
  <2> QED
    BY <2>1, <2>2
<1>2. F \in [Int -> [Rows -> Rows]]
  BY <1>1
<1>3. \A n \in Int, e \in Rows, cuts \in SUBSET Cuts : F[n][e][cuts] = CutCost(e, cuts)
  OBVIOUS
<1>4. none \in Rows
  OBVIOUS
<1>5. L \in Nat /\ 0 <= L /\ 0 \in Int /\ L \in Int
  BY Heights
<1>6. PICK f : Unfolds(f, 0, L, Rows, none, F)
  <2> HIDE DEF F, Rows, none
  <2> QED
    BY ONLY <1>2, <1>4, <1>5, Recursion
<1>7. /\ f \in [0 .. L -> Rows] /\ f[0] = none
      /\ \A n \in 1 .. L, cuts \in SUBSET Cuts : f[n][cuts] = CutCost(f[n - 1], cuts)
  <2>1. f \in [0 .. L -> Rows] /\ f[0] = none /\ \A n \in 1 .. L : f[n] = F[n][f[n - 1]]
    <3>1. 0 + 1 = 1
      OBVIOUS
    <3> HIDE DEF F, Rows, none
    <3> QED
      BY <1>6, <3>1 DEF Unfolds
  <2>2. \A n \in 1 .. L : n \in Int /\ f[n - 1] \in Rows
    <3> HIDE DEF Rows, none
    <3> QED
      BY <1>5, <2>1
  <2> HIDE DEF F, Rows, none
  <2> QED
    BY <1>3, <2>1, <2>2
<1>8. PICK least : least = [cuts \in SUBSET Cuts |-> f[Cardinality(cuts)][cuts]]
  OBVIOUS
<1>9. ASSUME NEW cuts \in SUBSET Cuts PROVE least[cuts] = CutCost(least, cuts)
  <2>1. PICK d \in 0 .. L : d = Cardinality(cuts) /\ (d = 0 <=> cuts = {})
    BY CutsFinite
  <2>2. least[cuts] = f[d][cuts]
    BY <1>8, <2>1
  <2>3. CASE cuts = {}
    <3>1. f[0][cuts] = 0
      BY <1>7
    <3> QED
      BY <2>1, <2>2, <2>3, <3>1 DEF CutCost
  <2>4. CASE cuts # {}
    <3>1. d \in 1 .. L
      BY <1>5, <2>1, <2>4
    <3>2. f[d][cuts] = CutCost(f[d - 1], cuts)
      BY <1>7, <3>1
    <3>3. \A c \in cuts : least[cuts \ {c}] = f[d - 1][cuts \ {c}]
      <4> SUFFICES ASSUME NEW c \in cuts PROVE least[cuts \ {c}] = f[d - 1][cuts \ {c}]
        OBVIOUS
      <4>1. PICK rest \in SUBSET Cuts : rest = cuts \ {c}
        OBVIOUS
      <4>2. Cardinality(rest) = d - 1
        BY <2>1, <4>1, CutsFinite
      <4> QED
        BY <1>8, <4>1, <4>2
    <3>4. {MergeCost(m) + least[cuts \ {m[2]}] : m \in Neighbouring(cuts)}
            = {MergeCost(m) + f[d - 1][cuts \ {m[2]}] : m \in Neighbouring(cuts)}
      <4>1. \A m \in Neighbouring(cuts) : least[cuts \ {m[2]}] = f[d - 1][cuts \ {m[2]}]
        BY <3>3, NeighbourIs
      <4> QED
        BY <4>1
    <3>5. CutCost(f[d - 1], cuts) = CutCost(least, cuts)
      BY <3>4 DEF CutCost
    <3> QED
      BY <2>2, <3>2, <3>5
  <2> QED
    BY <2>3, <2>4
<1>10. least = [cuts \in SUBSET Cuts |-> CutCost(least, cuts)]
  BY <1>8, <1>9
<1> QED
  BY <1>10

LEMMA CheapestIs ==
    ASSUME Template, Declared, ~ NoLog
    PROVE  \E least : Leasts(least) /\ Cheapest = least[Cuts]
<1>1. \E least : least = [cuts \in SUBSET Cuts |-> CutCost(least, cuts)]
  BY LeastsThere
<1>2. \E least : /\ least = [cuts \in SUBSET (1 .. L - 1) |->
                       IF cuts = {} THEN 0
                       ELSE Min({MergeCost(m) + least[cuts \ {m[2]}] : m \in Neighbouring(cuts)})]
                 /\ Cheapest = least[1 .. L - 1]
  BY <1>1 DEF Cheapest, CutCost, Cuts
<1> QED
  BY <1>2 DEF Leasts, CutCost, Cuts

\* A range costs no more than its halves and their merge.
LEMMA CheapSplits ==
    ASSUME Template, Cheap, NEW i \in 1 .. L, NEW k \in i .. L, NEW j \in k + 1 .. L
    PROVE  G[<<i, j>>] <= G[<<i, k>>] + G[<<k + 1, j>>] + Delta(i, k, j)
<1>1. j \in i + 1 .. L /\ k \in i .. j - 1
  BY Heights
<1>2. G[<<i, j>>] <= Through(i, k, j)
  BY <1>1 DEF Cheap, Best
<1> QED
  BY <1>2 DEF Through

\* w[q] is what the segments before cut q have cost to make.
Weighs(w, cuts) ==
    /\ w \in [0 .. L -> Int] /\ w[0] = 0
    /\ \A p \in 0 .. L : \A q \in 0 .. L :
         Gap(cuts, p, q) => w[q] = w[p] + G[<<p + 1, q>>]

\* No order costs less than the table says: a merge costs at least what
\* the table says the new segment costs more than its halves.
LEMMA CheapIsLow ==
    ASSUME Template, Declared, ~ NoLog, Cheap, NEW least, Leasts(least)
    PROVE  G[<<1, L>>] <= least[Cuts]
<1>0. /\ L \in Int /\ 1 <= L /\ 0 \in 0 .. L /\ L \in 0 .. L
      /\ \A p \in 0 .. L : \A q \in 0 .. L : p < q => G[<<p + 1, q>>] \in Nat
  <2>1. L \in Int /\ 1 <= L
    BY Heights
  <2>2. ASSUME NEW p \in 0 .. L, NEW q \in 0 .. L, p < q PROVE G[<<p + 1, q>>] \in Nat
    <3>1. <<p + 1, q>> \in Ranges
      BY <2>1, <2>2 DEF Ranges
    <3> QED
      BY <3>1 DEF Cheap
  <2> QED
    BY <2>1, <2>2
<1> DEFINE T == {cuts \in SUBSET Cuts : \A w : Weighs(w, cuts) =>
                                          G[<<1, L>>] <= w[L] + least[cuts]}
<1>1. ASSUME NEW cuts \in SUBSET Cuts, \A c \in cuts : cuts \ {c} \in T
      PROVE  cuts \in T
  <2> SUFFICES ASSUME NEW w, Weighs(w, cuts) PROVE G[<<1, L>>] <= w[L] + least[cuts]
    OBVIOUS
  <2>1. w \in [0 .. L -> Int] /\ w[0] = 0
    BY DEF Weighs
  <2>2. CASE cuts = {}
    <3>1. Gap(cuts, 0, L)
      BY <1>0, <2>2 DEF Gap
    <3>2. w[L] = w[0] + G[<<0 + 1, L>>]
      BY <1>0, <3>1 DEF Weighs
    <3>3. least[cuts] = 0
      BY <2>2 DEF Leasts, CutCost
    <3>4. 0 + 1 = 1 /\ G[<<0 + 1, L>>] \in Nat
      BY <1>0
    <3> QED
      BY <2>1, <3>2, <3>3, <3>4
  <2>3. CASE cuts # {}
    <3>1. PICK m \in Neighbouring(cuts) :
            least[cuts] = MergeCost(m) + least[cuts \ {m[2]}]
      <4>1. \A c \in cuts : least[cuts \ {c}] \in Nat
        BY LeastsNat
      <4> QED
        BY <2>3, <4>1, CutCostIs DEF Leasts
    <3>2. PICK i \in 1 .. L : \E k \in i .. L : \E j \in k + 1 .. L :
              /\ k < L /\ k \in cuts /\ m[2] = k
              /\ Gap(cuts, i - 1, k) /\ Gap(cuts, k, j)
              /\ MergeCost(m) = Delta(i, k, j) /\ Delta(i, k, j) \in Nat
      BY NeighbourIs
    <3>3. PICK k \in i .. L, c \in Nat : \E j \in k + 1 .. L :
              /\ k < L /\ k \in cuts /\ m[2] = k
              /\ Gap(cuts, i - 1, k) /\ Gap(cuts, k, j)
              /\ MergeCost(m) = c /\ Delta(i, k, j) = c
      BY <3>2
    <3>4. PICK j \in k + 1 .. L :
              /\ k < L /\ k \in cuts /\ m[2] = k
              /\ Gap(cuts, i - 1, k) /\ Gap(cuts, k, j)
              /\ MergeCost(m) = c /\ Delta(i, k, j) = c
      BY <3>3
    <3>5. PICK rest \in SUBSET Cuts : rest = cuts \ {k} /\ rest \in T
      BY <1>1, <3>4
    <3>6. PICK p \in 0 .. L : p = i - 1 /\ p + 1 = i /\ p < k /\ k < j
      BY <1>0
    <3>7. /\ k \in 0 .. L /\ j \in 0 .. L /\ p \in Int /\ k \in Int /\ j \in Int
          /\ w[p] \in Int /\ w[k] \in Int /\ w[j] \in Int /\ w[L] \in Int
      BY <1>0, <2>1
    <3>8. PICK a \in Nat, b \in Nat, d \in Nat :
            a = G[<<p + 1, k>>] /\ b = G[<<k + 1, j>>] /\ d = G[<<p + 1, j>>]
      <4>1. p < j
        BY <3>6, <3>7
      <4> QED
        BY <1>0, <3>6, <3>7, <4>1
    <3>9. d <= a + b + c
      BY <3>4, <3>6, <3>8, CheapSplits
    <3>10. w[k] = w[p] + a /\ w[j] = w[k] + b
      BY <3>4, <3>6, <3>7, <3>8 DEF Weighs
    <3>11. PICK v : v = [n \in 0 .. L |-> IF n < j THEN w[n] ELSE w[n] - (a + b - d)]
      OBVIOUS
    <3>12. Weighs(v, rest)
      <4>1. v \in [0 .. L -> Int]
        <5>1. \A n \in 0 .. L : w[n] \in Int /\ w[n] - (a + b - d) \in Int
          <6>1. PICK e \in Int : e = a + b - d
            BY <3>8
          <6>2. ASSUME NEW n \in 0 .. L PROVE w[n] \in Int
            BY <2>1
          <6>3. \A z \in Int : z - e \in Int
            OBVIOUS
          <6> QED
            BY <6>1, <6>2, <6>3
        <5> QED
          BY <3>11, <5>1
      <4>2. v[0] = 0
        BY <1>0, <2>1, <3>7, <3>11
      <4>3. ASSUME NEW x \in 0 .. L, NEW y \in 0 .. L, Gap(rest, x, y)
            PROVE  v[y] = v[x] + G[<<x + 1, y>>]
        <5>1. /\ x \in cuts \cup {0, L} /\ y \in cuts \cup {0, L} /\ x < y
              /\ (x # k /\ y # k)
              /\ \A n \in cuts : n # k => ~ (x < n /\ n < y)
          <6>1. k # 0 /\ k # L
            BY <3>4, <3>7, <3>6
          <6> QED
            BY <3>5, <4>3, <6>1 DEF Gap
        <5>2. /\ p \in cuts \cup {0, L} /\ j \in cuts \cup {0, L}
              /\ \A n \in cuts : ~ (p < n /\ n < k) /\ ~ (k < n /\ n < j)
          BY <3>4, <3>6 DEF Gap
        <5>3. /\ x \in Int /\ y \in Int /\ w[x] \in Int /\ w[y] \in Int
              /\ G[<<x + 1, y>>] \in Nat
          BY <1>0, <2>1, <5>1
        <5>4. ~ (p < x /\ x < j) /\ ~ (p < y /\ y < j)
          <6>1. \A n \in cuts \cup {0, L} : p < n /\ n < j => n = k
            <7> SUFFICES ASSUME NEW n \in cuts \cup {0, L}, p < n, n < j PROVE n = k
              OBVIOUS
            <7>1. n # 0 /\ n # L
              BY <1>0, <3>6, <3>7
            <7>2. n \in cuts /\ n \in Int
              BY <1>0, <7>1 DEF Cuts
            <7> QED
              BY <3>7, <5>2, <7>2
          <6> QED
            BY <5>1, <6>1
        <5>5. ~ (x < p /\ p < y) /\ ~ (x < j /\ j < y)
          <6>1. \A n \in cuts \cup {0, L} : n # k => ~ (x < n /\ n < y)
            BY <1>0, <5>1, <5>3
          <6> QED
            BY <3>6, <3>7, <5>2, <6>1
        <5>6. CASE x = p /\ y = j
          <6>1. v[y] = w[j] - (a + b - d) /\ v[x] = w[p]
            BY <3>6, <3>7, <3>11, <5>6
          <6> QED
            BY <3>7, <3>8, <3>10, <5>6, <6>1
        <5>7. CASE ~ (x = p /\ y = j)
          <6>1. y <= p \/ j <= x
            BY <3>6, <3>7, <5>1, <5>3, <5>4, <5>5, <5>7
          <6>2. ~ (x < k /\ k < y)
            BY <3>6, <3>7, <5>3, <6>1
          <6>3. Gap(cuts, x, y)
            BY <5>1, <6>2 DEF Gap
          <6>4. w[y] = w[x] + G[<<x + 1, y>>]
            BY <6>3 DEF Weighs
          <6>5. v[x] = (IF x < j THEN w[x] ELSE w[x] - (a + b - d))
                /\ v[y] = (IF y < j THEN w[y] ELSE w[y] - (a + b - d))
            BY <3>11
          <6>6. (x < j /\ y < j) \/ (~ x < j /\ ~ y < j)
            BY <3>6, <3>7, <5>1, <5>3, <6>1
          <6> QED
            BY <3>8, <5>3, <6>4, <6>5, <6>6
        <5> QED
          BY <5>6, <5>7
      <4> QED
        BY <4>1, <4>2, <4>3 DEF Weighs
    <3>13. G[<<1, L>>] <= v[L] + least[rest]
      BY <3>5, <3>12
    <3>14. v[L] = w[L] - (a + b - d)
      <4>1. ~ L < j
        BY <1>0, <3>7
      <4> QED
        BY <1>0, <3>11, <4>1
    <3>15. PICK z \in Nat : z = least[rest]
      BY LeastsNat
    <3>16. least[cuts] = c + z
      BY <3>1, <3>4, <3>5, <3>15
    <3>17. G[<<1, L>>] \in Nat
      <4>1. 0 + 1 = 1 /\ 0 < L
        BY <1>0
      <4> QED
        BY <1>0, <4>1
    <3> QED
      BY <3>7, <3>8, <3>9, <3>13, <3>14, <3>15, <3>16, <3>17
  <2> QED
    BY <2>2, <2>3
<1>2. \A cuts \in SUBSET Cuts : cuts \in T
  <2> HIDE DEF T
  <2> QED
    BY <1>1, ByCuts
<1>3. PICK w : w = [n \in 0 .. L |-> 0]
  OBVIOUS
<1>4. Weighs(w, Cuts)
  <2>1. ASSUME NEW p \in 0 .. L, NEW q \in 0 .. L, Gap(Cuts, p, q)
        PROVE  w[q] = w[p] + G[<<p + 1, q>>]
    <3>1. p < q /\ p \in Int /\ q \in Int
      BY <1>0, <2>1 DEF Gap
    <3>2. q = p + 1
      <4> SUFFICES ASSUME p + 1 < q PROVE FALSE
        BY <3>1
      <4>1. p + 1 \in Cuts /\ p < p + 1
        BY <1>0, <3>1 DEF Cuts
      <4> QED
        BY <2>1, <4>1 DEF Gap
    <3>3. q \in 1 .. L
      BY <1>0, <3>2
    <3>4. G[<<q, q>>] = 0
      BY <3>3 DEF Cheap
    <3> QED
      BY <1>3, <3>2, <3>4
  <2> QED
    BY <1>0, <1>3, <2>1 DEF Weighs
<1>5. Cuts \in T /\ w[L] = 0
  BY <1>0, <1>2, <1>3
<1>6. least[Cuts] \in Nat
  BY LeastsNat
<1> QED
  BY <1>4, <1>5, <1>6

\* Some order costs no more: the DP's own.
LEMMA CheapIsHigh ==
    ASSUME Template, Declared, ~ NoLog, Cheap, NEW least, Leasts(least)
    PROVE  least[Cuts] <= G[<<1, L>>]
<1>0. Planned
  BY DEF Planned, Cheap, Best
<1> DEFINE Within(cuts, i, j) == /\ i .. j - 1 \subseteq cuts /\ i - 1 \in cuts \cup {0, L}
                                 /\ j \in cuts \cup {0, L}
           T == {ij \in Ranges : ij[1] <= ij[2] =>
                   \A cuts \in SUBSET Cuts : Within(cuts, ij[1], ij[2]) =>
                     least[cuts] <= G[ij] + least[cuts \ (ij[1] .. ij[2] - 1)]}
<1>1. ASSUME NEW ij \in Ranges,
             ~ ij[1] >= ij[2] => <<ij[1], K[ij]>> \in T /\ <<K[ij] + 1, ij[2]>> \in T
      PROVE  ij \in T
  <2> SUFFICES ASSUME ij[1] <= ij[2], NEW cuts \in SUBSET Cuts, Within(cuts, ij[1], ij[2])
               PROVE  least[cuts] <= G[ij] + least[cuts \ (ij[1] .. ij[2] - 1)]
    OBVIOUS
  <2>1. PICK i \in 1 .. L, j \in 1 .. L : ij = <<i, j>> /\ ij[1] = i /\ ij[2] = j
    BY DEF Ranges
  <2>2. i \in Int /\ j \in Int /\ L \in Int /\ 1 <= i /\ i <= j /\ j <= L
    BY <2>1, Heights
  <2>3. CASE i = j
    <3>1. G[ij] = 0
      BY <2>1, <2>3 DEF Cheap
    <3>2. i .. j - 1 = {}
      BY <2>2, <2>3
    <3>3. cuts \ (ij[1] .. ij[2] - 1) = cuts
      BY <2>1, <3>2
    <3>4. least[cuts] \in Nat
      BY LeastsNat
    <3> QED
      BY <3>1, <3>3, <3>4
  <2>4. CASE i < j
    <3>1. j \in i + 1 .. L /\ ~ ij[1] >= ij[2]
      BY <2>1, <2>2, <2>4
    <3>2. PICK k \in i .. j - 1 : k = K[ij] /\ G[ij] = Through(i, k, j)
      BY <2>1, <3>1 DEF Cheap, Best
    <3>3. PICK x, y : x = <<i, k>> /\ y = <<k + 1, j>>
      OBVIOUS
    <3>4. x \in T /\ y \in T /\ x \in Ranges /\ y \in Ranges
      BY <1>0, <1>1, <2>1, <3>1, <3>2, <3>3, RangeHalves
    <3>5. /\ k \in Int /\ i <= k /\ k < j /\ x[1] = i /\ x[2] = k /\ y[1] = k + 1 /\ y[2] = j
          /\ x[1] <= x[2] /\ y[1] <= y[2] /\ (k + 1) - 1 = k
      BY <2>2, <3>2, <3>3
    <3>6. PICK one \in SUBSET Cuts : one = cuts \ (i .. k - 1)
      OBVIOUS
    <3>7. PICK two \in SUBSET Cuts : two = one \ (k + 1 .. j - 1)
      OBVIOUS
    <3>8. PICK rest \in SUBSET Cuts : rest = two \ {k}
      OBVIOUS
    <3>9. /\ \A n \in i .. j - 1 : n \in cuts
          /\ i - 1 \in cuts \cup {0, L} /\ j \in cuts \cup {0, L}
      BY <2>1
    <3>10. rest = cuts \ (i .. j - 1)
      <4>1. \A n \in cuts : n \in Int
        BY DEF Cuts
      <4>2. \A n \in Int : n \in i .. j - 1 <=> n \in i .. k - 1 \/ n = k \/ n \in k + 1 .. j - 1
        BY <2>2, <3>5
      <4> QED
        BY <3>6, <3>7, <3>8, <4>1, <4>2
    <3>11. least[cuts] <= G[x] + least[one]
      <4>1. Within(cuts, i, k)
        BY <2>2, <3>2, <3>5, <3>9
      <4> QED
        BY <3>4, <3>5, <3>6, <4>1
    <3>12. least[one] <= G[y] + least[two]
      <4>1. \A n \in k .. j : ~ n \in i .. k - 1
        BY <2>2, <3>5
      <4>2. k \in k .. j /\ j \in k .. j /\ k \in i .. j - 1 /\ k + 1 - 1 = k
        BY <2>2, <3>5
      <4>3. \A n \in k + 1 .. j - 1 : n \in k .. j /\ n \in i .. j - 1
        BY <2>2, <3>5
      <4>4. Within(one, k + 1, j)
        BY <3>6, <3>9, <4>1, <4>2, <4>3
      <4> QED
        BY <3>4, <3>5, <3>7, <4>4
    <3>13. least[two] <= Delta(i, k, j) + least[rest] /\ Delta(i, k, j) \in Nat
      <4>1. k \in two
        <5>1. k \in i .. j - 1 /\ ~ k \in i .. k - 1 /\ ~ k \in k + 1 .. j - 1
          BY <2>2, <3>5
        <5> QED
          BY <3>6, <3>7, <3>9, <5>1
      <4>2. \A n \in cuts : n \in Int
        BY DEF Cuts
      <4>3. Gap(two, i - 1, k)
        <5>1. i - 1 \in two \cup {0, L}
          <6>1. ~ i - 1 \in i .. k - 1 /\ ~ i - 1 \in k + 1 .. j - 1
            BY <2>2, <3>5
          <6> QED
            BY <3>6, <3>7, <3>9, <6>1
        <5>2. \A n \in two : ~ (i - 1 < n /\ n < k)
          BY <2>2, <3>5, <3>6, <3>7, <4>2
        <5> QED
          BY <2>2, <3>5, <4>1, <5>1, <5>2 DEF Gap
      <4>4. Gap(two, k, j)
        <5>1. j \in two \cup {0, L}
          <6>1. ~ j \in i .. k - 1 /\ ~ j \in k + 1 .. j - 1
            BY <2>2, <3>5
          <6> QED
            BY <3>6, <3>7, <3>9, <6>1
        <5>2. \A n \in two : ~ (k < n /\ n < j)
          BY <2>2, <3>5, <3>6, <3>7, <4>2
        <5> QED
          BY <3>5, <4>1, <5>1, <5>2 DEF Gap
      <4>5. PICK m : m = <<i, k, j>>
        OBVIOUS
      <4>6. k \in 1 .. L /\ k \in i .. L /\ k < L /\ j \in k + 1 .. L /\ m[2] = k
        BY <2>2, <3>5, <4>5
      <4>7. m \in Neighbouring(two)
        BY <4>1, <4>3, <4>4, <4>5, <4>6, GapIs
      <4>8. MergeCost(m) = Delta(i, k, j) /\ Delta(i, k, j) \in Nat
        BY <4>5, <4>6, MergeCostIs, DeltaNat
      <4>9. CutCost(least, two) <= MergeCost(m) + least[two \ {m[2]}]
        <5>1. \A c \in two : least[two \ {c}] \in Nat
          BY LeastsNat
        <5>2. two # {}
          BY <4>1
        <5> QED
          BY <4>7, <5>1, <5>2, CutCostIs
      <4> QED
        BY <3>8, <4>6, <4>8, <4>9 DEF Leasts
    <3>14. G[ij] = G[x] + G[y] + Delta(i, k, j)
      BY <3>2, <3>3 DEF Through
    <3>15. G[x] \in Nat /\ G[y] \in Nat
      BY <3>4 DEF Cheap
    <3>16. least[cuts] \in Nat /\ least[one] \in Nat /\ least[two] \in Nat /\ least[rest] \in Nat
      BY LeastsNat
    <3>17. least[cuts] <= G[ij] + least[rest]
      BY <3>11, <3>12, <3>13, <3>14, <3>15, <3>16
    <3> QED
      BY <2>1, <3>10, <3>17
  <2> QED
    BY <2>2, <2>3, <2>4
<1>2. \A ij \in Ranges : ij \in T
  <2> HIDE DEF T
  <2> QED
    BY <1>0, <1>1, ByHalves
<1>3. PICK ij \in Ranges : ij = <<1, L>> /\ ij[1] = 1 /\ ij[2] = L
  <2>1. <<1, L>> \in Ranges /\ <<1, L>>[1] = 1 /\ <<1, L>>[2] = L
    BY Heights DEF Ranges
  <2> QED
    BY <2>1
<1>4. 1 <= L /\ Within(Cuts, 1, L)
  BY Heights DEF Cuts
<1>5. least[Cuts] <= G[ij] + least[Cuts \ (1 .. L - 1)]
  BY <1>2, <1>3, <1>4
<1>6. Cuts \ (1 .. L - 1) = {}
  BY DEF Cuts
<1>7. least[{}] = 0
  BY DEF Leasts, CutCost
<1>8. G[ij] \in Nat /\ least[Cuts] \in Nat
  BY LeastsNat DEF Cheap
<1> QED
  BY <1>3, <1>5, <1>6, <1>7, <1>8

LEMMA CheapIsCheapest ==
    ASSUME Template, Declared, ~ NoLog, Cheap
    PROVE  Cheapest = G[<<1, L>>]
<1>1. PICK least : Leasts(least) /\ Cheapest = least[Cuts]
  BY CheapestIs
<1>2. G[<<1, L>>] <= least[Cuts] /\ least[Cuts] <= G[<<1, L>>]
  BY <1>1, CheapIsLow, CheapIsHigh
<1>3. least[Cuts] \in Nat
  BY <1>1, LeastsNat
<1>4. G[<<1, L>>] \in Nat
  <2>1. <<1, L>> \in Ranges
    BY Heights DEF Ranges
  <2> QED
    BY <2>1 DEF Cheap
<1> QED
  BY <1>1, <1>2, <1>3, <1>4

(***************************************************************************)
(* The invariant.  The widths filled in so far hold the cheapest splits;   *)
(* the plan is merges of neighbouring ranges, none before its operands;    *)
(* every range merged so far is the texts of its parts, and there; and     *)
(* the merges so far have cost what the tables said, which for all of them *)
(* is the least cost of the whole template.                                *)
(***************************************************************************)
TabMade == \A i \in 1 .. L : \A j \in i .. L : \A e \in {tab[<<i, j>>]} :
            e # NoSegment => Merged(i, j, e)
Filling ==
    /\ width \in Nat \ {0, 1} /\ G \in [Ranges -> Nat]
    /\ \A i \in 1 .. L : G[<<i, i>>] = 0
    /\ \A i \in 1 .. L : \A j \in i + 1 .. L : j - i + 1 < width => Best(i, j)
Phases ==
    /\ fate \in {"plan", "merge", "done", "raised"}
    /\ fate = "raised" => NoLog
    /\ fate = "plan" => steps = << >> /\ next = 1 /\ cost = 0
    /\ fate \in {"merge", "done"} => ~ NoLog /\ width > L /\ next <= Len(steps) + 1
    /\ fate = "done" => next = Len(steps) + 1
Sorted ==
    \A s \in {steps} :
        Ordered(s) /\ (fate \in {"merge", "done"} => Before(s, Len(s) + 1, 1, L))
There ==
    /\ \A i \in 1 .. L : tab[<<i, i>>] # NoSegment
    /\ \A m \in 1 .. next - 1 : tab[<<steps[m][1], steps[m][3]>>] # NoSegment
Paid ==
    fate \in {"merge", "done"} =>
        \E f : /\ \A s \in {steps} : \A c \in {G[<<1, L>>]} : Bill(f, s, c)
               /\ Declared => cost = f[next - 1]
AssemblyInv ==
    /\ Template
    /\ Filling
    /\ steps \in Seq(Splits) /\ next \in Nat \ {0}
    /\ DOMAIN tab = Ranges
    /\ TabMade
    /\ Phases /\ Sorted /\ There /\ Paid

\* What speaks of the template only stays.
LEMMA SameHeights ==
    ASSUME tmpl' = tmpl, NEW i, NEW j
    PROVE  HSum(i, j)' = HSum(i, j)
BY DEF HSum

LEMMA SameDelta ==
    ASSUME tmpl' = tmpl, NEW i, NEW k, NEW j
    PROVE  Delta(i, k, j)' = Delta(i, k, j)
BY SameHeights DEF Delta, DeclaredPub

LEMMA SameText ==
    ASSUME tmpl' = tmpl, NEW i, NEW j
    PROVE  Joined(i, j)' = Joined(i, j)
BY DEF Joined, TextsOf, Text, Content, Pads

LEMMA SameMerged ==
    ASSUME tmpl' = tmpl, NEW i, NEW j, NEW e, Merged(i, j, e)
    PROVE  Merged(i, j, e)'
BY SameHeights, SameText DEF Merged

LEMMA SameTemplate ==
    ASSUME tmpl' = tmpl
    PROVE  /\ L' = L /\ Ranges' = Ranges /\ Splits' = Splits
           /\ Template' = Template /\ NoLog' = NoLog /\ Declared' = Declared
           /\ \A f, s, c : Bill(f, s, c) => Bill(f, s, c)'
<1>1. L' = L
  BY DEF L
<1>2. Ranges' = Ranges /\ Splits' = Splits
  BY <1>1 DEF Ranges, Splits, Merges, Proper
<1>3. Template' = Template
  BY <1>1 DEF Template
<1>4. NoLog' = NoLog
  BY <1>1, SameHeights DEF NoLog, DeclaredPub
<1>5. Declared' = Declared
  BY <1>1 DEF Declared
<1>6. ASSUME NEW f, NEW s, NEW c, Bill(f, s, c) PROVE Bill(f, s, c)'
  <2>1. ASSUME NEW st PROVE DeltaOf(st)' = DeltaOf(st)
    BY SameDelta DEF DeltaOf
  <2> QED
    BY <1>6, <2>1 DEF Bill
<1> QED
  BY <1>1, <1>2, <1>3, <1>4, <1>5, <1>6

\* What is merged is a segment.
LEMMA MergedThere ==
    ASSUME Template, NEW i \in 1 .. L, NEW j \in i .. L, NEW e, Merged(i, j, e)
    PROVE  e # NoSegment
<1>1. HSum(i, j) \in Nat
  BY HSumNat
<1>2. e.h \in Nat
  BY <1>1 DEF Merged
<1>3. NoSegment.h = -1
  BY DEF NoSegment
<1> QED
  BY <1>2, <1>3

LEMMA AssemblyStarts ==
    ASSUME Init
    PROVE  AssemblyInv
<1>1. PICK n \in 1 .. MaxSegs : tmpl \in [1 .. n -> Parts]
  BY DEF Init
<1>2. n \in Nat /\ MaxSegs \in Nat
  BY Constants
<1>3. tmpl \in Seq(Parts)
  BY <1>1, <1>2, SeqDef
<1>4. L = n
  <2>1. PICK l \in Nat : l = Len(tmpl) /\ DOMAIN tmpl = 1 .. l
    BY <1>3, LenProperties
  <2>2. 1 .. l = 1 .. n
    BY <1>1, <2>1
  <2>3. l = n
    BY ONLY <1>2, <2>2, <2>1
  <2> QED
    BY <2>1, <2>3 DEF L
<1>5. Template
  BY <1>3, <1>4 DEF Template
<1>6. Filling
  <2>1. width = 2 /\ G = [ij \in Ranges |-> 0]
    BY DEF Init
  <2>2. \A i \in 1 .. L : \A j \in i + 1 .. L : ~ j - i + 1 < width
    BY <1>2, <1>4, <2>1
  <2>3. \A i \in 1 .. L : <<i, i>> \in Ranges /\ G[<<i, i>>] = 0
    BY <2>1 DEF Ranges
  <2> QED
    BY <2>1, <2>2, <2>3 DEF Filling
<1>7. TabMade
  <2>1. \A ij \in Ranges : tab[ij] = IF ij[1] = ij[2] THEN Segment(ij[1]) ELSE NoSegment
    BY DEF Init
  <2> SUFFICES ASSUME NEW i \in 1 .. L, NEW j \in i .. L, tab[<<i, j>>] # NoSegment
               PROVE  Merged(i, j, tab[<<i, j>>])
    BY DEF TabMade
  <2>2. <<i, j>> \in Ranges
    BY <1>5, Heights DEF Ranges
  <2>3. i = j /\ tab[<<i, j>>] = Segment(i)
    BY <2>1, <2>2
  <2> QED
    BY <1>5, <2>3, SegmentMerged
<1>8. steps \in Seq(Splits)
  BY EmptySeq DEF Init
<1>9. Phases /\ Paid
  BY DEF Phases, Paid, Init
<1>10. Sorted
  <2>1. PICK s : s = << >> /\ steps = s
    BY DEF Init
  <2>2. Ordered(s)
    BY <2>1 DEF Ordered
  <2> QED
    BY <2>1, <2>2 DEF Sorted, Init
<1>11. There
  <2>1. ASSUME NEW i \in 1 .. L PROVE tab[<<i, i>>] # NoSegment
    <3>1. <<i, i>> \in Ranges
      BY DEF Ranges
    <3>2. tab[<<i, i>>] = Segment(i)
      BY <3>1 DEF Init
    <3>3. i \in i .. L
      BY <1>5, Heights
    <3> QED
      BY <1>5, <3>2, <3>3, SegmentMerged, MergedThere
  <2>2. \A m \in 1 .. next - 1 : FALSE
    BY DEF Init
  <2> QED
    BY <2>1, <2>2 DEF There
<1> QED
  BY <1>5, <1>6, <1>7, <1>8, <1>9, <1>10, <1>11 DEF AssemblyInv, Init

LEMMA PlanWidthKeeps ==
    ASSUME AssemblyInv, PlanWidth
    PROVE  Filling'
<1>1. /\ Template /\ Filling /\ ~ NoLog /\ width \in Nat \ {0, 1} /\ width <= L
      /\ G \in [Ranges -> Nat]
  BY DEF AssemblyInv, PlanWidth, Filling
<1>2. tmpl' = tmpl /\ width' = width + 1
  BY DEF PlanWidth
<1>3. L' = L /\ Ranges' = Ranges
  BY <1>2, SameTemplate
<1>4. PICK Band : Band = {ij \in Ranges : ij[2] = ij[1] + width - 1}
  OBVIOUS
<1>5. /\ K' = [ij \in Ranges |-> IF ij \in Band THEN Split(ij[1], ij[2]) ELSE K[ij]]
      /\ G' = [ij \in Ranges |->
                 IF ij \in Band THEN Through(ij[1], K'[ij], ij[2]) ELSE G[ij]]
  BY <1>4 DEF PlanWidth
<1>6. ASSUME NEW ij \in Band
      PROVE  ij[1] \in 1 .. L /\ ij[2] \in ij[1] + 1 .. L /\ ij \in Ranges
  <2>1. ij \in Ranges /\ ij[1] \in 1 .. L /\ ij[2] \in 1 .. L /\ ij[2] = ij[1] + width - 1
    BY <1>4 DEF Ranges
  <2> QED
    BY <1>1, <2>1, Heights
<1>7. ASSUME NEW ij \in Band
      PROVE  /\ K'[ij] = Split(ij[1], ij[2])
             /\ Split(ij[1], ij[2]) \in ij[1] .. ij[2] - 1
             /\ Through(ij[1], Split(ij[1], ij[2]), ij[2]) \in Nat
  BY <1>1, <1>5, <1>6, SplitIn
<1>8. G' \in [Ranges -> Nat]
  <2>1. \A ij \in Ranges : (IF ij \in Band THEN Through(ij[1], K'[ij], ij[2]) ELSE G[ij]) \in Nat
    BY <1>1, <1>7
  <2> QED
    BY <1>5, <2>1
<1>9. ASSUME NEW ij \in Ranges, ij[2] - ij[1] + 1 # width
      PROVE  G'[ij] = G[ij] /\ K'[ij] = K[ij]
  <2>1. ij \notin Band
    BY <1>1, <1>4, <1>9, Heights, SMTT(30) DEF Ranges
  <2> QED
    BY <1>5, <2>1
<1>10. ASSUME NEW i \in 1 .. L, NEW j \in i + 1 .. L, NEW k \in i .. j - 1, j - i + 1 < width + 1
       PROVE  Through(i, k, j)' = Through(i, k, j)
  <2>1. /\ i \in Int /\ j \in Int /\ k \in Int /\ L \in Int /\ width \in Int
        /\ j \in 1 .. L /\ k \in 1 .. L /\ k + 1 \in 1 .. L
    BY <1>1, Heights
  <2>2. PICK x, y : x = <<i, k>> /\ y = <<k + 1, j>>
    OBVIOUS
  <2>3. x \in Ranges /\ y \in Ranges /\ x[2] - x[1] + 1 # width /\ y[2] - y[1] + 1 # width
    BY <1>10, <2>1, <2>2 DEF Ranges
  <2>4. G'[x] = G[x] /\ G'[y] = G[y]
    BY <1>9, <2>3
  <2>5. Delta(i, k, j)' = Delta(i, k, j)
    BY <1>2, SameDelta
  <2> QED
    BY <2>2, <2>4, <2>5 DEF Through
<1>11. ASSUME NEW i \in 1 .. L, NEW j \in i + 1 .. L, j - i + 1 < width + 1
       PROVE  Best(i, j)'
  <2>1. i \in Int /\ j \in Int /\ L \in Int /\ j \in 1 .. L /\ width \in Int
    BY <1>1, Heights
  <2>2. PICK ij \in Ranges : ij = <<i, j>>
    BY <2>1 DEF Ranges
  <2>3. CASE ij \in Band
    <3>1. PICK k : k = Split(i, j)
      OBVIOUS
    <3>2. k \in i .. j - 1 /\ \A m \in i .. j - 1 : Through(i, k, j) <= Through(i, m, j)
      BY <1>1, <3>1, SplitIn
    <3>3. K'[<<i, j>>] = k /\ G'[<<i, j>>] = Through(i, k, j)
      BY <1>5, <1>7, <2>2, <2>3, <3>1
    <3> QED
      BY <1>10, <1>11, <3>2, <3>3 DEF Best
  <2>4. CASE ij \notin Band
    <3>1. j # i + width - 1
      BY <1>4, <2>2, <2>4
    <3>2. j - i + 1 < width /\ ij[2] - ij[1] + 1 # width
      BY <1>1, <1>11, <2>1, <2>2, <3>1
    <3>3. Best(i, j)
      BY <1>1, <3>2 DEF Filling
    <3>4. K'[<<i, j>>] = K[<<i, j>>] /\ G'[<<i, j>>] = G[<<i, j>>]
      BY <1>9, <2>2, <3>2
    <3> QED
      BY <1>10, <1>11, <3>3, <3>4 DEF Best
  <2> QED
    BY <2>3, <2>4
<1>12. ASSUME NEW i \in 1 .. L PROVE G'[<<i, i>>] = 0
  <2>1. PICK ij : ij = <<i, i>>
    OBVIOUS
  <2>2. ij \in Ranges /\ ij[2] - ij[1] + 1 # width
    BY <1>1, <2>1, Heights DEF Ranges
  <2>3. G[<<i, i>>] = 0
    BY <1>1 DEF Filling
  <2> QED
    BY <1>9, <2>1, <2>2, <2>3
<1>13. width' \in Nat \ {0, 1}
  BY <1>1, <1>2
<1> QED
  BY <1>2, <1>3, <1>8, <1>11, <1>12, <1>13 DEF Filling

\* The plan at the end of the planning: what emit lists, in its order, at
\* the cost in the table.
LEMMA PlanReady ==
    ASSUME AssemblyInv, ~ NoLog, width > L
    PROVE  /\ Emitted \in Seq(Splits)
           /\ \A s : s = Emitted => Ready(s, 1, L) /\ \E f : Bill(f, s, G[<<1, L>>])
<1>1. Template /\ Filling
  BY DEF AssemblyInv
<1>2. Cheap
  <2> SUFFICES ASSUME NEW i \in 1 .. L, NEW j \in i + 1 .. L
               PROVE  Best(i, j)
    BY <1>1 DEF Cheap, Filling
  <2>1. i \in Int /\ j \in Int /\ L \in Int /\ width \in Int
    BY <1>1, Heights DEF Filling
  <2>2. j - i + 1 < width
    BY <2>1
  <2> QED
    BY <1>1, <2>2 DEF Filling
<1>3. Planned
  BY <1>2 DEF Planned, Cheap, Best
<1>4. PICK e : Emits(e) /\ Emitted = e[<<1, L>>] /\ <<1, L>> \in Ranges
  BY <1>1, <1>3, EmittedIs
<1>5. PICK ij \in Ranges : ij = <<1, L>>
  BY <1>4
<1>6. ij[1] = 1 /\ ij[2] = L /\ ij[1] <= ij[2]
  BY <1>1, <1>5, Heights
<1>7. e[ij] \in Seq(Splits) /\ Ready(e[ij], 1, L) /\ \E f : Bill(f, e[ij], G[ij])
  BY <1>1, <1>2, <1>3, <1>4, <1>6, EmitsSplits, EmitsReady, EmitsBilled
<1> QED
  BY <1>4, <1>5, <1>7

\* A round of the loop: both operands are there, and the merge costs what
\* the DP said.
Round(i, k, j, el, er, e) ==
    /\ k < L /\ steps[next] = <<i, k, j>> /\ j \in i .. L
    /\ el = tab[<<i, k>>] /\ er = tab[<<k + 1, j>>]
    /\ Merged(i, k, el) /\ Merged(k + 1, j, er) /\ Merged(i, j, e)
    /\ tab' = [tab EXCEPT ![<<i, j>>] = e] /\ next' = next + 1 /\ fate' = fate
    /\ Declared => cost' = cost + Delta(i, k, j)

LEMMA MergeIs ==
    ASSUME AssemblyInv, Merge
    PROVE  \E i \in 1 .. L : \E k \in i .. L : \E j \in k + 1 .. L : \E el, er, e :
              Round(i, k, j, el, er, e)
<1>1. /\ Template /\ ~ NoLog /\ steps \in Seq(Splits) /\ next \in Nat \ {0}
      /\ DOMAIN tab = Ranges /\ TabMade /\ There /\ next <= Len(steps)
  BY DEF AssemblyInv, Merge, Phases
<1>2. next \in 1 .. Len(steps) /\ steps[next] \in Splits
  <2>1. next \in 1 .. Len(steps)
    BY <1>1, LenProperties
  <2> QED
    BY <1>1, <2>1, ElementOfSeq
<1>3. PICK i \in 1 .. L : \E k \in i .. L : \E j \in k + 1 .. L : k < L /\ steps[next] = <<i, k, j>>
  BY <1>2 DEF Splits, Proper
<1>4. PICK k \in i .. L : \E j \in k + 1 .. L : k < L /\ steps[next] = <<i, k, j>>
  BY <1>3
<1>5. PICK j \in k + 1 .. L : k < L /\ steps[next] = <<i, k, j>>
  BY <1>4
<1>6. PICK el, er : el = tab[<<i, k>>] /\ er = tab[<<k + 1, j>>]
  OBVIOUS
<1>7. Operand(1) = el /\ Operand(2) = er
  BY <1>5, <1>6 DEF Operand
<1>8. PICK e : e = IF el.pub THEN LdcOf(el, er) ELSE ShcOf(el, er)
  OBVIOUS
<1>9. i \in Int /\ k \in Int /\ j \in Int /\ L \in Int /\ k + 1 \in 1 .. L /\ j \in i .. L
      /\ k \in 1 .. L /\ j \in 1 .. L /\ i <= k /\ k < j /\ j \in k + 1 .. L
  BY <1>1, <1>5, Heights
<1>10. el # NoSegment /\ er # NoSegment
  <2>1. PICK s : s = steps
    OBVIOUS
  <2>2. Ordered(s)
    BY <2>1 DEF AssemblyInv, Sorted
  <2>3. Before(s, next, i, k) /\ Before(s, next, k + 1, j)
    <3>1. s[next][1] = i /\ s[next][2] = k /\ s[next][3] = j
      BY <1>5, <2>1
    <3>2. /\ Before(s, next, s[next][1], s[next][2])
          /\ Before(s, next, s[next][2] + 1, s[next][3])
      BY <1>2, <2>1, <2>2 DEF Ordered
    <3> QED
      BY <3>1, <3>2
  <2>4. ASSUME NEW x \in 1 .. L, NEW y, Before(s, next, x, y) PROVE tab[<<x, y>>] # NoSegment
    <3>1. CASE x = y
      BY <1>1, <3>1 DEF There
    <3>2. CASE x # y
      <4>1. PICK m \in 1 .. next - 1 : s[m][1] = x /\ s[m][3] = y
        BY <2>4, <3>2 DEF Before
      <4> QED
        BY <1>1, <2>1, <4>1 DEF There
    <3> QED
      BY <3>1, <3>2
  <2> QED
    BY <1>6, <1>9, <2>3, <2>4
<1>11. /\ next' = next + 1 /\ fate' = fate /\ tab' = [tab EXCEPT ![<<i, j>>] = e]
       /\ cost' = cost + IF el.pub THEN 0 ELSE (el.h + er.h) * Levels[el.h + er.h]
  BY <1>5, <1>7, <1>8, <1>10 DEF Merge
<1>12. Merged(i, k, el) /\ Merged(k + 1, j, er)
  BY <1>1, <1>6, <1>9, <1>10 DEF TabMade
<1>13. Merged(i, j, e)
  BY <1>1, <1>5, <1>8, <1>12, LdcMerged, ShcMerged
<1>14. ASSUME Declared PROVE cost' = cost + Delta(i, k, j)
  <2>1. el.pub <=> DeclaredPub(i, k)
    <3>1. el.pub => \A n \in i .. k : tmpl[n].kind = "fixed"
      BY <1>12 DEF Merged
    <3>2. ~ el.pub => \E n \in i .. k : tmpl[n].kind # "fixed"
      BY <1>12 DEF Merged
    <3>3. \A n \in i .. k : tmpl[n].kind \in {"fixed", "hidden"}
      <4> SUFFICES ASSUME NEW n \in i .. k PROVE tmpl[n].kind \in {"fixed", "hidden"}
        OBVIOUS
      <4>1. n \in 1 .. L
        BY <1>9
      <4>2. tmpl[n].kind \in {"fixed", "hidden", "i2s"}
        BY <1>1, <4>1, Heights, Constants
      <4> QED
        BY <1>14, <4>1, <4>2 DEF Declared
    <3> QED
      BY <3>1, <3>2, <3>3 DEF DeclaredPub
  <2>2. el.h + er.h = HSum(i, j)
    <3>1. el.h = HSum(i, k) /\ er.h = HSum(k + 1, j)
      BY <1>12 DEF Merged
    <3>2. HSum(i, j) = HSum(i, k) + HSum(k + 1, j)
      BY <1>1, <1>5, HSumSplit
    <3> QED
      BY <3>1, <3>2
  <2> QED
    BY <1>11, <2>1, <2>2 DEF Delta
<1>15. Round(i, k, j, el, er, e)
  BY <1>5, <1>6, <1>9, <1>11, <1>12, <1>13, <1>14 DEF Round
<1> QED
  BY <1>15

LEMMA MergeKeeps ==
    ASSUME AssemblyInv, Merge
    PROVE  /\ DOMAIN tab' = Ranges /\ TabMade' /\ next' \in Nat \ {0}
           /\ Phases' /\ There' /\ Paid'
<1>1. /\ Template /\ steps \in Seq(Splits) /\ next \in Nat \ {0} /\ fate = "merge"
      /\ DOMAIN tab = Ranges /\ TabMade /\ There /\ Phases /\ Paid /\ next <= Len(steps)
      /\ tmpl' = tmpl /\ UNCHANGED <<steps, width, G>> /\ Len(steps) \in Nat
  BY LenProperties DEF AssemblyInv, Merge
<1>2. L' = L /\ NoLog' = NoLog /\ Declared' = Declared
  BY <1>1, SameTemplate
<1>3. PICK i \in 1 .. L : \E k \in i .. L : \E j \in k + 1 .. L : \E el, er, e :
              Round(i, k, j, el, er, e)
  BY MergeIs
<1>4. PICK k \in i .. L : \E j \in k + 1 .. L : \E el, er, e : Round(i, k, j, el, er, e)
  BY <1>3
<1>5. PICK j \in k + 1 .. L : \E el, er, e : Round(i, k, j, el, er, e)
  BY <1>4
<1>14. PICK el, er, e : Round(i, k, j, el, er, e)
  BY <1>5
<1>6. /\ steps[next] = <<i, k, j>> /\ j \in i .. L /\ Merged(i, j, e)
      /\ tab' = [tab EXCEPT ![<<i, j>>] = e] /\ next' = next + 1 /\ fate' = fate
      /\ Declared => cost' = cost + Delta(i, k, j)
  BY <1>14 DEF Round
<1>7. <<i, j>> \in Ranges /\ e # NoSegment
  <2>1. i \in 1 .. L /\ j \in 1 .. L
    BY <1>1, <1>6, Heights
  <2> QED
    BY <1>1, <1>6, <2>1, MergedThere DEF Ranges
<1>8. ASSUME NEW x, x \in Ranges
      PROVE  tab'[x] = IF x = <<i, j>> THEN e ELSE tab[x]
  BY <1>1, <1>6, <1>7, <1>8
<1>9. ASSUME NEW m \in 1 .. L, NEW n \in m .. L, NEW f, f = tab'[<<m, n>>], f # NoSegment
      PROVE  Merged(m, n, f)'
  <2>1. <<m, n>> \in Ranges
    BY <1>1, Heights DEF Ranges
  <2>2. CASE <<m, n>> = <<i, j>>
    <3>1. f = e /\ m = i /\ n = j
      BY <1>8, <1>9, <2>1, <2>2
    <3> QED
      BY <1>1, <1>6, <3>1, SameMerged
  <2>3. CASE <<m, n>> # <<i, j>>
    <3>1. f = tab[<<m, n>>]
      BY <1>8, <1>9, <2>1, <2>3
    <3>2. Merged(m, n, f)
      BY <1>1, <1>9, <3>1 DEF TabMade
    <3> QED
      BY <1>1, <3>2, SameMerged
  <2> QED
    BY <2>2, <2>3
<1>10. TabMade'
  BY <1>2, <1>9 DEF TabMade
<1>11. There'
  <2>1. ASSUME NEW x, x \in Ranges, tab[x] # NoSegment PROVE tab'[x] # NoSegment
    BY <1>7, <1>8, <2>1
  <2>2. ASSUME NEW n \in 1 .. L PROVE tab'[<<n, n>>] # NoSegment
    <3>1. <<n, n>> \in Ranges /\ tab[<<n, n>>] # NoSegment
      BY <1>1 DEF Ranges, There
    <3> QED
      BY <2>1, <3>1
  <2>3. ASSUME NEW m \in 1 .. next PROVE tab'[<<steps[m][1], steps[m][3]>>] # NoSegment
    <3>1. CASE m = next
      <4>1. steps[m][1] = i /\ steps[m][3] = j
        BY <1>6, <3>1
      <4> QED
        BY <1>7, <1>8, <4>1
    <3>2. CASE m # next
      <4>1. m \in 1 .. next - 1 /\ m \in 1 .. Len(steps)
        BY <1>1, <3>2
      <4>2. steps[m] \in Splits
        BY <1>1, <4>1, ElementOfSeq
      <4>3. PICK a \in 1 .. L, b \in 1 .. L, c \in 1 .. L : steps[m] = <<a, b, c>>
        BY <4>2 DEF Splits, Merges
      <4>4. PICK x : x = <<steps[m][1], steps[m][3]>>
        OBVIOUS
      <4>5. x \in Ranges /\ tab[x] # NoSegment
        BY <1>1, <4>1, <4>3, <4>4, SMTT(30) DEF Ranges, There
      <4> QED
        BY <2>1, <4>4, <4>5
    <3> QED
      BY <3>1, <3>2
  <2>4. next' - 1 = next
    BY <1>1, <1>6
  <2> QED
    BY <1>1, <1>2, <2>2, <2>3, <2>4 DEF There
<1>12. Phases'
  BY <1>1, <1>2, <1>6 DEF Phases
<1>13. Paid'
  <2>1. PICK f : /\ \A s \in {steps} : \A c \in {G[<<1, L>>]} : Bill(f, s, c)
                 /\ Declared => cost = f[next - 1]
    BY <1>1 DEF Paid
  <2>2. PICK s, c : s = steps /\ c = G[<<1, L>>]
    OBVIOUS
  <2>3. Bill(f, s, c)
    BY <2>1, <2>2
  <2>4. Bill(f, s, c)'
    BY <1>1, <2>3, SameTemplate
  <2>5. f[next] = f[next - 1] + Delta(i, k, j)
    <3>1. next \in 1 .. Len(s) /\ DeltaOf(s[next]) = Delta(i, k, j)
      BY <1>1, <1>6, <2>2 DEF DeltaOf
    <3> QED
      BY <2>3, <3>1 DEF Bill
  <2>6. next' - 1 = next
    BY <1>1, <1>6
  <2>7. Declared => cost' = f[next' - 1]
    BY <1>6, <2>1, <2>5, <2>6
  <2>8. steps' = s /\ G'[<<1, L'>>] = c
    BY <1>1, <1>2, <2>2
  <2> QED
    BY <1>2, <2>4, <2>7, <2>8 DEF Paid
<1> QED
  BY <1>1, <1>6, <1>10, <1>11, <1>12, <1>13

LEMMA AssemblySteps ==
    ASSUME AssemblyInv, [Next]_vars
    PROVE  AssemblyInv'
<1>1. tmpl' = tmpl
  BY DEF Next, PlanWidth, Plan, Merge, Finish, vars
<1>2. Template' /\ L' = L /\ Ranges' = Ranges /\ Splits' = Splits /\ NoLog' = NoLog
  BY <1>1, SameTemplate DEF AssemblyInv
<1>3. Declared' = Declared
  BY <1>1, SameTemplate
<1>4. ASSUME UNCHANGED tab PROVE DOMAIN tab' = Ranges' /\ TabMade'
  <2>1. ASSUME NEW i \in 1 .. L, NEW j \in i .. L, NEW e, e = tab[<<i, j>>], e # NoSegment
        PROVE  Merged(i, j, e)'
    BY <1>1, <2>1, SameMerged DEF AssemblyInv, TabMade
  <2>2. TabMade'
    BY <1>2, <1>4, <2>1 DEF TabMade
  <2> QED
    BY <1>2, <1>4, <2>2 DEF AssemblyInv
<1>5. ASSUME UNCHANGED <<width, G, K>> PROVE Filling'
  <2>1. Filling
    BY DEF AssemblyInv
  <2>2. \A i \in 1 .. L : \A j \in i + 1 .. L : Best(i, j) => Best(i, j)'
    BY <1>1, <1>5, SameDelta DEF Best, Through
  <2> QED
    BY <1>2, <1>5, <2>1, <2>2 DEF Filling
<1>6. ASSUME UNCHANGED <<steps, next, tab>> PROVE There'
  BY <1>2, <1>6 DEF AssemblyInv, There
<1>7. ASSUME UNCHANGED steps, fate' \in {"merge", "done"} => fate \in {"merge", "done"}
      PROVE  Sorted'
  BY <1>2, <1>7 DEF AssemblyInv, Sorted, Ordered, Before
<1>8. ASSUME UNCHANGED <<steps, next, G, cost>>,
             fate' \in {"merge", "done"} => fate \in {"merge", "done"}
      PROVE  Paid'
  <2> SUFFICES ASSUME fate' \in {"merge", "done"}
               PROVE  \E f : /\ \A s \in {steps'} : \A c \in {G'[<<1, L'>>]} : Bill(f, s, c)'
                             /\ Declared' => cost' = f[next' - 1]
    BY DEF Paid
  <2>1. PICK f : /\ \A s \in {steps} : \A c \in {G[<<1, L>>]} : Bill(f, s, c)
                 /\ Declared => cost = f[next - 1]
    BY <1>8 DEF AssemblyInv, Paid
  <2>2. PICK s, c : s = steps /\ c = G[<<1, L>>]
    OBVIOUS
  <2>3. Bill(f, s, c)'
    BY <1>1, <2>1, <2>2, SameTemplate
  <2> QED
    BY <1>2, <1>3, <1>8, <2>1, <2>2, <2>3
<1>9. CASE PlanWidth
  <2>1. Filling'
    BY <1>9, PlanWidthKeeps
  <2>2. UNCHANGED <<steps, next, tab, cost>> /\ fate' = fate /\ fate = "plan"
    BY <1>9 DEF PlanWidth
  <2>3. Phases' /\ Paid'
    BY <2>2 DEF AssemblyInv, Phases, Paid
  <2>4. Sorted'
    BY <1>7, <2>2
  <2> QED
    BY <1>2, <1>4, <1>6, <2>1, <2>2, <2>3, <2>4 DEF AssemblyInv
<1>10. CASE Plan
  <2>1. UNCHANGED <<width, G, K, next, tab, cost>> /\ fate = "plan"
    BY <1>10 DEF Plan
  <2>2. CASE NoLog /\ fate' = "raised" /\ UNCHANGED steps
    <3>1. Phases' /\ Paid'
      BY <1>2, <2>1, <2>2 DEF AssemblyInv, Phases, Paid
    <3>2. Sorted'
      BY <1>7, <2>2
    <3> QED
      BY <1>2, <1>4, <1>5, <1>6, <2>1, <2>2, <3>1, <3>2 DEF AssemblyInv
  <2>3. CASE ~ NoLog /\ width > L /\ fate' = "merge" /\ steps' = Emitted
    <3>1. PICK s : s = Emitted
      OBVIOUS
    <3>2. s \in Seq(Splits) /\ Ready(s, 1, L) /\ \E f : Bill(f, s, G[<<1, L>>])
      BY <2>3, <3>1, PlanReady
    <3>3. PICK c : c = G[<<1, L>>]
      OBVIOUS
    <3>4. PICK f : Bill(f, s, c)
      BY <3>2, <3>3
    <3>5. next = 1 /\ cost = 0 /\ Len(s) \in Nat /\ f[0] = 0
      BY <2>1, <3>4 DEF AssemblyInv, Phases, Bill
    <3>6. Bill(f, s, c)'
      BY <1>1, <3>4, SameTemplate
    <3>7. Paid'
      <4>1. steps' = s /\ G'[<<1, L'>>] = c /\ cost' = f[next' - 1]
        BY <1>2, <2>1, <2>3, <3>1, <3>3, <3>5
      <4> QED
        BY <3>6, <4>1 DEF Paid
    <3>8. Phases'
      BY <1>2, <2>1, <2>3, <3>1, <3>5 DEF AssemblyInv, Phases
    <3>9. Sorted'
      BY <1>2, <2>3, <3>1, <3>2 DEF Sorted, Ready, Ordered, Before
    <3>10. There'
      <4>1. \A m \in 1 .. next' - 1 : FALSE
        BY <2>1, <3>5
      <4> QED
        BY <1>2, <2>1, <4>1 DEF AssemblyInv, There
    <3> QED
      BY <1>2, <1>4, <1>5, <2>1, <2>3, <3>1, <3>2, <3>7, <3>8, <3>9, <3>10 DEF AssemblyInv
  <2> QED
    BY <1>10, <2>2, <2>3 DEF Plan
<1>11. CASE Merge
  <2>1. /\ DOMAIN tab' = Ranges /\ TabMade' /\ next' \in Nat \ {0}
        /\ Phases' /\ There' /\ Paid'
    BY <1>11, MergeKeeps
  <2>2. UNCHANGED <<width, G, K, steps>> /\ fate = "merge"
    BY <1>11 DEF Merge
  <2>3. Sorted'
    BY <1>7, <2>2
  <2> QED
    BY <1>2, <1>5, <2>1, <2>2, <2>3 DEF AssemblyInv
<1>12. CASE Finish
  <2>1. /\ UNCHANGED <<width, G, K, steps, next, tab, cost>>
        /\ fate = "merge" /\ fate' = "done" /\ next > Len(steps)
    BY <1>12 DEF Finish
  <2>2. Sorted' /\ Paid' /\ There'
    BY <1>6, <1>7, <1>8, <2>1
  <2>3. Phases'
    <3>1. next <= Len(steps) + 1 /\ next \in Nat /\ Len(steps) \in Nat
      BY <2>1, LenProperties DEF AssemblyInv, Phases
    <3>2. next = Len(steps) + 1
      BY <2>1, <3>1
    <3> QED
      BY <1>2, <2>1, <3>2 DEF AssemblyInv, Phases
  <2> QED
    BY <1>2, <1>4, <1>5, <2>1, <2>2, <2>3 DEF AssemblyInv
<1>13. CASE UNCHANGED vars
  <2>1. UNCHANGED <<width, G, K, steps, next, tab, cost, fate>>
    BY <1>13 DEF vars
  <2>2. Sorted' /\ Paid' /\ There'
    BY <1>6, <1>7, <1>8, <2>1
  <2>3. Phases'
    BY <1>2, <2>1 DEF AssemblyInv, Phases
  <2> QED
    BY <1>2, <1>4, <1>5, <2>1, <2>2, <2>3 DEF AssemblyInv
<1> QED
  BY <1>9, <1>10, <1>11, <1>12, <1>13 DEF Next

\* A merged range is the texts of its parts, and its length says how long
\* they are: RangeIsText.
LEMMA AssemblyText ==
    ASSUME AssemblyInv
    PROVE  RangeIsText
<1> SUFFICES ASSUME NEW i \in 1 .. L, NEW j \in 1 .. L, i <= j, tab[<<i, j>>] # NoSegment
             PROVE  /\ tab[<<i, j>>].g = Len(Joined(i, j))
                    /\ tab[<<i, j>>].s
                         = Joined(i, j) \o Pads(tab[<<i, j>>].h - Len(Joined(i, j)))
  BY DEF RangeIsText, Joined, TextsOf
<1>1. Template /\ j \in i .. L
  BY Heights DEF AssemblyInv
<1>2. PICK e : e = tab[<<i, j>>]
  OBVIOUS
<1>3. Merged(i, j, e)
  BY <1>1, <1>2 DEF AssemblyInv, TabMade
<1>4. HSum(i, j) \in Nat
  BY <1>1, HSumNat
<1>5. PICK g \in Nat :
        /\ g <= HSum(i, j) /\ Bytes(Joined(i, j), g) /\ e.h = HSum(i, j) /\ e.g = g
        /\ e.s = Fill(Joined(i, j), HSum(i, j))
  BY <1>3, <1>4 DEF Merged
<1>6. Len(Joined(i, j)) = g
  BY <1>5 DEF Bytes
<1>7. Joined(i, j) \o Pads(HSum(i, j) - g) = Fill(Joined(i, j), HSum(i, j))
  BY <1>4, <1>5, FillIs
<1> QED
  BY <1>2, <1>5, <1>6, <1>7

\* Whatever plan is computed and whichever concatenations run, a merged range
\* is the texts of its parts, in order and without a gap (ldc, shc, assemble).
THEOREM Assembled == Spec => []RangeIsText
<1>1. Init => AssemblyInv
  BY AssemblyStarts
<1>2. AssemblyInv /\ [Next]_vars => AssemblyInv'
  BY AssemblySteps
<1>3. AssemblyInv => RangeIsText
  BY AssemblyText
<1> QED
  BY <1>1, <1>2, <1>3, PTL DEF Spec

\* All merges together cost what the cheapest order costs.
LEMMA AssemblyCost ==
    ASSUME AssemblyInv
    PROVE  CostIsLeast
<1> SUFFICES ASSUME fate = "done", Declared PROVE cost = Cheapest
  BY DEF CostIsLeast
<1>1. Template /\ Filling /\ ~ NoLog /\ width > L /\ next = Len(steps) + 1 /\ Len(steps) \in Nat
  BY LenProperties DEF AssemblyInv, Phases
<1>2. Cheap
  <2> SUFFICES ASSUME NEW i \in 1 .. L, NEW j \in i + 1 .. L PROVE Best(i, j)
    BY <1>1 DEF Cheap, Filling
  <2>1. i \in Int /\ j \in Int /\ L \in Int /\ width \in Int
    BY <1>1, Heights DEF Filling
  <2>2. j - i + 1 < width
    BY <1>1, <2>1
  <2> QED
    BY <1>1, <2>2 DEF Filling
<1>3. PICK f : Bill(f, steps, G[<<1, L>>]) /\ cost = f[next - 1]
  BY DEF AssemblyInv, Paid
<1>4. cost = G[<<1, L>>]
  BY <1>1, <1>3 DEF Bill
<1> QED
  BY <1>1, <1>2, <1>4, CheapIsCheapest

\* The plan of plan_assembly, merged by assemble, costs what the cheapest
\* of all orders costs in which neighbours could be merged, for every
\* template that tells the truth about i2s.
THEOREM AssemblyCheapest == Spec => []CostIsLeast
<1>1. Init => AssemblyInv
  BY AssemblyStarts
<1>2. AssemblyInv /\ [Next]_vars => AssemblyInv'
  BY AssemblySteps
<1>3. AssemblyInv => CostIsLeast
  BY AssemblyCost
<1> QED
  BY <1>1, <1>2, <1>3, PTL DEF Spec

\* assemble never stops half-way: what raises is the logarithm of 0 in
\* plan_assembly, before anything is sent, and never an operand that is
\* still None; and what ends has merged all parts.
NeverHalfway ==
    /\ fate = "raised" => NoLog
    /\ fate = "done" => ~ NoLog /\ tab[<<1, L>>] # NoSegment

LEMMA AssemblyWhole ==
    ASSUME AssemblyInv
    PROVE  NeverHalfway
<1>1. fate = "raised" => NoLog
  BY DEF AssemblyInv, Phases
<1>2. ASSUME fate = "done" PROVE ~ NoLog /\ tab[<<1, L>>] # NoSegment
  <2>1. ~ NoLog /\ next = Len(steps) + 1 /\ Len(steps) \in Nat /\ There
    BY <1>2, LenProperties DEF AssemblyInv, Phases
  <2>2. 1 \in 1 .. L
    BY Heights DEF AssemblyInv
  <2>3. CASE L = 1
    BY <2>1, <2>2, <2>3 DEF There
  <2>4. CASE L # 1
    <3>1. PICK m \in 1 .. Len(steps) + 1 - 1 : steps[m][1] = 1 /\ steps[m][3] = L
      BY <1>2, <2>4 DEF AssemblyInv, Sorted, Before
    <3> QED
      BY <2>1, <3>1 DEF There
  <2> QED
    BY <2>1, <2>3, <2>4
<1> QED
  BY <1>1, <1>2 DEF NeverHalfway

\* The safe half of WholeQuery: no merge finds an operand missing, and the
\* loop ends with the segment of the whole template.
THEOREM AssemblyNeverHalfway == Spec => []NeverHalfway
<1>1. Init => AssemblyInv
  BY AssemblyStarts
<1>2. AssemblyInv /\ [Next]_vars => AssemblyInv'
  BY AssemblySteps
<1>3. AssemblyInv => NeverHalfway
  BY AssemblyWhole
<1> QED
  BY <1>1, <1>2, <1>3, PTL DEF Spec

=============================================================================
