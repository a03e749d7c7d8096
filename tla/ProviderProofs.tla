--------------------------- MODULE ProviderProofs ---------------------------
(***************************************************************************)
(* For every order of calls, every number of hellos and every bound: the   *)
(* provider never seals two records under one key and number, and never    *)
(* acts on a record twice.                                                 *)
(***************************************************************************)
EXTENDS ProviderDriver, SequenceTheorems, TLAPS

(***************************************************************************)
(* Bags without repetitions.                                               *)
(***************************************************************************)
Once(b) == b = [e \in DOMAIN b |-> 1]

LEMMA TallyNew ==
    ASSUME NEW b, Once(b), NEW e, e \notin DOMAIN b
    PROVE  Once(Tally(b, e)) /\ DOMAIN Tally(b, e) = DOMAIN b \cup {e}
BY DEF Once, Tally, SetToBag, (+)

LEMMA NotTwice == \A b : Once(b) => ~ Twice(b)
BY DEF Once, Twice

(***************************************************************************)
(* Types.                                                                  *)
(***************************************************************************)
LEMMA XRange == \A u, v \in Scalar : X(Mul(u, v)) \in 0 .. Q - 1
<1>1. ASSUME NEW m \in Nat PROVE m % Q \in 0 .. Q - 1
  BY QAssumption
<1>2. \A u, v \in Scalar : u * v \in Nat
  BY QAssumption DEF Scalar
<1>3. \A pt \in 0 .. Q - 1 : X(pt) \in 0 .. Q - 1
  BY QAssumption DEF X
<1> QED
  BY <1>1, <1>2, <1>3 DEF Mul

LEMMA MsgTypes ==
    /\ \A v \in Scalar : CH(v) \in HsMsg /\ SH(v) \in HsMsg
    /\ EE \in HsMsg /\ CRT \in HsMsg /\ CV \in HsMsg /\ SF \in HsMsg
    /\ CF \in HsMsg
BY QAssumption DEF CH, SH, EE, CRT, CV, SF, CF, HsMsg, Scalar

LEMMA SecretType ==
    ASSUME NEW lab \in Label, NEW v \in 0 .. Q - 1, NEW tr \in Seq(HsMsg)
    PROVE  Secret(lab, v, tr) \in Secrets
BY DEF Secret, Secrets

\* One field of the provider after the other.
LEMMA Updates ==
    ASSUME NEW s \in ServerState
    PROVE  /\ \A t \in Seq(HsMsg) : /\ [s EXCEPT !.transcript = t] \in ServerState
                                    /\ [s EXCEPT !.sfTr = t] \in ServerState
           /\ \A k \in Secrets : /\ [s EXCEPT !.chts = k] \in ServerState
                                 /\ [s EXCEPT !.shts = k] \in ServerState
                                 /\ [s EXCEPT !.capp = k] \in ServerState
                                 /\ [s EXCEPT !.sapp = k] \in ServerState
           /\ \A n \in Nat : /\ [s EXCEPT !.hsSeqS = n] \in ServerState
                             /\ [s EXCEPT !.hsSeqC = n] \in ServerState
                             /\ [s EXCEPT !.seqC = n] \in ServerState
                             /\ [s EXCEPT !.seqS = n] \in ServerState
           /\ [s EXCEPT !.hello = TRUE] \in ServerState
           /\ [s EXCEPT !.established = TRUE] \in ServerState
<1>1. ASSUME NEW t \in Seq(HsMsg)
      PROVE  /\ [s EXCEPT !.transcript = t] \in ServerState
             /\ [s EXCEPT !.sfTr = t] \in ServerState
  BY DEF ServerState
<1>2. ASSUME NEW k \in Secrets
      PROVE  /\ [s EXCEPT !.chts = k] \in ServerState
             /\ [s EXCEPT !.shts = k] \in ServerState
             /\ [s EXCEPT !.capp = k] \in ServerState
             /\ [s EXCEPT !.sapp = k] \in ServerState
  BY DEF ServerState
<1>3. ASSUME NEW n \in Nat
      PROVE  /\ [s EXCEPT !.hsSeqS = n] \in ServerState
             /\ [s EXCEPT !.hsSeqC = n] \in ServerState
             /\ [s EXCEPT !.seqC = n] \in ServerState
             /\ [s EXCEPT !.seqS = n] \in ServerState
  BY DEF ServerState
<1>4. /\ [s EXCEPT !.hello = TRUE] \in ServerState
      /\ [s EXCEPT !.established = TRUE] \in ServerState
  BY DEF ServerState
<1> QED
  BY <1>1, <1>2, <1>3, <1>4

\* A hello: the handshake secrets are those of a transcript that is longer
\* than every earlier one.
LEMMA GreetedFacts ==
    ASSUME NEW s \in ServerState, NEW ks \in Scalar
    PROVE  \E g, hs, tr, k1, k2, k3, k4 :
               /\ g = Greeted(s, ks) /\ g \in ServerState
               /\ g.transcript = tr /\ Len(tr) = Len(s.transcript) + 6
               /\ k1.tr = hs /\ k2.tr = hs /\ Len(hs) = Len(s.transcript) + 2
               /\ g.chts = k1 /\ k1.label = "c hs traffic"
               /\ g.shts = k2 /\ k2.label = "s hs traffic"
               /\ g.capp = k3 /\ k3.label = "c ap traffic"
               /\ g.sapp = k4 /\ k4.label = "s ap traffic"
               /\ g.hsSeqS = 1 /\ g.hsSeqC = 0
               /\ g.seqC = s.seqC /\ g.seqS = s.seqS /\ g.hello
<1> DEFINE x  == X(Mul(s.y, ks))
           hs == s.transcript \o <<CH(ks), SH(s.y)>>
           sf == Flown(hs)
           k1 == Secret("c hs traffic", x, hs)
           k2 == Secret("s hs traffic", x, hs)
           k3 == Secret("c ap traffic", x, sf)
           k4 == Secret("s ap traffic", x, sf)
<1>1. s.y \in Scalar /\ s.transcript \in Seq(HsMsg)
  BY DEF ServerState
<1>2. x \in 0 .. Q - 1
  BY <1>1, XRange
<1>3. hs \in Seq(HsMsg) /\ Len(hs) = Len(s.transcript) + 2
  <2>1. <<CH(ks), SH(s.y)>> \in Seq(HsMsg) /\ Len(<<CH(ks), SH(s.y)>>) = 2
    BY <1>1, MsgTypes
  <2> QED
    BY <1>1, <2>1, ConcatProperties
<1>4. sf \in Seq(HsMsg) /\ Len(sf) = Len(s.transcript) + 6
  <2>1. <<EE, CRT, CV, SF>> \in Seq(HsMsg) /\ Len(<<EE, CRT, CV, SF>>) = 4
    BY MsgTypes
  <2>2. Len(s.transcript) \in Nat
    BY <1>1, LenProperties
  <2> QED
    BY <1>3, <2>1, <2>2, ConcatProperties DEF Flown
<1>5. /\ k1.label = "c hs traffic" /\ k1.tr = hs
      /\ k2.label = "s hs traffic" /\ k2.tr = hs
      /\ k3.label = "c ap traffic" /\ k4.label = "s ap traffic"
  BY DEF Secret
<1>6. k1 \in Secrets /\ k2 \in Secrets /\ k3 \in Secrets /\ k4 \in Secrets
  BY <1>2, <1>3, <1>4, SecretType DEF Label
<1>7. Greeted(s, ks) =
        [s EXCEPT !.transcript = sf, !.sfTr = sf, !.chts = k1, !.shts = k2,
                  !.capp = k3, !.sapp = k4,
                  !.hsSeqS = 1, !.hsSeqC = 0, !.hello = TRUE]
  BY DEF Greeted
<1> HIDE DEF x, hs, sf, k1, k2, k3, k4
<1> DEFINE g == [s EXCEPT !.transcript = sf, !.sfTr = sf, !.chts = k1,
                          !.shts = k2, !.capp = k3, !.sapp = k4,
                          !.hsSeqS = 1, !.hsSeqC = 0, !.hello = TRUE]
<1>8. g \in ServerState
  <2> DEFINE s1 == [s EXCEPT !.transcript = sf]
             s2 == [s1 EXCEPT !.sfTr = sf]
             s3 == [s2 EXCEPT !.chts = k1]
             s4 == [s3 EXCEPT !.shts = k2]
             s5 == [s4 EXCEPT !.capp = k3]
             s6 == [s5 EXCEPT !.sapp = k4]
             s7 == [s6 EXCEPT !.hsSeqS = 1]
             s8 == [s7 EXCEPT !.hsSeqC = 0]
             s9 == [s8 EXCEPT !.hello = TRUE]
  <2>1. g = s9
    OBVIOUS
  <2>2. s1 \in ServerState
    BY <1>4, Updates
  <2> HIDE DEF s1
  <2>3. s2 \in ServerState
    BY <1>4, <2>2, Updates
  <2> HIDE DEF s2
  <2>4. s3 \in ServerState
    BY <1>6, <2>3, Updates
  <2> HIDE DEF s3
  <2>5. s4 \in ServerState
    BY <1>6, <2>4, Updates
  <2> HIDE DEF s4
  <2>6. s5 \in ServerState
    BY <1>6, <2>5, Updates
  <2> HIDE DEF s5
  <2>7. s6 \in ServerState
    BY <1>6, <2>6, Updates
  <2> HIDE DEF s6
  <2>8. s7 \in ServerState
    BY <2>7, Updates
  <2> HIDE DEF s7
  <2>9. s8 \in ServerState
    BY <2>8, Updates
  <2> HIDE DEF s8
  <2> QED
    BY <2>1, <2>9, Updates
<1>9. /\ g.transcript = sf /\ g.chts = k1 /\ g.shts = k2
      /\ g.capp = k3 /\ g.sapp = k4 /\ g.hsSeqS = 1 /\ g.hsSeqC = 0
      /\ g.seqC = s.seqC /\ g.seqS = s.seqS /\ g.hello
  BY DEF ServerState
<1>10. g = Greeted(s, ks)
  BY <1>7
<1> HIDE DEF g
<1> QED
  BY <1>3, <1>4, <1>5, <1>8, <1>9, <1>10

-----------------------------------------------------------------------------
(***************************************************************************)
(* The inductive invariant: what has been sealed or accepted lies behind   *)
(* the numbers the provider holds now, or belongs to an earlier hello,     *)
(* whose transcript was shorter.                                           *)
(***************************************************************************)
KeysFit ==
    /\ srv.established => srv.hello
    /\ srv.hello => /\ srv.chts.label = "c hs traffic"
                    /\ srv.capp.label = "c ap traffic"
                    /\ srv.sapp.label = "s ap traffic"
                    /\ Len(srv.chts.tr) \in 0 .. Len(srv.transcript)

SealedFits ==
    /\ Once(sealed)
    /\ \A e \in DOMAIN sealed :
        \/ /\ e[1].label = "s hs traffic"
           /\ Len(e[1].tr) \in 0 .. Len(srv.transcript)
        \/ e[1].label = "s ap traffic" /\ e[2] \in 0 .. srv.seqS - 1

AcceptedFits ==
    /\ Once(accepted)
    /\ \A rec \in DOMAIN accepted :
        \/ /\ rec.key.label = "c hs traffic"
           /\ Len(rec.key.tr) \in 0 .. Len(srv.transcript)
           /\ rec.key = srv.chts => rec.seq \in 0 .. srv.hsSeqC - 1
        \/ rec.key.label = "c ap traffic" /\ rec.seq \in 0 .. srv.seqC - 1

DInv == srv \in ServerState /\ KeysFit /\ SealedFits /\ AcceptedFits

LEMMA DriverStart == DriverInit => DInv
<1> SUFFICES ASSUME DriverInit PROVE DInv
  OBVIOUS
<1>1. PICK n \in Name, c \in CA, y \in Scalar : srv = Fresh(n, c, y)
  BY DEF DriverInit
<1>2. None \in Secrets /\ <<>> \in Seq(HsMsg)
  <2>1. "none" \in Label /\ 0 \in 0 .. Q - 1 /\ <<>> \in Seq(HsMsg)
    BY QAssumption, EmptySeq DEF Label
  <2> QED
    BY <2>1, SecretType DEF None
<1>3. srv \in ServerState
  BY <1>1, <1>2 DEF Fresh, ServerState
<1>4. ~ srv.hello /\ ~ srv.established
  BY <1>1 DEF Fresh
<1>5. /\ DOMAIN sealed = {} /\ Once(sealed)
      /\ DOMAIN accepted = {} /\ Once(accepted)
  BY DEF DriverInit, EmptyBag, SetToBag, Once
<1> QED
  BY <1>3, <1>4, <1>5 DEF DInv, KeysFit, SealedFits, AcceptedFits

LEMMA Numbers ==
    ASSUME srv \in ServerState
    PROVE  /\ srv.seqS \in Nat /\ srv.seqC \in Nat /\ srv.hsSeqC \in Nat
           /\ srv.hsSeqS \in Nat /\ Len(srv.transcript) \in Nat
BY LenProperties DEF ServerState

LEMMA HelloKeeps == DInv /\ CallHello => DInv'
<1> SUFFICES ASSUME DInv, CallHello PROVE DInv'
  OBVIOUS
<1> DEFINE L == Len(srv.transcript)
<1>1. srv \in ServerState /\ L \in Nat
  BY Numbers DEF DInv
<1>2. PICK ks \in Scalar : srv' = Greeted(srv, ks)
  BY DEF CallHello, ClientHello
<1>3. PICK g, hs, tr, k1, k2, k3, k4 :
        /\ g = Greeted(srv, ks) /\ g \in ServerState
        /\ g.transcript = tr /\ Len(tr) = Len(srv.transcript) + 6
        /\ k1.tr = hs /\ k2.tr = hs /\ Len(hs) = Len(srv.transcript) + 2
        /\ g.chts = k1 /\ k1.label = "c hs traffic"
        /\ g.shts = k2 /\ k2.label = "s hs traffic"
        /\ g.capp = k3 /\ k3.label = "c ap traffic"
        /\ g.sapp = k4 /\ k4.label = "s ap traffic"
        /\ g.hsSeqS = 1 /\ g.hsSeqC = 0
        /\ g.seqC = srv.seqC /\ g.seqS = srv.seqS /\ g.hello
  BY <1>1, GreetedFacts
<1>4. srv' = g
  BY <1>2, <1>3
<1>5. Len(tr) = L + 6 /\ Len(hs) = L + 2
  BY <1>3
<1> HIDE DEF L
<1>6. Len(hs) \in 0 .. Len(tr) /\ \A n \in 0 .. L : n \in 0 .. Len(tr) /\ n # Len(hs)
  BY <1>1, <1>5
<1>7. KeysFit'
  BY <1>3, <1>6, <1>4 DEF KeysFit
<1>8. SealedFits'
  <2> DEFINE e == <<k2, srv'.hsSeqS - 1>>
  <2>1. sealed' = Tally(sealed, e) /\ e[1] = k2
    BY <1>3, <1>4 DEF CallHello
  <2> HIDE DEF e
  <2>2. \A f \in DOMAIN sealed :
          \/ f[1].label = "s hs traffic" /\ Len(f[1].tr) \in 0 .. L
          \/ f[1].label = "s ap traffic" /\ f[2] \in 0 .. srv.seqS - 1
    BY DEF DInv, SealedFits, L
  <2>3. e \notin DOMAIN sealed
    BY <1>3, <1>6, <2>1, <2>2
  <2>4. Once(sealed') /\ DOMAIN sealed' = DOMAIN sealed \cup {e}
    BY <2>1, <2>3, TallyNew DEF DInv, SealedFits
  <2>5. \A f \in DOMAIN sealed' :
          \/ f[1].label = "s hs traffic" /\ Len(f[1].tr) \in 0 .. Len(tr)
          \/ f[1].label = "s ap traffic" /\ f[2] \in 0 .. srv.seqS - 1
    <3> SUFFICES ASSUME NEW f \in DOMAIN sealed'
                 PROVE  \/ /\ f[1].label = "s hs traffic"
                           /\ Len(f[1].tr) \in 0 .. Len(tr)
                        \/ f[1].label = "s ap traffic" /\ f[2] \in 0 .. srv.seqS - 1
      OBVIOUS
    <3>1. CASE f = e
      BY <3>1, <1>3, <1>6, <2>1
    <3>2. CASE f \in DOMAIN sealed
      BY <3>2, <1>6, <2>2
    <3> QED
      BY <3>1, <3>2, <2>4
  <2> QED
    BY <1>3, <1>4, <2>4, <2>5 DEF SealedFits
<1>9. AcceptedFits'
  <2>1. accepted' = accepted
    BY DEF CallHello
  <2>2. \A rec \in DOMAIN accepted :
          \/ rec.key.label = "c hs traffic" /\ Len(rec.key.tr) \in 0 .. L
          \/ rec.key.label = "c ap traffic" /\ rec.seq \in 0 .. srv.seqC - 1
    BY DEF DInv, AcceptedFits, L
  <2>3. \A rec \in DOMAIN accepted :
          \/ /\ rec.key.label = "c hs traffic"
             /\ Len(rec.key.tr) \in 0 .. Len(tr) /\ rec.key # k1
          \/ rec.key.label = "c ap traffic" /\ rec.seq \in 0 .. srv.seqC - 1
    BY <1>3, <1>6, <2>2
  <2> QED
    BY <1>3, <1>4, <2>1, <2>3 DEF DInv, AcceptedFits
<1> QED
  BY <1>3, <1>7, <1>8, <1>9, <1>4 DEF DInv

\* The typing of a call that leaves the secrets alone.
LEMMA FinishedFacts ==
    ASSUME NEW s \in ServerState
    PROVE  \E c :
             /\ c = Confirmed(s) /\ c \in ServerState
             /\ Len(c.transcript) = Len(s.transcript) + 1
             /\ c.chts = s.chts /\ c.capp = s.capp /\ c.sapp = s.sapp
             /\ c.hsSeqC = s.hsSeqC + 1 /\ c.hello = s.hello
             /\ c.seqC = s.seqC /\ c.seqS = s.seqS
<1> DEFINE t == Append(s.transcript, CF)
           n == s.hsSeqC + 1
           c == [s EXCEPT !.hsSeqC = n, !.transcript = t, !.established = TRUE]
<1>1. /\ s.transcript \in Seq(HsMsg) /\ s.hsSeqC \in Nat
      /\ s.hsSeqC + 1 \in Nat
  BY DEF ServerState
<1>2. t \in Seq(HsMsg) /\ Len(t) = Len(s.transcript) + 1
  BY <1>1, MsgTypes, AppendProperties
<1>3. c = Confirmed(s)
  BY DEF Confirmed, ServerState
<1> HIDE DEF t, n
<1>4. n \in Nat /\ n = s.hsSeqC + 1
  BY <1>1 DEF n
<1>5. c \in ServerState
  <2> DEFINE s1 == [s EXCEPT !.hsSeqC = n]
             s2 == [s1 EXCEPT !.transcript = t]
             s3 == [s2 EXCEPT !.established = TRUE]
  <2>1. c = s3
    OBVIOUS
  <2>2. s1 \in ServerState
    BY <1>4, Updates
  <2> HIDE DEF s1
  <2>3. s2 \in ServerState
    BY <1>2, <2>2, Updates
  <2> HIDE DEF s2
  <2> QED
    BY <2>1, <2>3, Updates
<1>6. /\ c.transcript = t /\ c.chts = s.chts /\ c.capp = s.capp
      /\ c.sapp = s.sapp /\ c.hsSeqC = n /\ c.hello = s.hello
      /\ c.seqC = s.seqC /\ c.seqS = s.seqS
  BY DEF ServerState
<1> HIDE DEF c
<1> QED
  BY <1>2, <1>3, <1>4, <1>5, <1>6

\* A Finished that does not open uses up a handshake number and no more.
LEMMA FailedFinished ==
    ASSUME NEW s \in ServerState
    PROVE  \A f : f = [s EXCEPT !.hsSeqC = @ + 1] =>
             /\ f \in ServerState
             /\ f.hsSeqC = s.hsSeqC + 1 /\ f.seqC = s.seqC
             /\ f.transcript = s.transcript /\ f.chts = s.chts
             /\ f.capp = s.capp /\ f.sapp = s.sapp /\ f.seqS = s.seqS
             /\ f.hello = s.hello /\ f.established = s.established
<1> TAKE f
<1> HAVE f = [s EXCEPT !.hsSeqC = @ + 1]
<1>1. s.hsSeqC + 1 \in Nat
  BY DEF ServerState
<1>2. f \in ServerState
  BY <1>1, Updates
<1> QED
  BY <1>2 DEF ServerState

\* A query that does not open uses up a number and changes nothing else.
LEMMA FailedQuery ==
    ASSUME NEW s \in ServerState
    PROVE  \A f : f = [s EXCEPT !.seqC = @ + 1] =>
             /\ f \in ServerState
             /\ f.seqC = s.seqC + 1 /\ f.hsSeqC = s.hsSeqC
             /\ f.transcript = s.transcript /\ f.chts = s.chts
             /\ f.capp = s.capp /\ f.sapp = s.sapp /\ f.seqS = s.seqS
             /\ f.hello = s.hello /\ f.established = s.established
<1> TAKE f
<1> HAVE f = [s EXCEPT !.seqC = @ + 1]
<1>1. s.seqC + 1 \in Nat
  BY DEF ServerState
<1>2. f \in ServerState
  BY <1>1, Updates
<1> QED
  BY <1>2 DEF ServerState

LEMMA AnsweredFacts ==
    ASSUME NEW s \in ServerState
    PROVE  \E c :
             /\ c = Answered(s) /\ c \in ServerState
             /\ c.seqC = s.seqC + 1 /\ c.seqS = s.seqS + 1
             /\ c.hsSeqC = s.hsSeqC /\ c.transcript = s.transcript
             /\ c.chts = s.chts /\ c.capp = s.capp /\ c.sapp = s.sapp
             /\ c.hello = s.hello
<1> DEFINE m == s.seqC + 1
           n == s.seqS + 1
           c == [s EXCEPT !.seqC = m, !.seqS = n]
<1>1. m \in Nat /\ n \in Nat
  BY DEF ServerState
<1>2. c = Answered(s)
  BY DEF Answered, ServerState
<1>3. m = s.seqC + 1 /\ n = s.seqS + 1
  OBVIOUS
<1> HIDE DEF m, n
<1>4. c \in ServerState
  <2> DEFINE s1 == [s EXCEPT !.seqC = m]
  <2>1. c = [s1 EXCEPT !.seqS = n]
    OBVIOUS
  <2>2. s1 \in ServerState
    BY <1>1, Updates
  <2> HIDE DEF s1
  <2> QED
    BY <1>1, <2>1, <2>2, Updates
<1>5. /\ c.seqC = m /\ c.seqS = n /\ c.hsSeqC = s.hsSeqC
      /\ c.transcript = s.transcript /\ c.chts = s.chts
      /\ c.capp = s.capp /\ c.sapp = s.sapp /\ c.hello = s.hello
  BY DEF ServerState
<1> HIDE DEF c
<1> QED
  BY <1>2, <1>3, <1>4, <1>5

LEMMA FinishedKeeps == DInv /\ CallFinished => DInv'
<1> SUFFICES ASSUME DInv, CallFinished PROVE DInv'
  OBVIOUS
<1>1. srv \in ServerState
  BY DEF DInv
<1>2. /\ Len(srv.transcript) \in Nat
      /\ srv.hsSeqC \in Nat
  BY <1>1, Numbers
<1>3. PICK rec : /\ ClientFinished(rec)
                 /\ accepted' = IF FinishedOk(rec) THEN Tally(accepted, rec)
                                                   ELSE accepted
                 /\ sealed' = sealed
  BY DEF CallFinished
<1>4. CASE ~ FinishedOk(rec) /\ srv' = srv
  BY <1>3, <1>4 DEF DInv, KeysFit, SealedFits, AcceptedFits
<1>5. CASE ~ FinishedOk(rec) /\ srv' = [srv EXCEPT !.hsSeqC = @ + 1]
  <2>1. /\ srv' \in ServerState
        /\ srv'.hsSeqC = srv.hsSeqC + 1 /\ srv'.seqC = srv.seqC
        /\ srv'.transcript = srv.transcript /\ srv'.chts = srv.chts
        /\ srv'.capp = srv.capp /\ srv'.sapp = srv.sapp /\ srv'.seqS = srv.seqS
        /\ srv'.hello = srv.hello /\ srv'.established = srv.established
    BY <1>1, <1>5, FailedFinished
  <2>2. KeysFit' /\ SealedFits'
    BY <1>3, <2>1 DEF DInv, KeysFit, SealedFits
  <2>3. \A n \in 0 .. srv.hsSeqC - 1 : n \in 0 .. srv'.hsSeqC - 1
    BY <1>2, <2>1
  <2>4. AcceptedFits'
    BY <1>3, <1>5, <2>1, <2>3 DEF DInv, AcceptedFits
  <2> QED
    BY <2>1, <2>2, <2>4 DEF DInv
<1>6. CASE FinishedOk(rec) /\ srv' = Confirmed(srv)
  <2>1. PICK c :
          /\ c = Confirmed(srv) /\ c \in ServerState
          /\ Len(c.transcript) = Len(srv.transcript) + 1
          /\ c.chts = srv.chts /\ c.capp = srv.capp /\ c.sapp = srv.sapp
          /\ c.hsSeqC = srv.hsSeqC + 1 /\ c.hello = srv.hello
          /\ c.seqC = srv.seqC /\ c.seqS = srv.seqS
    BY <1>1, FinishedFacts
  <2>2. srv' = c
    BY <1>6, <2>1
  <2>3. \A n \in 0 .. Len(srv.transcript) : n \in 0 .. Len(c.transcript)
    BY <1>2, <2>1
  <2>4. /\ srv.hello /\ rec.key = srv.chts /\ rec.seq = srv.hsSeqC
        /\ rec.key.label = "c hs traffic"
        /\ Len(rec.key.tr) \in 0 .. Len(srv.transcript)
    BY <1>6 DEF FinishedOk, Opens, DInv, KeysFit
  <2>5. KeysFit'
    BY <2>1, <2>2, <2>3, <2>4 DEF DInv, KeysFit
  <2>6. SealedFits'
    BY <1>3, <2>1, <2>2, <2>3 DEF DInv, SealedFits
  <2>7. rec \notin DOMAIN accepted
    <3>1. srv.hsSeqC \notin 0 .. srv.hsSeqC - 1
      BY <1>2
    <3>2. "c hs traffic" # "c ap traffic"
      OBVIOUS
    <3> QED
      BY <2>4, <3>1, <3>2 DEF DInv, AcceptedFits
  <2>8. Once(accepted') /\ DOMAIN accepted' = DOMAIN accepted \cup {rec}
    BY <1>3, <1>6, <2>7, TallyNew DEF DInv, AcceptedFits
  <2>9. AcceptedFits'
    <3> SUFFICES ASSUME NEW e \in DOMAIN accepted'
                 PROVE  \/ /\ e.key.label = "c hs traffic"
                           /\ Len(e.key.tr) \in 0 .. Len(c.transcript)
                           /\ e.key = c.chts => e.seq \in 0 .. c.hsSeqC - 1
                        \/ e.key.label = "c ap traffic" /\ e.seq \in 0 .. c.seqC - 1
      BY <2>2, <2>8 DEF AcceptedFits
    <3>1. \A n \in 0 .. srv.hsSeqC - 1 : n \in 0 .. c.hsSeqC - 1
      BY <1>2, <2>1
    <3>2. srv.hsSeqC \in 0 .. c.hsSeqC - 1
      BY <1>2, <2>1
    <3>3. CASE e = rec
      BY <3>2, <3>3, <2>1, <2>3, <2>4
    <3>4. CASE e \in DOMAIN accepted
      BY <3>1, <3>4, <2>1, <2>3 DEF DInv, AcceptedFits
    <3> QED
      BY <3>3, <3>4, <2>8
  <2> QED
    BY <2>1, <2>2, <2>5, <2>6, <2>9 DEF DInv
<1> QED
  BY <1>3, <1>4, <1>5, <1>6 DEF ClientFinished, FinishedOk

LEMMA QueryKeeps == DInv /\ CallQuery => DInv'
<1> SUFFICES ASSUME DInv, CallQuery PROVE DInv'
  OBVIOUS
<1>1. srv \in ServerState
  BY DEF DInv
<1>2. srv.seqC \in Nat /\ srv.seqS \in Nat
  BY <1>1, Numbers
<1>3. PICK rec : /\ Query(rec)
                 /\ accepted' = IF QueryAnswered(rec) THEN Tally(accepted, rec)
                                                      ELSE accepted
                 /\ sealed' = IF QueryAnswered(rec)
                                THEN Tally(sealed, <<srv'.sapp, srv'.seqS - 1>>)
                                ELSE sealed
  BY DEF CallQuery
<1>4. CASE ~ QueryAnswered(rec) /\ srv' = srv
  BY <1>3, <1>4 DEF DInv, KeysFit, SealedFits, AcceptedFits
<1>5. CASE ~ QueryAnswered(rec) /\ srv' = [srv EXCEPT !.seqC = @ + 1]
  <2>1. /\ srv' \in ServerState
        /\ srv'.seqC = srv.seqC + 1 /\ srv'.hsSeqC = srv.hsSeqC
        /\ srv'.transcript = srv.transcript /\ srv'.chts = srv.chts
        /\ srv'.capp = srv.capp /\ srv'.sapp = srv.sapp /\ srv'.seqS = srv.seqS
        /\ srv'.hello = srv.hello /\ srv'.established = srv.established
    BY <1>1, <1>5, FailedQuery
  <2>2. KeysFit' /\ SealedFits'
    BY <1>3, <1>5, <2>1 DEF DInv, KeysFit, SealedFits
  <2>3. \A n \in 0 .. srv.seqC - 1 : n \in 0 .. srv'.seqC - 1
    BY <1>2, <2>1
  <2>4. AcceptedFits'
    BY <1>3, <1>5, <2>1, <2>3 DEF DInv, AcceptedFits
  <2> QED
    BY <2>1, <2>2, <2>4 DEF DInv
<1>6. CASE QueryAnswered(rec) /\ srv' = Answered(srv)
  <2>1. PICK c :
          /\ c = Answered(srv) /\ c \in ServerState
          /\ c.seqC = srv.seqC + 1 /\ c.seqS = srv.seqS + 1
          /\ c.hsSeqC = srv.hsSeqC /\ c.transcript = srv.transcript
          /\ c.chts = srv.chts /\ c.capp = srv.capp /\ c.sapp = srv.sapp
          /\ c.hello = srv.hello
    BY <1>1, AnsweredFacts
  <2>2. srv' = c
    BY <1>6, <2>1
  <2>3. /\ srv.hello /\ rec.key = srv.capp /\ rec.seq = srv.seqC
        /\ rec.key.label = "c ap traffic"
        /\ srv.sapp.label = "s ap traffic"
    BY <1>6 DEF QueryAnswered, QueryOpens, Opens, DInv, KeysFit
  <2>4. KeysFit'
    BY <2>1, <2>2, <2>3 DEF DInv, KeysFit
  <2>5. SealedFits'
    <3> DEFINE e == <<srv.sapp, srv.seqS>>
    <3>1. srv'.seqS - 1 = srv.seqS /\ srv'.sapp = srv.sapp
      BY <1>2, <2>1, <2>2
    <3>2. sealed' = Tally(sealed, e)
      BY <1>3, <1>6, <3>1
    <3>3. e[1].label = "s ap traffic" /\ e[2] = srv.seqS
      BY <2>3
    <3> HIDE DEF e
    <3>4. e \notin DOMAIN sealed
      <4>1. srv.seqS \notin 0 .. srv.seqS - 1
        BY <1>2
      <4>2. "s hs traffic" # "s ap traffic"
        OBVIOUS
      <4> QED
        BY <3>3, <4>1, <4>2 DEF DInv, SealedFits
    <3>5. Once(sealed') /\ DOMAIN sealed' = DOMAIN sealed \cup {e}
      BY <3>2, <3>4, TallyNew DEF DInv, SealedFits
    <3> SUFFICES ASSUME NEW f \in DOMAIN sealed'
                 PROVE  \/ /\ f[1].label = "s hs traffic"
                           /\ Len(f[1].tr) \in 0 .. Len(srv.transcript)
                        \/ f[1].label = "s ap traffic" /\ f[2] \in 0 .. c.seqS - 1
      BY <2>1, <2>2, <3>5 DEF SealedFits
    <3>6. \A n \in 0 .. srv.seqS - 1 : n \in 0 .. c.seqS - 1
      BY <1>2, <2>1
    <3>7. srv.seqS \in 0 .. c.seqS - 1
      BY <1>2, <2>1
    <3> QED
      BY <3>3, <3>5, <3>6, <3>7 DEF DInv, SealedFits
  <2>6. AcceptedFits'
    <3>1. rec \notin DOMAIN accepted
      <4>1. srv.seqC \notin 0 .. srv.seqC - 1
        BY <1>2
      <4>2. "c hs traffic" # "c ap traffic"
        OBVIOUS
      <4> QED
        BY <2>3, <4>1, <4>2 DEF DInv, AcceptedFits
    <3>2. Once(accepted') /\ DOMAIN accepted' = DOMAIN accepted \cup {rec}
      BY <1>3, <1>6, <3>1, TallyNew DEF DInv, AcceptedFits
    <3> SUFFICES ASSUME NEW e \in DOMAIN accepted'
                 PROVE  \/ /\ e.key.label = "c hs traffic"
                           /\ Len(e.key.tr) \in 0 .. Len(srv.transcript)
                           /\ e.key = srv.chts => e.seq \in 0 .. srv.hsSeqC - 1
                        \/ e.key.label = "c ap traffic" /\ e.seq \in 0 .. c.seqC - 1
      BY <2>1, <2>2, <3>2 DEF AcceptedFits
    <3>3. \A n \in 0 .. srv.seqC - 1 : n \in 0 .. c.seqC - 1
      BY <1>2, <2>1
    <3>4. srv.seqC \in 0 .. c.seqC - 1
      BY <1>2, <2>1
    <3> QED
      BY <2>3, <3>2, <3>3, <3>4 DEF DInv, AcceptedFits
  <2> QED
    BY <2>1, <2>2, <2>4, <2>5, <2>6 DEF DInv
<1> QED
  BY <1>3, <1>4, <1>5, <1>6 DEF Query, QueryAnswered

LEMMA DriverStep == DInv /\ [DriverNext]_dvars => DInv'
<1>1. DInv /\ UNCHANGED dvars => DInv'
  BY DEF dvars, DInv, KeysFit, SealedFits, AcceptedFits
<1> QED
  BY <1>1, HelloKeeps, FinishedKeeps, QueryKeeps DEF DriverNext

THEOREM DriverAlways == DriverSpec => []DInv
BY DriverStart, DriverStep, PTL DEF DriverSpec

\* However the provider is called, it never seals two records under one key
\* and sequence number.
THEOREM NeverTwice == DriverSpec => []NonceOnce
<1>1. DInv => NonceOnce
  BY NotTwice DEF DInv, SealedFits, NonceOnce
<1> QED
  BY <1>1, DriverAlways, PTL

\* And it never acts on a record twice, also not after a second hello that
\* starts the numbers of the handshake keys again.
THEOREM NeverReplayed == DriverSpec => []NoReplay
<1>1. DInv => NoReplay
  BY NotTwice DEF DInv, AcceptedFits, NoReplay
<1> QED
  BY <1>1, DriverAlways, PTL

=============================================================================
