------------------------------ MODULE Provider ------------------------------
(***************************************************************************)
(* The provider S of trustedari/tls_provider.py: one connection's worth of *)
(* TLS 1.3 server state that the relay drives by calling on_client_hello,  *)
(* on_client_finished and on_query.                                        *)
(*                                                                         *)
(* A point of the curve is its discrete logarithm modulo the group order   *)
(* Q, so multiplying a point by a scalar is multiplication modulo Q.  A    *)
(* handshake message is a pair <<kind, share>>, a transcript a sequence of *)
(* them.  A secret is a record of everything it was derived from: its      *)
(* label, the x-coordinate fed to HKDF-Extract and the transcript.  Two    *)
(* secrets are equal exactly when all their inputs are.                    *)
(***************************************************************************)
EXTENDS Integers, Sequences

CONSTANTS
    Q,          \* the group order (a small prime when model checking)
    Name, CA,   \* provider names and certificate authorities
    MaxSeq      \* bound on every record sequence number

ASSUME QAssumption == Q \in Nat /\ Q > 2
ASSUME MaxSeqAssumption == MaxSeq \in Nat

VARIABLE srv    \* the fields of the TLSProvider object

Scalar == 1 .. Q - 1
Mul(a, b) == (a * b) % Q

\* The group order is prime.
ASSUME PrimeAssumption == \A b, c \in Scalar : Mul(b, c) # 0

X(pt) == IF pt <= Q - pt THEN pt ELSE Q - pt    \* x(P) = x(-P)

Label == {"none", "c hs traffic", "s hs traffic", "c ap traffic",
          "s ap traffic"}
Secret(label, x, tr) == [label |-> label, x |-> x, tr |-> tr]
None == Secret("none", 0, <<>>)

\* A record is decryptable only under the key and sequence number it was
\* sealed with; ct is the inner content type.
Rec(key, seq, ct, body) == [key |-> key, seq |-> seq, ct |-> ct, body |-> body]
Opens(rec, key, seq) == rec.key = key /\ rec.seq = seq

Finished(mac, over) == [m |-> "CF", mac |-> mac, over |-> over]
Plain(m) == [m |-> m, mac |-> None, over |-> <<>>]

CH(ks) == <<"CH", ks>>
SH(ks) == <<"SH", ks>>
EE == <<"EE", 0>>
CRT == <<"CRT", 0>>
CV == <<"CV", 0>>
SF == <<"SF", 0>>
CF == <<"CF", 0>>

Flown(hs) == hs \o <<EE, CRT, CV, SF>>

\* TLSProvider.__init__.
Fresh(n, c, y) ==
    [name |-> n, ca |-> c, y |-> y, transcript |-> <<>>, sfTr |-> <<>>,
     chts |-> None, shts |-> None, capp |-> None, sapp |-> None,
     hsSeqS |-> 0, hsSeqC |-> 0, seqC |-> 0, seqS |-> 0,
     hello |-> FALSE, established |-> FALSE]

(***************************************************************************)
(* on_client_hello: both handshake secrets over CH..SH, the flight sealed  *)
(* under the server one, the application secrets over CH..SF.  Only the    *)
(* handshake sequence numbers restart; the transcript grows.               *)
(***************************************************************************)
Greeted(s, ks) ==
    LET x  == X(Mul(s.y, ks))
        hs == s.transcript \o <<CH(ks), SH(s.y)>>
        sf == Flown(hs)
    IN  [s EXCEPT !.transcript = sf, !.sfTr = sf,
                  !.chts = Secret("c hs traffic", x, hs),
                  !.shts = Secret("s hs traffic", x, hs),
                  !.capp = Secret("c ap traffic", x, sf),
                  !.sapp = Secret("s ap traffic", x, sf),
                  !.hsSeqS = 1, !.hsSeqC = 0, !.hello = TRUE]

ClientHello(ks) == srv' = Greeted(srv, ks)

\* The answer to ClientHello: SH in the clear and the sealed flight.  The
\* certificate binds name to the key that signed the transcript in CV, and
\* SF is a MAC under a key derived from shts over the transcript up to CV.
Flight(s) ==
    [share |-> s.y, key |-> s.shts, seq |-> s.hsSeqS - 1,
     name |-> s.name, ca |-> s.ca,
     cv |-> s.shts.tr \o <<EE, CRT>>,
     sf |-> [key |-> s.shts, over |-> s.shts.tr \o <<EE, CRT, CV>>]]

(***************************************************************************)
(* on_client_finished.  The sequence number moves before the record is     *)
(* judged.  FinishedOk is the value returned; FinishedRaises says that the *)
(* call ends in an exception instead: the keys are missing when no hello   *)
(* came before, or an assertion on the opened record fails.                *)
(***************************************************************************)
FinishedRaises(rec) ==
    \/ ~ srv.hello
    \/ /\ Opens(rec, srv.chts, srv.hsSeqC)
       /\ ~ (rec.ct = "hs" /\ rec.body.m = "CF")

FinishedOk(rec) ==
    /\ srv.hello
    /\ Opens(rec, srv.chts, srv.hsSeqC)
    /\ rec.ct = "hs"
    /\ rec.body = Finished(srv.chts, srv.sfTr)

Confirmed(s) == [s EXCEPT !.hsSeqC = @ + 1,
                          !.transcript = Append(@, CF),
                          !.established = TRUE]

ClientFinished(rec) ==
    /\ srv.hsSeqC < MaxSeq
    /\ \/ ~ srv.hello /\ UNCHANGED srv
       \/ srv.hello /\ ~ FinishedOk(rec) /\ srv' = [srv EXCEPT !.hsSeqC = @ + 1]
       \/ FinishedOk(rec) /\ srv' = Confirmed(srv)

(***************************************************************************)
(* on_query.  Without a Finished it is a failed assertion; a record that   *)
(* does not open, or does not hold a JSON query, raises, and has used up a *)
(* sequence number by then.                                                *)
(***************************************************************************)
QueryOpens(rec) ==
    /\ Opens(rec, srv.capp, srv.seqC)
    /\ rec.ct = "app" /\ rec.body.m = "QUERY"

QueryAnswered(rec) == srv.established /\ QueryOpens(rec)

\* Mutants of Answered: one of the two sequence numbers stands still.
AnsweredSameNonce(s) == [s EXCEPT !.seqC = @ + 1]
AnsweredReplayable(s) == [s EXCEPT !.seqS = @ + 1]

Answered(s) == [s EXCEPT !.seqC = @ + 1, !.seqS = @ + 1]

Query(rec) ==
    /\ srv.seqC < MaxSeq
    /\ \/ ~ srv.established /\ UNCHANGED srv
       \/ /\ srv.established /\ ~ QueryOpens(rec)
          /\ srv' = [srv EXCEPT !.seqC = @ + 1]
       \/ QueryAnswered(rec) /\ srv' = Answered(srv)

\* Mutant of Response: sealed after the number has moved.
ResponseLate(s) == Rec(s.sapp, s.seqS, "app", Plain("RESPONSE"))

\* The response to the query that moved seqS to its present value.
Response(s) == Rec(s.sapp, s.seqS - 1, "app", Plain("RESPONSE"))

\* An object that has already served a connection, to a client with share 0
\* (which no client of this connection has).
Used(n, c, y) == Answered(Confirmed(Greeted(Fresh(n, c, y), 0)))

-----------------------------------------------------------------------------
(***************************************************************************)
(* Types.                                                                  *)
(***************************************************************************)
HsMsg == {"CH", "SH", "EE", "CRT", "CV", "SF", "CF"} \X (0 .. Q - 1)
Secrets == [label : Label, x : 0 .. Q - 1, tr : Seq(HsMsg)]

ServerState ==
    [name : Name, ca : CA, y : Scalar, transcript : Seq(HsMsg),
     sfTr : Seq(HsMsg), chts : Secrets, shts : Secrets, capp : Secrets,
     sapp : Secrets, hsSeqS : Nat, hsSeqC : Nat, seqC : Nat, seqS : Nat,
     hello : BOOLEAN, established : BOOLEAN]

=============================================================================
