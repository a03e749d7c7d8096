----------------------------- MODULE Handshake ------------------------------
(***************************************************************************)
(* The three-party handshake of trustedari/handshake.py: agent_handshake   *)
(* (A, side 0) and relay_handshake (R, side 1) run in two threads that     *)
(* exchange tagged messages over one channel; R drives the provider S.     *)
(*                                                                         *)
(* pc names what a party does next, usually the message it waits for.  An  *)
(* action is one recv together with everything the party does up to its    *)
(* next recv.  Both key-schedule phases run under MODE_SIM, as in the      *)
(* code: the owner of an ECtF input sends it in the clear ("sim.t"), each  *)
(* party derives the same annotated value, and a share stands for the      *)
(* value its holder derived.  Opening or joining two shares yields that    *)
(* value when both parties derived the same one, and garbage otherwise.    *)
(***************************************************************************)
EXTENDS Provider

CONSTANTS
    WantName, TrustedCA,    \* the agent's want_name and ca_pk
    MayExpire               \* sides whose 300 s recv timeout may fire although
                            \* the peer is still at work

ASSUME WantAssumption == WantName \in Name /\ TrustedCA \in CA
ASSUME MayExpireAssumption == MayExpire \subseteq {0, 1}

VARIABLES
    pc,     \* pc[s]: the control point of the thread of side s
    fate,   \* fate[s]: "alive", or the exception that ended the thread there
    q,      \* q[s]: messages sent by side s and not yet received
    a,      \* locals of agent_handshake, then the AgentResult
    r       \* locals of relay_handshake, then the RelayResult

A == 0
R == 1
Side == {A, R}
Peer(s) == 1 - s

\* What can come out of joining shares of two different values.
Garbage == Secret("none", 1, <<>>)
Open(mine, theirs) == IF mine = theirs THEN mine ELSE Garbage

\* ectf_x_add over finv: equal x-coordinates make the masked inverse 0, and
\* what comes out is then no x-coordinate of the sum.
Ectf(p1, p2) == IF X(p1) = X(p2) THEN 0 ELSE X((p1 + p2) % Q)

\* The tag the recv at a control point asks for.
Await == <<
    [zb |-> "zb", shf |-> "shf", x2 |-> "sim.t", y2 |-> "sim.t", dx |-> "op",
     chts |-> "op", shts |-> "op", ivc |-> "op", ivs |-> "op",
     tksr |-> "tksr", cfok |-> "cfok",
     tkr |-> "sim.t", gcm |-> "op", ct |-> "op", resp |-> "resp"],
    [za |-> "za", ch |-> "ch", x1 |-> "sim.t", y1 |-> "sim.t", dx |-> "op",
     h2 |-> "h2", ivc |-> "op", ivs |-> "op", com |-> "com", cf |-> "cf",
     seg |-> "sim.t", tka |-> "sim.t", gcm |-> "op", ct |-> "op"] >>

\* _ks_phase1: the handshake secrets of the ECtF output x and of CH..SH.
ChtsOf(x, tr) == Secret("c hs traffic", x, tr)
ShtsOf(x, tr) == Secret("s hs traffic", x, tr)

\* _ks_phase2: the application secrets, key and iv, of x and of CH..SF.
CappOf(x, tr) == Secret("c ap traffic", x, tr)
SappOf(x, tr) == Secret("s ap traffic", x, tr)

Awaits(s) == Await[s + 1]
Alive(s) == fate[s] = "alive"
At(s, p) == pc[s] = p /\ Alive(s)
Waiting(s) == Alive(s) /\ pc[s] \in DOMAIN Awaits(s)

Msg(t, v) == [tag |-> t, val |-> v]

\* Chan.recv of side s at control point p finds the message it asks for.
Takes(s, p) ==
    /\ At(s, p)
    /\ q[Peer(s)] # <<>>
    /\ Head(q[Peer(s)]).tag = Awaits(s)[p]
Got(s) == Head(q[Peer(s)]).val

\* The channel after side s has received, then sent msgs.
Passes(s, msgs) == q' = [q EXCEPT ![s] = @ \o msgs, ![Peer(s)] = Tail(@)]
Goes(s, p) == pc' = [pc EXCEPT ![s] = p] /\ UNCHANGED fate
Dies(s, how) == fate' = [fate EXCEPT ![s] = how] /\ UNCHANGED pc

Init ==
    /\ \E n \in Name, c \in CA, y \in Scalar :
           srv = Fresh(n, c, y) \/ srv = Used(n, c, y)
    /\ \E rA, rR \in Scalar :
           /\ (rA + rR) % Q # 0         \* CKS is not the point at infinity
           /\ a = [k |-> rA, cks |-> 0, ssk |-> 0, x |-> 0, tr |-> <<>>,
                   flight |-> Flight(Fresh(WantName, TrustedCA, 1)),
                   peer |-> 0, chts |-> None, shts |-> None, capp |-> None,
                   sapp |-> None, tk |-> None, com |-> None, ok |-> FALSE]
           /\ r = [k |-> rR, cks |-> 0, ssk |-> 0, x |-> 0, tr |-> <<>>,
                   h2 |-> <<>>, peer |-> 0, capp |-> None, sapp |-> None,
                   com |-> None, ok |-> FALSE]
    /\ pc = [s \in Side |-> IF s = A THEN "start" ELSE "za"]
    /\ fate = [s \in Side |-> "alive"]
    /\ q = [s \in Side |-> <<>>]

-----------------------------------------------------------------------------
(***************************************************************************)
(* agent_handshake.                                                        *)
(***************************************************************************)
AStart ==
    /\ At(A, "start")
    /\ q' = [q EXCEPT ![A] = @ \o <<Msg("za", a.k)>>]
    /\ Goes(A, "zb")
    /\ UNCHANGED <<a, r, srv>>

AHello ==
    /\ Takes(A, "zb")
    /\ LET cks == (a.k + Got(A)) % Q
       IN  /\ a' = [a EXCEPT !.cks = cks]
           /\ Passes(A, <<Msg("ch", cks)>>)
    /\ Goes(A, "shf")
    /\ UNCHANGED <<r, srv>>

\* Reads SH in the clear, enters phase 1 and ships its two ECtF inputs.
AServerHello ==
    /\ Takes(A, "shf")
    /\ LET f   == Got(A)
           ssk == Mul(a.k, f.share)
       IN  /\ a' = [a EXCEPT !.flight = f, !.ssk = ssk,
                             !.tr = <<CH(a.cks), SH(f.share)>>]
           /\ Passes(A, <<Msg("sim.t", ssk), Msg("sim.t", ssk)>>)
    /\ Goes(A, "x2")
    /\ UNCHANGED <<r, srv>>

AInputX ==
    /\ Takes(A, "x2")
    /\ a' = [a EXCEPT !.peer = Got(A)]
    /\ Passes(A, <<>>)
    /\ Goes(A, "y2")
    /\ UNCHANGED <<r, srv>>

\* The second coordinate, then the masked opening inside finv.
AInputY ==
    /\ Takes(A, "y2")
    /\ a' = [a EXCEPT !.x = Ectf(a.ssk, a.peer)]
    /\ Passes(A, <<Msg("op", None)>>)
    /\ Goes(A, "dx")
    /\ UNCHANGED <<r, srv>>

AInverse ==
    /\ Takes(A, "dx")
    /\ Passes(A, <<>>)
    /\ Goes(A, "chts")
    /\ UNCHANGED <<a, r, srv>>

AOpenChts ==
    /\ Takes(A, "chts")
    /\ a' = [a EXCEPT !.chts = Open(ChtsOf(a.x, a.tr), Got(A))]
    /\ Passes(A, <<>>)
    /\ Goes(A, "shts")
    /\ UNCHANGED <<r, srv>>

OpenedShts == Open(ShtsOf(a.x, a.tr), Got(A))
Decrypts(shts) == a.flight.key = shts /\ a.flight.seq = 0

\* The certificate chain, CertificateVerify and the server Finished.
Verified(shts) ==
    /\ a.flight.ca = TrustedCA
    /\ a.flight.name = WantName
    /\ a.flight.cv = a.tr \o <<EE, CRT>>
    /\ a.flight.sf = [key |-> shts, over |-> a.tr \o <<EE, CRT, CV>>]

\* A failed verification only clears ok: the agent goes on with phase 2.
AVerify ==
    /\ Takes(A, "shts")
    /\ Decrypts(OpenedShts)
    /\ LET tr == Flown(a.tr)
       IN  /\ a' = [a EXCEPT !.shts = OpenedShts, !.tr = tr,
                             !.ok = Verified(OpenedShts),
                             !.capp = CappOf(a.x, tr),
                             !.sapp = SappOf(a.x, tr)]
           /\ Passes(A, <<Msg("h2", tr), Msg("op", a'.capp)>>)
    /\ Goes(A, "ivc")
    /\ UNCHANGED <<r, srv>>

\* A flight that does not decrypt raises.
ABadFlight ==
    /\ Takes(A, "shts")
    /\ ~ Decrypts(OpenedShts)
    /\ Passes(A, <<>>)
    /\ Dies(A, "raised")
    /\ UNCHANGED <<a, r, srv>>

AOpenIvC ==
    /\ Takes(A, "ivc")
    /\ a' = [a EXCEPT !.capp = Open(a.capp, Got(A))]
    /\ Passes(A, <<Msg("op", a.sapp)>>)
    /\ Goes(A, "ivs")
    /\ UNCHANGED <<r, srv>>

ACommit ==
    /\ Takes(A, "ivs")
    /\ a' = [a EXCEPT !.sapp = Open(a.sapp, Got(A)), !.com = a.sapp]
    /\ Passes(A, <<Msg("com", a.sapp)>>)
    /\ Goes(A, "tksr")
    /\ UNCHANGED <<r, srv>>

\* Mutant of AFinish: the confirmation is always read.
AFinishWaits ==
    /\ Takes(A, "tksr")
    /\ a' = [a EXCEPT !.tk = Open(a.com, Got(A)), !.tr = Append(@, CF)]
    /\ Passes(A, <<Msg("cf", Rec(a.chts, 0, "hs", Finished(a.chts, a.tr)))>>)
    /\ Goes(A, "cfok")
    /\ UNCHANGED <<r, srv>>

\* Joins tk_sapp and sends the client Finished.  "ok and recv(...)" does not
\* evaluate the recv when ok is already false.
AFinish ==
    /\ Takes(A, "tksr")
    /\ a' = [a EXCEPT !.tk = Open(a.com, Got(A)), !.tr = Append(@, CF)]
    /\ Passes(A, <<Msg("cf", Rec(a.chts, 0, "hs", Finished(a.chts, a.tr)))>>)
    /\ Goes(A, IF a.ok THEN "cfok" ELSE "over")
    /\ UNCHANGED <<r, srv>>

AConfirmed ==
    /\ Takes(A, "cfok")
    /\ a' = [a EXCEPT !.ok = Got(A)]
    /\ Passes(A, <<>>)
    /\ Goes(A, "over")
    /\ UNCHANGED <<r, srv>>

-----------------------------------------------------------------------------
(***************************************************************************)
(* relay_handshake.                                                        *)
(***************************************************************************)
RShare ==
    /\ Takes(R, "za")
    /\ r' = [r EXCEPT !.cks = (r.k + Got(R)) % Q]
    /\ Passes(R, <<Msg("zb", r.k)>>)
    /\ Goes(R, "ch")
    /\ UNCHANGED <<a, srv>>

\* Asserts that the hello carries the joint share, forwards it to S and
\* hands the whole answer to the agent.
RClientHello ==
    /\ Takes(R, "ch")
    /\ Got(R) = r.cks
    /\ ClientHello(r.cks)
    /\ r' = [r EXCEPT !.ssk = Mul(r.k, srv'.y),
                      !.tr = <<CH(r.cks), SH(srv'.y)>>]
    /\ Passes(R, <<Msg("shf", Flight(srv'))>>)
    /\ Goes(R, "x1")
    /\ UNCHANGED a

RInputX ==
    /\ Takes(R, "x1")
    /\ r' = [r EXCEPT !.peer = Got(R)]
    /\ Passes(R, <<>>)
    /\ Goes(R, "y1")
    /\ UNCHANGED <<a, srv>>

RInputY ==
    /\ Takes(R, "y1")
    /\ r' = [r EXCEPT !.x = Ectf(r.peer, r.ssk)]
    /\ Passes(R, <<Msg("sim.t", r.ssk), Msg("sim.t", r.ssk), Msg("op", None)>>)
    /\ Goes(R, "dx")
    /\ UNCHANGED <<a, srv>>

\* Releases its shares of CHTS and SHTS.
RRelease ==
    /\ Takes(R, "dx")
    /\ Passes(R, <<Msg("op", ChtsOf(r.x, r.tr)),
                   Msg("op", ShtsOf(r.x, r.tr))>>)
    /\ Goes(R, "h2")
    /\ UNCHANGED <<a, r, srv>>

\* Mutant of RPhase2: the application secrets over CH..SH, not over CH..SF.
RPhase2Short ==
    /\ Takes(R, "h2")
    /\ r' = [r EXCEPT !.h2 = Got(R),
                      !.capp = CappOf(r.x, r.tr),
                      !.sapp = SappOf(r.x, r.tr)]
    /\ Passes(R, <<Msg("op", r'.capp)>>)
    /\ Goes(R, "ivc")
    /\ UNCHANGED <<a, srv>>

RPhase2 ==
    /\ Takes(R, "h2")
    /\ r' = [r EXCEPT !.h2 = Got(R),
                      !.capp = CappOf(r.x, Got(R)),
                      !.sapp = SappOf(r.x, Got(R))]
    /\ Passes(R, <<Msg("op", r'.capp)>>)
    /\ Goes(R, "ivc")
    /\ UNCHANGED <<a, srv>>

ROpenIvC ==
    /\ Takes(R, "ivc")
    /\ r' = [r EXCEPT !.capp = Open(r.capp, Got(R))]
    /\ Passes(R, <<Msg("op", r.sapp)>>)
    /\ Goes(R, "ivs")
    /\ UNCHANGED <<a, srv>>

\* Mutant of ROpenIvS: R reveals its share and only then asks for the
\* commitment.
ROpenIvSEager ==
    /\ Takes(R, "ivs")
    /\ r' = [r EXCEPT !.sapp = Open(r.sapp, Got(R))]
    /\ Passes(R, <<Msg("tksr", r.sapp)>>)
    /\ Goes(R, "com")
    /\ UNCHANGED <<a, srv>>

ROpenIvS ==
    /\ Takes(R, "ivs")
    /\ r' = [r EXCEPT !.sapp = Open(r.sapp, Got(R))]
    /\ Passes(R, <<>>)
    /\ Goes(R, "com")
    /\ UNCHANGED <<a, srv>>

\* Only with the agent's commitment in hand does R reveal tk_R_sapp.
RReveal ==
    /\ Takes(R, "com")
    /\ r' = [r EXCEPT !.com = Got(R)]
    /\ Passes(R, <<Msg("tksr", r.sapp)>>)
    /\ Goes(R, "cf")
    /\ UNCHANGED <<a, srv>>

RFinished ==
    /\ Takes(R, "cf")
    /\ ~ FinishedRaises(Got(R))
    /\ ClientFinished(Got(R))
    /\ r' = [r EXCEPT !.ok = FinishedOk(Got(R))]
    /\ Passes(R, <<Msg("cfok", FinishedOk(Got(R)))>>)
    /\ Goes(R, "over")
    /\ UNCHANGED a

-----------------------------------------------------------------------------
(***************************************************************************)
(* The two ways a recv fails, at every control point that waits.           *)
(***************************************************************************)
\* Chan.recv takes the message and then asserts its tag: "protocol desync".
Desync(s) ==
    /\ Waiting(s)
    /\ q[Peer(s)] # <<>>
    /\ Head(q[Peer(s)]).tag # Awaits(s)[pc[s]]
    /\ Passes(s, <<>>)
    /\ Dies(s, "desync")
    /\ UNCHANGED <<a, r, srv>>

\* Mutant of Expire: recv without a timeout.
ExpireNever(s, peerGone) == FALSE

\* queue.Empty after 300 s: certain when the peer sends nothing any more,
\* possible, and then called "early" here, while it is at work.
Expire(s, peerGone) ==
    /\ Waiting(s)
    /\ q[Peer(s)] = <<>>
    /\ \/ peerGone /\ Dies(s, "expired")
       \/ ~ peerGone /\ s \in MayExpire /\ Dies(s, "early")
    /\ UNCHANGED <<q, a, r, srv>>

Fate == {"alive", "raised", "desync", "expired", "early"}
Gone(s) == fate[s] # "alive"

AHandshake ==
    \/ AStart \/ AHello \/ AServerHello \/ AInputX \/ AInputY \/ AInverse
    \/ AOpenChts \/ AVerify \/ ABadFlight \/ AOpenIvC \/ ACommit \/ AFinish
    \/ AConfirmed

RHandshake ==
    \/ RShare \/ RClientHello \/ RInputX \/ RInputY \/ RRelease \/ RPhase2
    \/ ROpenIvC \/ ROpenIvS \/ RReveal \/ RFinished

-----------------------------------------------------------------------------
(***************************************************************************)
(* Correctness of the handshake.                                           *)
(***************************************************************************)
AOver == pc[A] = "over"
ROver == pc[R] = "over"

\* What test_handshake asserts after a run, for every run: when the agent
\* accepts, the provider is established, and the parties' shares join to the
\* provider's own application keys, over the same transcript.  When the relay
\* accepts, the provider that has finished shares the keys with both.
KeysAgree ==
    /\ AOver /\ a.ok =>
        /\ srv.established
        /\ a.tk = srv.sapp /\ a.sapp = srv.sapp
        /\ Open(a.capp, r.capp) = srv.capp
        /\ a.tr = srv.transcript
        /\ r.com = a.com /\ Open(r.com, r.sapp) = srv.sapp
    /\ ROver /\ r.ok =>
        /\ srv.established
        /\ Open(r.capp, a.capp) = srv.capp
        /\ r.sapp = srv.sapp

\* commit-reveal: tk_R_sapp is not on its way to the agent, and the agent
\* has not joined tk_sapp, before R holds the agent's commitment to its own
\* share of that same key.
CommitFirst ==
    /\ \A i \in DOMAIN q[R] : q[R][i].tag = "tksr" => r.com # None
    /\ a.tk # None => r.com = a.com /\ a.com # None

=============================================================================
