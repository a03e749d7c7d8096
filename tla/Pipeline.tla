------------------------------ MODULE Pipeline ------------------------------
(***************************************************************************)
(* One application run, as examples/_lib.py and demo.py drive it: the      *)
(* handshake, then query.build_query and query.query_record on both sides, *)
(* then R hands the record to S and the sealed response to A.              *)
(*                                                                         *)
(* The messages of one kind that A sends for its template segments are one *)
(* "sim.t"; the openings inside AES are one exchange of "op" and the       *)
(* opening of ciphertext and tag another.                                  *)
(***************************************************************************)
EXTENDS Handshake

VARIABLE answered       \* history: S answered a query of this run

pvars == <<pc, fate, q, a, r, srv, answered>>

PInit == Init /\ answered = FALSE

\* The joint record query_record opens: the key is the xor of both shares,
\* the nonce is iv_capp itself, so it is record number 0.
QueryRecord(mine, theirs) == Rec(Open(mine, theirs), 0, "app", Plain("QUERY"))

(***************************************************************************)
(* The agent after agent_handshake has returned.  The callers never look   *)
(* at AgentResult.ok.                                                      *)
(***************************************************************************)
ABuild ==
    /\ At(A, "over")
    /\ q' = [q EXCEPT ![A] = @ \o <<Msg("sim.t", None), Msg("sim.t", a.capp)>>]
    /\ Goes(A, "tkr")
    /\ UNCHANGED <<a, r, srv>>

AKeyShare ==
    /\ Takes(A, "tkr")
    /\ Passes(A, <<Msg("op", None)>>)
    /\ Goes(A, "gcm")
    /\ UNCHANGED <<a, r, srv>>

ASeal ==
    /\ Takes(A, "gcm")
    /\ Passes(A, <<Msg("op", a.capp)>>)
    /\ Goes(A, "ct")
    /\ UNCHANGED <<a, r, srv>>

AOpenRecord ==
    /\ Takes(A, "ct")
    /\ Passes(A, <<>>)
    /\ Goes(A, "resp")
    /\ UNCHANGED <<a, r, srv>>

\* Decrypts the response under tk_sapp as record 0; None fails in
\* strip_inner_padding.
AResponse ==
    /\ Takes(A, "resp")
    /\ Passes(A, <<>>)
    /\ \/ Opens(Got(A), a.tk, 0) /\ Goes(A, "done")
       \/ ~ Opens(Got(A), a.tk, 0) /\ Dies(A, "raised")
    /\ UNCHANGED <<a, r, srv>>

(***************************************************************************)
(* The relay after relay_handshake has returned.                           *)
(***************************************************************************)
RBuild ==
    /\ At(R, "over")
    /\ Goes(R, "seg")
    /\ UNCHANGED <<q, a, r, srv>>

RSegments ==
    /\ Takes(R, "seg")
    /\ Passes(R, <<>>)
    /\ Goes(R, "tka")
    /\ UNCHANGED <<a, r, srv>>

\* Mutant of RKeyShare: the opening leaves before the key share.
RKeyShareSwapped ==
    /\ Takes(R, "tka")
    /\ Passes(R, <<Msg("op", None), Msg("sim.t", r.capp)>>)
    /\ Goes(R, "gcm")
    /\ UNCHANGED <<a, r, srv>>

RKeyShare ==
    /\ Takes(R, "tka")
    /\ Passes(R, <<Msg("sim.t", r.capp), Msg("op", None)>>)
    /\ Goes(R, "gcm")
    /\ UNCHANGED <<a, r, srv>>

RSeal ==
    /\ Takes(R, "gcm")
    /\ Passes(R, <<Msg("op", r.capp)>>)
    /\ Goes(R, "ct")
    /\ UNCHANGED <<a, r, srv>>

\* Opens the record, hands it to S and the answer to A, in one go; when
\* S.on_query raises, the relay's thread ends.
RForward ==
    /\ Takes(R, "ct")
    /\ LET rec == QueryRecord(r.capp, Got(R))
       IN  /\ Query(rec)
           /\ IF QueryAnswered(rec)
                THEN /\ Passes(R, <<Msg("resp", Response(srv'))>>)
                     /\ Goes(R, "done")
                ELSE Passes(R, <<>>) /\ Dies(R, "raised")
           /\ answered' = QueryAnswered(rec)
    /\ UNCHANGED <<a, r>>

Stopped(s) == Gone(s) \/ pc[s] = "done"

AQuery == ABuild \/ AKeyShare \/ ASeal \/ AOpenRecord \/ AResponse
RQuery == RBuild \/ RSegments \/ RKeyShare \/ RSeal
RecvFails(s) == Desync(s) \/ Expire(s, Stopped(Peer(s)))

AStep == (AHandshake \/ AQuery \/ RecvFails(A)) /\ UNCHANGED answered
RStep ==
    \/ (RHandshake \/ RQuery \/ RecvFails(R)) /\ UNCHANGED answered
    \/ RForward

PNext == AStep \/ RStep
PSpec == PInit /\ [][PNext]_pvars

\* Each party is a thread the operating system keeps scheduling.
FairPSpec == PSpec /\ WF_pvars(AStep) /\ WF_pvars(RStep)

-----------------------------------------------------------------------------
(***************************************************************************)
(* Correctness.                                                            *)
(***************************************************************************)

\* No query of the agent is answered by a provider the agent has not
\* verified.  agent_handshake goes on after a failed check, its callers do
\* not look at ok, and R and S do not know about it.
AnsweredOnlyIfVerified ==
    answered => srv.name = WantName /\ srv.ca = TrustedCA

(***************************************************************************)
(* Why that holds although nobody looks at ok.  The two scripts fix the    *)
(* order of the tags; what is under way is always the piece of the         *)
(* sender's script between what the receiver has read and what the sender  *)
(* has sent.  An agent that rejected is one message behind: the unread     *)
(* "cfok" is in front of everything it will ask for.                       *)
(***************************************************************************)
Script == <<
    <<"za", "ch", "sim.t", "sim.t", "op", "h2", "op", "op", "com", "cf",
      "sim.t", "sim.t", "op", "op">>,
    <<"zb", "shf", "sim.t", "sim.t", "op", "op", "op", "op", "op", "tksr",
      "cfok", "sim.t", "op", "op", "resp">> >>

SentAt == <<
    [start |-> 0, zb |-> 1, shf |-> 2, x2 |-> 4, y2 |-> 4, dx |-> 5,
     chts |-> 5, shts |-> 5, ivc |-> 7, ivs |-> 8, tksr |-> 9, cfok |-> 10,
     over |-> 10, tkr |-> 12, gcm |-> 13, ct |-> 14, resp |-> 14,
     done |-> 14],
    [za |-> 0, ch |-> 1, x1 |-> 2, y1 |-> 2, dx |-> 5, h2 |-> 7, ivc |-> 8,
     ivs |-> 9, com |-> 9, cf |-> 10, over |-> 11, seg |-> 11, tka |-> 11,
     gcm |-> 13, ct |-> 14, done |-> 15] >>

ReadAt == <<
    [start |-> 0, zb |-> 0, shf |-> 1, x2 |-> 2, y2 |-> 3, dx |-> 4,
     chts |-> 5, shts |-> 6, ivc |-> 7, ivs |-> 8, tksr |-> 9, cfok |-> 10,
     over |-> 11, tkr |-> 11, gcm |-> 12, ct |-> 13, resp |-> 14,
     done |-> 15],
    [za |-> 0, ch |-> 1, x1 |-> 2, y1 |-> 3, dx |-> 4, h2 |-> 5, ivc |-> 6,
     ivs |-> 7, com |-> 8, cf |-> 9, over |-> 10, seg |-> 10, tka |-> 11,
     gcm |-> 12, ct |-> 13, done |-> 14] >>

SentBy(s) == SentAt[s + 1][pc[s]]
\* A thread that died on a message has read it, one that timed out has not.
ReadBy(s) ==
    ReadAt[s + 1][pc[s]] + (IF fate[s] \in {"raised", "desync"} THEN 1 ELSE 0)

\* seq is the piece of the script from message n + 1 to message m.
Fits(seq, script, n, m) ==
    /\ Len(seq) = m - n
    /\ \A i \in 1 .. Len(seq) : seq[i].tag = script[n + i]

Vouched == srv.name = WantName /\ srv.ca = TrustedCA

\* Control points of an agent that may have read "cfok".
Passed == {"cfok", "over", "tkr", "gcm", "ct", "resp", "done"}

Lockstep ==
    /\ Fits(q[A], Script[1], ReadBy(R), SentBy(A))
    /\ \/ /\ Fits(q[R], Script[2], ReadBy(A), SentBy(R))
          /\ pc[A] \in Passed => Vouched
       \/ /\ Fits(q[R], Script[2], ReadBy(A) - 1, SentBy(R))
          /\ pc[A] \in {"over", "tkr"}

\* The name and the CA the agent looks at are the provider's own.
FlightHonest ==
    /\ \A i \in 1 .. Len(q[R]) :
           q[R][i].tag = "shf" => /\ q[R][i].val.name = srv.name
                                  /\ q[R][i].val.ca = srv.ca
    /\ pc[A] \notin {"start", "zb", "shf"} =>
           a.flight.name = srv.name /\ a.flight.ca = srv.ca

\* The answer that is on its way can be read by the agent: it is sealed
\* under the very key the agent joined, as record 0.
AnswerReadable ==
    \A i \in DOMAIN q[R] :
        q[R][i].tag = "resp" => Opens(q[R][i].val, a.tk, 0)

\* The assertion of Chan.recv: a party is never handed another message than
\* the one it asks for.
NoDesync == \A s \in Side : fate[s] # "desync"

\* A provider the handshake is meant to succeed with: the wanted name, the
\* trusted CA, a new object, and two ECtF inputs that differ.
Fit ==
    /\ srv.name = WantName /\ srv.ca = TrustedCA /\ srv.transcript = <<>>
    /\ X(a.k) # X(r.k)

=============================================================================
