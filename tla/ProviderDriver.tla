--------------------------- MODULE ProviderDriver ---------------------------
(***************************************************************************)
(* The provider under every legal and illegal order of calls.  The driver  *)
(* knows every secret, so it can present records that open and records     *)
(* that do not, again and again; it is external to src and as general as a *)
(* caller can be.  History variables keep what the provider has sealed and *)
(* what it has accepted.                                                   *)
(***************************************************************************)
EXTENDS Provider, Bags

CONSTANT MaxHellos      \* bound: calls of on_client_hello

ASSUME MaxHellosAssumption == MaxHellos \in Nat

VARIABLES
    sealed,     \* history: bag of the <<key, seq>> pairs S encrypted under
    accepted,   \* history: bag of the records S opened and acted on
    hellos      \* history: how often on_client_hello was called

dvars == <<srv, sealed, accepted, hellos>>

Tally(b, e) == b (+) SetToBag({e})
Twice(b) == \E e \in DOMAIN b : b[e] > 1

\* A secret no party can derive in this connection.
Foreign == Secret("none", 1, <<>>)

DriverRecords ==
    {Rec(k, n, "app", Plain(m)) :
        k \in {srv.chts, srv.capp, Foreign}, n \in 0 .. MaxSeq - 1,
        m \in {"QUERY", "NOT JSON"}}
    \cup
    {Rec(k, n, "hs", Finished(m, srv.sfTr)) :
        k \in {srv.chts, srv.capp}, n \in 0 .. MaxSeq - 1,
        m \in {srv.chts, Foreign}}

DriverInit ==
    /\ \E n \in Name, c \in CA, y \in Scalar : srv = Fresh(n, c, y)
    /\ sealed = EmptyBag
    /\ accepted = EmptyBag
    /\ hellos = 0

CallHello ==
    /\ hellos < MaxHellos
    /\ \E ks \in Scalar : ClientHello(ks)
    /\ sealed' = Tally(sealed, <<srv'.shts, srv'.hsSeqS - 1>>)
    /\ hellos' = hellos + 1
    /\ UNCHANGED accepted

CallFinished ==
    \E rec \in DriverRecords :
        /\ ClientFinished(rec)
        /\ accepted' = IF FinishedOk(rec) THEN Tally(accepted, rec)
                                          ELSE accepted
        /\ UNCHANGED <<sealed, hellos>>

CallQuery ==
    \E rec \in DriverRecords :
        /\ Query(rec)
        /\ accepted' = IF QueryAnswered(rec) THEN Tally(accepted, rec)
                                             ELSE accepted
        /\ sealed' = IF QueryAnswered(rec)
                       THEN Tally(sealed, <<srv'.sapp, srv'.seqS - 1>>)
                       ELSE sealed
        /\ UNCHANGED hellos

DriverNext == CallHello \/ CallFinished \/ CallQuery
DriverSpec == DriverInit /\ [][DriverNext]_dvars

-----------------------------------------------------------------------------
\* AES-GCM must never seal two records under one key and nonce: whatever
\* calls come, also a second hello that resets hs_seq_s, _enc_record and
\* on_query seal each <<key, sequence number>> pair at most once.
NonceOnce == ~ Twice(sealed)

\* A record that on_client_finished or on_query acted on is never acted on
\* again, however often and in whatever order it is presented.
NoReplay == ~ Twice(accepted)

=============================================================================
