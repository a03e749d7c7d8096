----------------------------- MODULE Settlement -----------------------------
(***************************************************************************)
(* The main thread around Pipeline: examples/_lib.py waits for the two     *)
(* parties, locates the billed number in the response, verifies the        *)
(* agent's claim and then a forged one, each with two new threads, and the *)
(* relay station of examples/sub2api_relay.py charges what was accepted.   *)
(*                                                                         *)
(* A verification is what Billing shows of it for a claim and a window:    *)
(* the claimed number is compared when it has as many digits as the window *)
(* was made for, and is an assertion otherwise; a suffix window may reject *)
(* a right claim.                                                          *)
(*                                                                         *)
(* All three are calls of run_two_parties, whose time limits may end them  *)
(* whatever their threads are at.  The threads are daemons: they go on.    *)
(***************************************************************************)
EXTENDS Pipeline, FiniteSets

CONSTANTS
    Totals,     \* numbers a response may report
    Quota       \* what the agent's key has left

ASSUME SettlementAssumption ==
    Quota \in Nat /\ Totals \subseteq 2 .. 9999     \* bound: four digits

VARIABLES
    stage,      \* of the main thread: "run", "located", "checked", "returned",
                \* "charged", or "failed" when an exception has ended it
    total,      \* the billed number in the response
    suffix,     \* the window is a suffix window
    accept, forged,     \* the two verdicts, Unknown before
    charged,    \* what the station has deducted, Unknown before
    late        \* history: a time limit has ended the main thread

mvars == <<stage, total, suffix, accept, forged, charged, late>>
allvars == <<pvars, mvars>>
Unknown == -1

SInit ==
    /\ PInit
    /\ stage = "run" /\ total = Unknown /\ suffix = FALSE
    /\ accept = Unknown /\ forged = Unknown /\ charged = Unknown
    /\ late = FALSE

\* An assertion, or the exception of a party, ends the main thread.
Fails ==
    /\ stage' = "failed"
    /\ UNCHANGED <<total, suffix, accept, forged, charged, late>>

\* What any run_two_parties may raise while its threads are at work: the
\* TimeoutError behind both joins, or queue.Empty when a recv of one side has
\* expired before the other side came to send.
TimesOut ==
    /\ stage' = "failed" /\ late' = TRUE
    /\ UNCHANGED <<total, suffix, accept, forged, charged>>

\* The joins of the parties expire.  The parties know nothing of it; their
\* own recvs are in Pipeline.
JoinsExpire ==
    /\ stage = "run" /\ ~ (Stopped(A) /\ Stopped(R))
    /\ TimesOut
    /\ UNCHANGED pvars

\* run_two_parties returns when both threads have ended well, and raises
\* when one of them has not.
Locate ==
    /\ stage = "run" /\ Stopped(A) /\ Stopped(R)
    /\ IF pc[A] = "done" /\ pc[R] = "done" /\ srv.established
         THEN /\ stage' = "located"
              /\ total' \in Totals /\ suffix' \in BOOLEAN
              /\ UNCHANGED <<accept, forged, charged, late>>
         ELSE Fails
    /\ UNCHANGED pvars

NumDigits(n) == Cardinality({k \in 0 .. 3 : k = 0 \/ n >= 10 ^ k})

Verdicts(claim) ==
    IF ~ Opens(Response(srv), Open(a.com, r.sapp), 0) \/ claim # total
      THEN {0}
      ELSE IF suffix THEN {0, 1} ELSE {1}

VerifyHonest ==
    /\ stage = "located"
    /\ \/ /\ accept' \in Verdicts(total)
          /\ stage' = "checked"
          /\ UNCHANGED <<total, suffix, forged, charged, late>>
       \/ TimesOut
    /\ UNCHANGED pvars

\* forged of sub2api_relay.py: eight tokens less.
Forged == IF total < 8 THEN 0 ELSE total - 8

VerifyForged ==
    /\ stage = "checked"
    /\ \/ /\ NumDigits(Forged) = NumDigits(total)
          /\ forged' \in Verdicts(Forged)
          /\ stage' = "returned"
          /\ UNCHANGED <<total, suffix, accept, charged, late>>
       \/ NumDigits(Forged) # NumDigits(total) /\ Fails
       \/ TimesOut
    /\ UNCHANGED pvars

\* Mutant of Charge: the last token of a quota cannot be spent.
ChargeStrict ==
    /\ stage = "returned"
    /\ IF accept = 1 /\ Quota > total
         THEN /\ charged' = total
              /\ stage' = "charged"
              /\ UNCHANGED <<total, suffix, accept, forged, late>>
         ELSE Fails
    /\ UNCHANGED pvars

\* charge, and the assertions behind it.
Charge ==
    /\ stage = "returned"
    /\ IF accept = 1 /\ Quota >= total
         THEN /\ charged' = total
              /\ stage' = "charged"
              /\ UNCHANGED <<total, suffix, accept, forged, late>>
         ELSE Fails
    /\ UNCHANGED pvars

Main == Locate \/ VerifyHonest \/ VerifyForged \/ Charge
SNext == (PNext /\ UNCHANGED mvars) \/ Main \/ JoinsExpire

\* The parties and the main thread are threads the operating system schedules,
\* the parties for as long as the process waits for them.  The joins need not
\* expire: no fairness of JoinsExpire.
SSpec == SInit /\ [][SNext]_allvars
         /\ WF_allvars(stage = "run" /\ AStep /\ UNCHANGED mvars)
         /\ WF_allvars(stage = "run" /\ RStep /\ UNCHANGED mvars)
         /\ WF_allvars(Main)

-----------------------------------------------------------------------------
(***************************************************************************)
(* Correctness.                                                            *)
(***************************************************************************)
\* The run implements AppRun: whatever fails and wherever, the agent's key is
\* charged at most once, and only for the number in an answer that a provider
\* the agent trusts gave and the agent has read.
Phase == IF stage \in {"charged", "failed"} THEN stage
         ELSE IF answered /\ pc[A] = "done" THEN "delivered"
         ELSE IF answered THEN "answered" ELSE "open"
App == INSTANCE AppRun WITH
    vouched <- Vouched, phase <- Phase, Nothing <- Unknown,
    bill <- total, paid <- charged
ImplementsApp == App!Spec

\* With a provider the handshake is meant to succeed with, the service is paid
\* for, unless a time limit struck (in a recv or a join, of the run or of a
\* verification, with the threads still at work), the quota is too small, the
\* window is a suffix, or the forged claim is of another length.
Payable == Quota >= total /\ ~ suffix /\ NumDigits(Forged) = NumDigits(total)
ServedIsPaid ==
    Fit => <>(\/ late \/ \E s \in Side : fate[s] = "early"
              \/ total # Unknown /\ (charged = total \/ ~ Payable))

\* Whatever goes wrong, no thread hangs: the parties come to an end by their
\* recvs alone, and the application with them, without a join that expires.
Settles == <>(stage \in {"charged", "failed"})

\* sub2api_relay.py, "Subscriber tries to under-report by 8 tokens -> must be
\* rejected."
ForgedIsRejected ==
    stage = "failed" /\ ~ late /\ accept # Unknown => forged = 0

=============================================================================
