------------------------------- MODULE Runner -------------------------------
(***************************************************************************)
(* run_two_parties of trustedari/channel.py over the channel of Chan: the  *)
(* caller starts one daemon thread per party, the agent's (side 0) and the *)
(* relay's (side 1), joins them in this order, each for at most JoinT, and *)
(* reports what came out.  What a party computes is left open: its thread  *)
(* works, sends, waits in recv (for at most RecvT), returns or raises.     *)
(*                                                                         *)
(* Time is counted in whole units and passes only when no timer is due.    *)
(***************************************************************************)
EXTENDS Chan

CONSTANTS
    RecvT,      \* timeout of Chan.recv (300 s)
    JoinT,      \* timeout of each join (600 s)
    MaxTime     \* bound: the time a behaviour covers

ASSUME TimesAssumption ==
    /\ RecvT \in Nat \ {0} /\ JoinT \in Nat \ {0}
    /\ MaxTime \in Nat /\ MaxTime > 2 * JoinT

\* What the caller can end with besides the exception of a party.
NotYet == [side |-> 2, what |-> "pending"]
Outputs == [side |-> 2, what |-> "outputs"]
TimedOut == [side |-> 2, what |-> "TimeoutError"]

VARIABLES
    now,
    thread,     \* thread[s]: "work", "wait", "done" or "failed"
    due,        \* due[s]: when the recv of side s expires
    err,        \* the list err: who raised what, in the order of the appends
    joining,    \* the side the caller joins, "decide" or "returned"
    until,      \* when its join expires
    result      \* what run_two_parties ended with

party == <<thread, due, err>>
caller == <<joining, until, result>>
rvars == <<vars, now, party, caller>>

RInit ==
    /\ Init
    /\ now = 0
    /\ thread = [s \in Side |-> "work"]
    /\ due = [s \in Side |-> 0]
    /\ err = <<>>
    /\ joining = "agent" /\ until = JoinT
    /\ result = NotYet

Alive(s) == thread[s] \in {"work", "wait"}

\* A party's code runs, between two calls of the channel.
Works(s) == thread[s] = "work" /\ phase[s] = "ready"

-----------------------------------------------------------------------------
(***************************************************************************)
(* A party's thread, inside wrap.                                          *)
(***************************************************************************)
Send(s) ==
    /\ Works(s)
    /\ \E t \in Tag, n \in Size : Put(s, t, n)
    /\ UNCHANGED <<now, party, caller>>

Counts(s) ==
    /\ LoadFirst(s) \/ LoadSecond(s) \/ Store(s)
    /\ UNCHANGED <<now, party, caller>>

Wait(s) ==
    /\ Works(s)
    /\ thread' = [thread EXCEPT ![s] = "wait"]
    /\ due' = [due EXCEPT ![s] = now + RecvT]
    /\ UNCHANGED <<vars, now, err, caller>>

Fails(s, what) ==
    /\ thread' = [thread EXCEPT ![s] = "failed"]
    /\ err' = Append(err, [side |-> s, what |-> what])
    /\ UNCHANGED <<now, due, caller>>

Receive(s) ==
    /\ thread[s] = "wait"
    /\ \E t \in Tag : Recv(s, t)
    /\ \/ /\ phase'[s] = "ready"
          /\ thread' = [thread EXCEPT ![s] = "work"]
          /\ UNCHANGED <<now, due, err, caller>>
       \/ phase'[s] = "failed" /\ Fails(s, "desync")

RecvDue(s) == thread[s] = "wait" /\ q[Peer(s)] = <<>> /\ now >= due[s]

Expire(s) == RecvDue(s) /\ RecvTimeout(s) /\ Fails(s, "expired")

Return(s) ==
    /\ Works(s)
    /\ thread' = [thread EXCEPT ![s] = "done"]
    /\ UNCHANGED <<vars, now, due, err, caller>>

Raise(s) == Works(s) /\ Fails(s, "raised") /\ UNCHANGED vars

-----------------------------------------------------------------------------
(***************************************************************************)
(* The caller.                                                             *)
(***************************************************************************)
Joined(s) == joining = (IF s = 0 THEN "agent" ELSE "relay")

\* Mutant of JoinOver: join without a timeout.
JoinOverNever(s) == Joined(s) /\ ~ Alive(s)

JoinOver(s) == Joined(s) /\ (~ Alive(s) \/ now >= until)

JoinAgent ==
    /\ JoinOver(0)
    /\ joining' = "relay"
    /\ until' = now + JoinT
    /\ UNCHANGED <<vars, now, party, result>>

JoinRelay ==
    /\ JoinOver(1)
    /\ joining' = "decide"
    /\ UNCHANGED <<vars, now, party, until, result>>

\* Mutant of Outcome: the last exception is raised.
OutcomeLast ==
    IF \E s \in Side : Alive(s) THEN TimedOut
    ELSE IF err # <<>> THEN err[Len(err)] ELSE Outputs

Outcome ==
    IF \E s \in Side : Alive(s) THEN TimedOut
    ELSE IF err # <<>> THEN err[1] ELSE Outputs

Decide ==
    /\ joining = "decide"
    /\ result' = Outcome
    /\ joining' = "returned"
    /\ UNCHANGED <<vars, now, party, until>>

Tick ==
    /\ now < MaxTime
    /\ ~ \E s \in Side : RecvDue(s) \/ JoinOver(s)
    /\ joining # "decide"
    /\ now' = now + 1
    /\ UNCHANGED <<vars, party, caller>>

Thread(s) ==
    \/ Send(s) \/ Counts(s)
    \/ Wait(s) \/ Receive(s) \/ Expire(s)
    \/ Return(s) \/ Raise(s)
Caller == JoinAgent \/ JoinRelay \/ Decide

RNext == (\E s \in Side : Thread(s)) \/ Caller \/ Tick

\* The caller is scheduled, timers fire and time passes; nothing is assumed
\* of what the two threads do.
Fairness ==
    /\ WF_rvars(Caller) /\ WF_rvars(Tick)
    /\ \A s \in Side : WF_rvars(Expire(s))

RSpec == RInit /\ [][RNext]_rvars /\ Fairness

-----------------------------------------------------------------------------
(***************************************************************************)
(* Correctness.                                                            *)
(***************************************************************************)
\* Outputs are handed over only when both threads returned them: a party that
\* died in wrap never passes for one whose result is None.
BothReturned ==
    result = Outputs => \A s \in Side : thread[s] = "done"

\* The exception that is raised is never the echo of another one: a recv that
\* expired is reported only if the peer had not failed before.
RootCauseReported ==
    \A n \in DOMAIN err : err[n] = result /\ result.what = "expired" =>
        ~ \E m \in 1 .. n - 1 : err[m].side # result.side

\* What run_two_parties ends with is what happened, whatever the order in
\* which the threads die, hang and are joined.
OutcomeTrue == BothReturned /\ RootCauseReported

\* Whatever the parties do, also when both hang, run_two_parties returns.
CallerReturns == <>(joining = "returned")

=============================================================================
