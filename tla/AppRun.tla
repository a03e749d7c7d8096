------------------------------- MODULE AppRun -------------------------------
(***************************************************************************)
(* What an application run promises the two businesses: a provider the     *)
(* agent trusts answers, the agent gets the answer, the agent is charged   *)
(* for exactly that answer.  A run may fail at any point and is then never *)
(* charged; no step is skipped and none happens twice.                     *)
(***************************************************************************)
CONSTANT Nothing

VARIABLES
    vouched,    \* the provider is the one the agent trusts
    phase,
    bill,       \* what the answer says it costs, or Nothing
    paid        \* what has been taken from the agent's quota, or Nothing

appvars == <<vouched, phase, bill, paid>>

Init == phase = "open" /\ bill = Nothing /\ paid = Nothing

Answer ==
    /\ phase = "open" /\ vouched
    /\ phase' = "answered"
    /\ UNCHANGED <<vouched, bill, paid>>

Deliver ==
    /\ phase = "answered"
    /\ phase' = "delivered"
    /\ UNCHANGED <<vouched, bill, paid>>

Read ==
    /\ phase = "delivered" /\ bill = Nothing
    /\ bill' # Nothing
    /\ UNCHANGED <<vouched, phase, paid>>

Charge ==
    /\ phase = "delivered" /\ bill # Nothing
    /\ phase' = "charged" /\ paid' = bill
    /\ UNCHANGED <<vouched, bill>>

Fail ==
    /\ phase \in {"open", "answered", "delivered"}
    /\ phase' = "failed"
    /\ UNCHANGED <<vouched, bill, paid>>

Next == Answer \/ Deliver \/ Read \/ Charge \/ Fail
Spec == Init /\ [][Next]_appvars

=============================================================================
