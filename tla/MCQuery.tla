------------------------------ MODULE MCQuery -------------------------------
(***************************************************************************)
(* TLC instance of query.py: Assembly, the sharing of segments and double  *)
(* dabble.  One of the three runs, from any of its initial states, while   *)
(* the others rest in a state of theirs.                                   *)
(***************************************************************************)
EXTENDS Assembly, Segments, Dabble

VARIABLE job

MCParts ==
    {[kind |-> k, h |-> n, len |-> n] : k \in {"fixed", "hidden"}, n \in {0, 1}}
    \cup {[kind |-> "hidden", h |-> n, len |-> 0] : n \in {1, 3}}
    \cup {[kind |-> k, h |-> 3, len |-> 2] : k \in {"fixed", "hidden"}}
    \cup {[kind |-> k, h |-> 3, len |-> 3] : k \in {"hidden", "i2s"}}

-----------------------------------------------------------------------------
Part(theta, h, c0, c1, g0, g1) ==
    [theta |-> theta, h |-> h, c |-> [s \in Sides |-> IF s = 0 THEN c0 ELSE c1],
     g |-> [s \in Sides |-> IF s = 0 THEN g0 ELSE g1]]
MCElements ==
    {Part("P", 1, <<1>>, <<1>>, NoG, NoG), Part("Af", 2, <<1>>, <<>>, NoG, NoG),
     Part("Rf", 2, <<>>, <<0, 1>>, NoG, NoG), Part("Xf", 2, <<1, 1>>, <<0, 1>>, NoG, NoG),
     Part("As", 0, <<>>, <<>>, 0, NoG), Part("As", 2, <<1>>, <<>>, 1, 1),
     Part("Rs", 2, <<>>, <<1>>, NoG, 1), Part("Rs", 1, <<>>, <<1>>, NoG, 1),
     Part("Xs", 2, <<1>>, <<1, 1>>, 2, NoG), Part("Xs", 1, <<0>>, <<1>>, NoG, 1)}
MCTemplates == UNION {[1 .. n -> MCElements] : n \in 0 .. 2}

MCPow(b, top) == LET pow[n \in 0 .. top] == IF n = 0 THEN 1 ELSE b * pow[n - 1]
                 IN  [n \in 0 .. top |-> pow[n]]
MCPow2 == MCPow(2, 11)
MCPow10 == MCPow(10, 3)

AssemblyRests ==
    /\ tmpl = <<[kind |-> "fixed", h |-> 1, len |-> 1]>>
    /\ tab = [ij \in Ranges |-> Segment(1)]
    /\ width = 2 /\ G = [ij \in Ranges |-> 0] /\ K = G
    /\ steps = <<>> /\ next = 1 /\ cost = 0 /\ fate = "done"
SegmentsRest == SegInit /\ parts = <<>> /\ backend = "ot"
DabbleRests == num = 0 /\ gb = 0 /\ bcd = [d \in Digit |-> 0] /\ round = 0

MCInit ==
    /\ job \in {"assembly", "segments", "dabble"}
    /\ IF job = "assembly" THEN Init ELSE AssemblyRests
    /\ IF job = "segments" THEN SegInit ELSE SegmentsRest
    /\ IF job = "dabble" THEN DabbleInit ELSE DabbleRests

MCNext ==
    /\ UNCHANGED job
    /\ \/ job = "assembly" /\ Next /\ UNCHANGED <<svars, bvars>>
       \/ job = "segments" /\ SegNext /\ UNCHANGED <<vars, bvars>>
       \/ job = "dabble" /\ DabbleRound /\ UNCHANGED <<vars, svars>>

mcvars == <<job, vars, svars, bvars>>
MCSpec == MCInit /\ [][MCNext]_mcvars /\ WF_mcvars(MCNext)

=============================================================================
