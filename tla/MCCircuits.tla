----------------------------- MODULE MCCircuits -----------------------------
(***************************************************************************)
(* TLC instance of the circuits: one of the modules runs, from any of its  *)
(* initial states, while the others stay in one initial state of theirs.   *)
(***************************************************************************)
EXTENDS Engine, Adder, AndTree, Hkdf, Gcm

VARIABLE job

MCNum == [w \in [0 .. 1 -> {0, 1}] |-> w[0] + 2 * w[1]]
MCInv == [n \in 0 .. 2 |-> n]
MCPoly == [i \in 0 .. 1 |-> 1]

Jobs == {"engine", "adder", "tree", "hkdf", "gcm"}

EngineIdle == mode = "ot" /\ alone = FALSE /\ Init
AdderIdle == x = [i \in Pos |-> 0] /\ y = x /\ g = x /\ p = x /\ l = 1
TreeIdle == a = <<0>> /\ c = <<0>> /\ cur = <<1>>
HkdfIdle == key = <<>> /\ text = <<>> /\ pads = <<>> /\ mac = <<>> /\ quick = <<>>
GcmIdle == plain = <<>> /\ aad = <<>> /\ sealed = <<>> /\ window = NoWindow

MCInit ==
    /\ job \in Jobs
    /\ IF job = "engine" THEN Init ELSE EngineIdle
    /\ IF job = "adder" THEN AdderInit ELSE AdderIdle
    /\ IF job = "tree" THEN TreeInit ELSE TreeIdle
    /\ IF job = "hkdf" THEN HkdfInit ELSE HkdfIdle
    /\ IF job = "gcm" THEN GcmInit ELSE GcmIdle

MCNext ==
    /\ UNCHANGED job
    /\ \/ job = "engine" /\ Next /\ UNCHANGED <<avars, tvars, hvars, gvars>>
       \/ job = "adder" /\ AdderRound /\ UNCHANGED <<vars, tvars, hvars, gvars>>
       \/ job = "tree" /\ TreeLevel /\ UNCHANGED <<vars, avars, hvars, gvars>>
       \/ job = "hkdf" /\ (Prepare \/ Expand) /\ UNCHANGED <<vars, avars, tvars, gvars>>
       \/ job = "gcm" /\ GcmNext /\ UNCHANGED <<vars, avars, tvars, hvars>>

mcvars == <<job, vars, avars, tvars, hvars, gvars>>
MCSpec == MCInit /\ [][MCNext]_mcvars

=============================================================================
