--------------------------------- MODULE OT ---------------------------------
(***************************************************************************)
(* The secure AND of trustedari/twopc.py (PC.and_bits, mode "ot") and the  *)
(* oblivious transfers under it (trustedari/ot.py): the lazy base phase of *)
(* _ensure_ot, in which each side runs the Chou-Orlandi protocol once as   *)
(* sender and once as receiver, and then one IKNP batch in each direction  *)
(* per AND.  Both sides run the same program over one channel.             *)
(*                                                                         *)
(* A curve point is its discrete logarithm modulo Q.  A hash is the tuple  *)
(* of its inputs.  An encryption is the pair of payload and mask, and      *)
(* opens under that mask only.  A bit of a pseudorandom column is a free   *)
(* atom: a sum of such bits is the set of the atoms in it, and Const is    *)
(* the atom that stands for the constant 1.                                *)
(***************************************************************************)
EXTENDS Integers, Sequences

CONSTANTS
    Q,          \* order of the group
    ELL,        \* base transfers (128)
    Width,      \* bits per AND
    MaxAnds     \* bound: the ANDs a behaviour computes

ASSUME OTAssumption ==
    /\ Q \in Nat /\ Q > 2
    /\ ELL \in Nat \ {0} /\ Width \in Nat \ {0} /\ MaxAnds \in Nat

Side == {0, 1}
Peer(s) == 1 - s
Col == 1 .. ELL
Row == 1 .. Width
Bit == {0, 1}
Word == [Row -> Bit]
Scalar == 1 .. Q - 1

VARIABLES
    pc,     \* pc[s]: the recv side s waits in, "sendS", or "idle"
    idx,    \* idx[s]: index of that message in its loop
    q,      \* q[s]: messages of side s not yet received
    base,   \* base[s]: s and k_choice of the side's OTExt("sender")
    co,     \* co[s]: the scalar y or x and the point S of the running base OT
    op,     \* op[s]: inputs, masks and received payloads of the running AND
    last,   \* last[s]: inputs and output of the last AND of side s
    ands    \* ands[s]: how many it has computed

vars == <<pc, idx, q, base, co, op, last, ands>>

Xor(m, n) == (m + n) % 2
Sum(u, v) == (u \ v) \cup (v \ u)
Const == <<2, 0, 0, 0>>
Times(bit, u) == IF bit = 1 THEN u ELSE {}

Msg(t, n, v) == [tag |-> t, i |-> n, val |-> v]
Takes(s, t) ==
    /\ pc[s] = t
    /\ q[Peer(s)] # <<>>
    /\ Head(q[Peer(s)]).tag = t /\ Head(q[Peer(s)]).i = idx[s]
Got(s) == Head(q[Peer(s)]).val
Passes(s, msgs) == q' = [q EXCEPT ![s] = @ \o msgs, ![Peer(s)] = Tail(@)]
Goes(s, p, n) == pc' = [pc EXCEPT ![s] = p] /\ idx' = [idx EXCEPT ![s] = n]

Sealed(m, k) == [m |-> m, k |-> k]
\* What decryption can yield; a wrong mask uncovers anything in junk.
Opened(e, k, junk) == IF e.k = k THEN {e.m} ELSE junk

Seed(s, n, b) == <<s, n, b>>
NoSeed == <<2, 0, 0>>
JunkSeed == <<2, 0, 1>>
NoSeeds == [n \in Col |-> NoSeed]
Zero == [j \in Row |-> 0]
NoOp == [a |-> Zero, b |-> Zero, r |-> Zero, U |-> <<>>, e0 |-> <<>>]

Init ==
    /\ pc = [s \in Side |-> "idle"] /\ idx = [s \in Side |-> 0]
    /\ q = [s \in Side |-> <<>>]
    /\ base = [s \in Side |-> [s |-> [n \in Col |-> 0], kc |-> NoSeeds]]
    /\ co = [s \in Side |-> [k |-> 0, S |-> 0]]
    /\ op = [s \in Side |-> NoOp]
    /\ last = [s \in Side |-> [a |-> Zero, b |-> Zero, z |-> Zero]]
    /\ ands = [s \in Side |-> 0]

-----------------------------------------------------------------------------
(***************************************************************************)
(* IKNP: columns and rows.  The receiver of the extension is the side that *)
(* owns the seed pairs.                                                    *)
(***************************************************************************)
Prg(seed) == [j \in Row |-> {Append(seed, j)}]

\* recv_start: U_i = G(k0_i) + G(k1_i) + choices.
Column(s, n, choices) ==
    [j \in Row |-> Sum(Sum(Prg(Seed(s, n, 0))[j], Prg(Seed(s, n, 1))[j]),
                       Times(choices[j], {Const}))]

\* send: q_j, from the chosen seeds and the columns received.
QRow(s, U, j) ==
    [n \in Col |-> Sum(Prg(base[s].kc[n])[j], Times(base[s].s[n], U[n][j]))]
\* Mutant of Shifted: the second mask is the first one.
ShiftedNot(s, row) == row
Shifted(s, row) == [n \in Col |-> Sum(row[n], Times(base[s].s[n], {Const}))]

\* recv_finish: t_j, from the k0 seeds.
TRow(s, j) == [n \in Col |-> Prg(Seed(s, n, 0))[j]]

\* and_bits as the sender: (r, r + b) row by row, under H(q_j), H(q_j + s).
Payload0(s, U) ==
    [j \in Row |-> Sealed(op[s].r[j], <<QRow(s, U, j), j>>)]
\* Mutant of Payload1: the share of the other factor.
Payload1Swapped(s, U) ==
    [j \in Row |-> Sealed(Xor(op[s].r[j], op[s].a[j]),
                          <<Shifted(s, QRow(s, U, j)), j>>)]
Payload1(s, U) ==
    [j \in Row |-> Sealed(Xor(op[s].r[j], op[s].b[j]),
                          <<Shifted(s, QRow(s, U, j)), j>>)]

Columns(s, choices) == [n \in Col |-> Msg("u", n, Column(s, n, choices))]

-----------------------------------------------------------------------------
(***************************************************************************)
(* and_bits starts with _ensure_ot.  Side 0 runs the receiving half of the *)
(* base phase first, side 1 the sending half.                              *)
(***************************************************************************)
\* Mutant of First: the same order on both sides.
FirstSame(s) == "co.S"
First(s) == IF s = 0 THEN "co.S" ELSE "sendS"

Enter(s) ==
    /\ pc[s] = "idle"
    /\ ands[s] < MaxAnds
    /\ \E a, b, r \in Word :
        /\ op' = [op EXCEPT ![s] = [NoOp EXCEPT !.a = a, !.b = b, !.r = r]]
        /\ IF base[s].kc = NoSeeds
             THEN Goes(s, First(s), 0) /\ UNCHANGED q
             ELSE /\ Goes(s, "u", 1)
                  /\ q' = [q EXCEPT ![s] = @ \o Columns(s, a)]
    /\ UNCHANGED <<base, co, last, ands>>

\* Mutant of After: recv_start overtakes the end of the base phase.
AfterEager(s, half, msgs) ==
    IF half = First(s)
      THEN /\ Goes(s, IF half = "co.S" THEN "sendS" ELSE "co.S", 0)
           /\ Passes(s, msgs)
      ELSE /\ Goes(s, "u", 1)
           /\ Passes(s, Columns(s, op[s].a) \o msgs)

\* What follows one half of the base phase: the other half, or recv_start.
After(s, half, msgs) ==
    IF half = First(s)
      THEN /\ Goes(s, IF half = "co.S" THEN "sendS" ELSE "co.S", 0)
           /\ Passes(s, msgs)
      ELSE /\ Goes(s, "u", 1)
           /\ Passes(s, msgs \o Columns(s, op[s].a))

\* _co_send_many.
SendS(s) ==
    /\ pc[s] = "sendS"
    /\ \E y \in Scalar :
        /\ co' = [co EXCEPT ![s] = [k |-> y, S |-> y]]
        /\ q' = [q EXCEPT ![s] = Append(@, Msg("co.S", 0, y))]
    /\ Goes(s, "co.R", 1)
    /\ UNCHANGED <<base, op, last, ands>>

CoKeys(y, S, R) == <<<<(y * R) % Q, "co0">>, <<(y * (R - S)) % Q, "co1">>>>

AnswerR(s) ==
    /\ Takes(s, "co.R")
    /\ LET n == idx[s]
           k == CoKeys(co[s].k, co[s].S, Got(s))
           e == Msg("co.e", n, <<Sealed(Seed(s, n, 0), k[1]),
                                 Sealed(Seed(s, n, 1), k[2])>>)
       IN  IF n < ELL
             THEN Goes(s, "co.R", n + 1) /\ Passes(s, <<e>>) /\ UNCHANGED co
             ELSE /\ After(s, "sendS", <<e>>)
                  /\ co' = [co EXCEPT ![s] = [k |-> 0, S |-> 0]]
    /\ UNCHANGED <<base, op, last, ands>>

\* _co_recv_many: the choices are the bits of s, R = x (+ S).
Blind(s, n, x, S) ==
    Msg("co.R", n, IF base'[s].s[n] = 1 THEN (x + S) % Q ELSE x)

TakeS(s) ==
    /\ Takes(s, "co.S")
    /\ \E x \in Scalar, bits \in [Col -> Bit] :
        /\ base' = [base EXCEPT ![s].s = bits]
        /\ co' = [co EXCEPT ![s] = [k |-> x, S |-> Got(s)]]
        /\ Passes(s, <<Blind(s, 1, x, Got(s))>>)
    /\ Goes(s, "co.e", 1)
    /\ UNCHANGED <<op, last, ands>>

CoKey(s) == <<(co[s].k * co[s].S) % Q,
              IF base[s].s[idx[s]] = 1 THEN "co1" ELSE "co0">>

TakeE(s) ==
    /\ Takes(s, "co.e")
    /\ LET n == idx[s]
       IN  /\ \E seed \in Opened(Got(s)[base[s].s[n] + 1], CoKey(s),
                                 {JunkSeed}) :
                base' = [base EXCEPT ![s].kc[n] = seed]
           /\ IF n < ELL
                THEN \E x \in Scalar :
                       /\ co' = [co EXCEPT ![s].k = x]
                       /\ Goes(s, "co.e", n + 1)
                       /\ Passes(s, <<Blind(s, n + 1, x, co[s].S)>>)
                ELSE /\ After(s, "co.S", <<>>)
                     /\ co' = [co EXCEPT ![s] = [k |-> 0, S |-> 0]]
    /\ UNCHANGED <<op, last, ands>>

(***************************************************************************)
(* One AND: the peer's columns, then both payloads, then its own choices.  *)
(***************************************************************************)
TakeU(s) ==
    /\ Takes(s, "u")
    /\ LET U == Append(op[s].U, Got(s))
       IN  IF idx[s] < ELL
             THEN /\ op' = [op EXCEPT ![s].U = U]
                  /\ Goes(s, "u", idx[s] + 1) /\ Passes(s, <<>>)
             ELSE /\ op' = [op EXCEPT ![s].U = <<>>]
                  /\ Goes(s, "e0", 0)
                  /\ Passes(s, <<Msg("e0", 0, Payload0(s, U)),
                                 Msg("e1", 0, Payload1(s, U))>>)
    /\ UNCHANGED <<base, co, last, ands>>

TakeE0(s) ==
    /\ Takes(s, "e0")
    /\ op' = [op EXCEPT ![s].e0 = Got(s)]
    /\ Goes(s, "e1", 0)
    /\ Passes(s, <<>>)
    /\ UNCHANGED <<base, co, last, ands>>

Chosen(s, j, e1) ==
    Opened(IF op[s].a[j] = 1 THEN e1[j] ELSE op[s].e0[j],
           <<TRow(s, j), j>>, Bit)

\* The output share: a*b + the masks sent + the bits received.
Finish(s) ==
    /\ Takes(s, "e1")
    /\ \E got \in Word :
        /\ \A j \in Row : got[j] \in Chosen(s, j, Got(s))
        /\ last' = [last EXCEPT ![s] =
                      [a |-> op[s].a, b |-> op[s].b,
                       z |-> [j \in Row |-> Xor(op[s].a[j] * op[s].b[j],
                                                Xor(op[s].r[j], got[j]))]]]
    /\ ands' = [ands EXCEPT ![s] = @ + 1]
    /\ op' = [op EXCEPT ![s] = NoOp]
    /\ Goes(s, "idle", 0)
    /\ Passes(s, <<>>)
    /\ UNCHANGED <<base, co>>

Step(s) ==
    \/ Enter(s) \/ SendS(s) \/ AnswerR(s) \/ TakeS(s) \/ TakeE(s)
    \/ TakeU(s) \/ TakeE0(s) \/ Finish(s)

Next == Step(0) \/ Step(1)

\* Each side is a thread that keeps being scheduled.
Spec == Init /\ [][Next]_vars /\ WF_vars(Step(0)) /\ WF_vars(Step(1))

-----------------------------------------------------------------------------
(***************************************************************************)
(* Correctness.                                                            *)
(***************************************************************************)
Waits == {"co.S", "co.R", "co.e", "u", "e0", "e1"}

\* and_bits: the two output shares join to the AND of the two joint inputs.
AndCorrect ==
    ands[0] = ands[1] =>
        \A j \in Row :
            Xor(last[0].z[j], last[1].z[j]) =
                Xor(last[0].a[j], last[1].a[j]) * Xor(last[0].b[j], last[1].b[j])

\* A transfer is oblivious towards the receiver: of the two payloads under
\* way its row opens the one it chose and not the other one, except when the
\* sender's secret is all zero and both masks are the same.
OneOpens ==
    \A s \in Side :
        (\E n \in Col : base[Peer(s)].s[n] = 1) /\ pc[s] = "e1" /\
        q[Peer(s)] # <<>> =>
            \A j \in Row :
                LET e == <<op[s].e0[j], Got(s)[j]>>
                    k == <<TRow(s, j), j>>
                IN  /\ Opened(e[op[s].a[j] + 1], k, {}) # {}
                    /\ Opened(e[2 - op[s].a[j]], k, {}) = {}

\* The two sides never disagree on which message comes next, within the base
\* phase, between it and the first batch, and from batch to batch.
TagsFit ==
    \A s \in Side :
        pc[s] \in Waits /\ q[Peer(s)] # <<>> =>
            /\ Head(q[Peer(s)]).tag = pc[s]
            /\ Head(q[Peer(s)]).i = idx[s]

\* No schedule leaves both sides waiting for each other: every AND is
\* finished.  This is what the order in _ensure_ot is for.
AllDone == <>(\A s \in Side : ands[s] = MaxAnds)

=============================================================================
