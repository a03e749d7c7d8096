--------------------------- MODULE PipelineProofs ---------------------------
(***************************************************************************)
(* For every group order, every set of names and authorities and every     *)
(* choice of expiring timeouts: no provider but the wanted one ever        *)
(* answers a query of the agent, and the whole application run, from the   *)
(* first message of the handshake to the charge, implements AppRun.  Then, *)
(* for every interleaving of the two parties, what each of them sends and  *)
(* joins during the handshake, hence that the confirmation of the client   *)
(* Finished binds the three parties to the same keys, and that the answer  *)
(* to a query can be read by the agent.  Last, what the run comes to:      *)
(* nobody waits for ever, and with a provider the agent wants the number   *)
(* in the answer is what the agent is charged.                             *)
(***************************************************************************)
EXTENDS Settlement, SequenceTheorems, TLAPS

(***************************************************************************)
(* Sequences of messages that fit a script.                                *)
(***************************************************************************)
LEMMA FitsTail ==
    ASSUME NEW S, NEW seq \in Seq(S), seq # <<>>, NEW script,
           NEW n \in Nat, NEW m \in Nat, Fits(seq, script, n, m)
    PROVE  /\ Head(seq).tag = script[n + 1]
           /\ Fits(Tail(seq), script, n + 1, m)
           /\ Tail(seq) \in Seq(S)
<1>1. /\ Len(seq) \in Nat /\ Len(seq) > 0
      /\ Head(seq) = seq[1]
      /\ Tail(seq) \in Seq(S)
      /\ Len(Tail(seq)) = Len(seq) - 1
      /\ \A i \in 1 .. Len(Tail(seq)) : Tail(seq)[i] = seq[i + 1]
  BY HeadTailProperties, LenProperties, EmptySeq
<1>2. Head(seq).tag = script[n + 1]
  BY <1>1 DEF Fits
<1>3. \A i \in 1 .. Len(Tail(seq)) : Tail(seq)[i].tag = script[(n + 1) + i]
  <2> SUFFICES ASSUME NEW i \in 1 .. Len(Tail(seq))
               PROVE  Tail(seq)[i].tag = script[(n + 1) + i]
    OBVIOUS
  <2>1. i + 1 \in 1 .. Len(seq) /\ n + (i + 1) = (n + 1) + i
    BY <1>1
  <2>2. seq[i + 1].tag = script[n + (i + 1)]
    BY <2>1 DEF Fits
  <2> QED
    BY <1>1, <2>1, <2>2
<1> QED
  BY <1>1, <1>2, <1>3 DEF Fits

LEMMA FitsConcat ==
    ASSUME NEW S, NEW seq \in Seq(S), NEW msgs \in Seq(S), NEW script,
           NEW n \in Nat, NEW m \in Nat, NEW k \in Nat,
           Fits(seq, script, n, m), Fits(msgs, script, m, k)
    PROVE  /\ Fits(seq \o msgs, script, n, k)
           /\ seq \o msgs \in Seq(S)
<1>1. /\ Len(seq) = m - n /\ Len(msgs) = k - m
      /\ Len(msgs) \in Nat /\ Len(seq) \in Nat
      /\ Len(seq \o msgs) = Len(seq) + Len(msgs)
      /\ \A i \in 1 .. Len(seq) + Len(msgs) :
           (seq \o msgs)[i] = IF i <= Len(seq) THEN seq[i]
                                               ELSE msgs[i - Len(seq)]
      /\ seq \o msgs \in Seq(S)
  BY ConcatProperties, LenProperties DEF Fits
<1>2. ASSUME NEW i \in 1 .. Len(seq) + Len(msgs)
      PROVE  (seq \o msgs)[i].tag = script[n + i]
  <2>1. CASE i <= Len(seq)
    BY <1>1, <2>1 DEF Fits
  <2>2. CASE i > Len(seq)
    <3>1. i - Len(seq) \in 1 .. Len(msgs) /\ m + (i - Len(seq)) = n + i
      BY <1>1, <2>2
    <3>2. msgs[i - Len(seq)].tag = script[n + i]
      BY <3>1 DEF Fits
    <3>3. (seq \o msgs)[i] = msgs[i - Len(seq)]
      BY <1>1, <2>2
    <3> QED
      BY <3>2, <3>3
  <2> QED
    BY <1>1, <2>1, <2>2
<1> QED
  BY <1>1, <1>2 DEF Fits

-----------------------------------------------------------------------------
(***************************************************************************)
(* The inductive invariant.                                                *)
(***************************************************************************)
AgentPc == {"start", "zb", "shf", "x2", "y2", "dx", "chts", "shts", "ivc",
            "ivs", "tksr", "cfok", "over", "tkr", "gcm", "ct", "resp", "done"}
RelayPc == {"za", "ch", "x1", "y1", "dx", "h2", "ivc", "ivs", "com", "cf",
            "over", "seg", "tka", "gcm", "ct", "done"}

Typed ==
    /\ pc \in [Side -> AgentPc \cup RelayPc]
    /\ pc[A] \in AgentPc /\ pc[R] \in RelayPc
    /\ fate \in [Side -> Fate]
    /\ q = [s \in Side |-> q[s]]
    /\ \E S : q[A] \in Seq(S) /\ q[R] \in Seq(S)
    /\ {"ok", "flight"} \subseteq DOMAIN a
    /\ {"name", "ca"} \subseteq DOMAIN srv
    /\ answered \in BOOLEAN

PInv ==
    /\ Typed
    /\ Lockstep
    /\ FlightHonest
    /\ a.ok => Vouched
    /\ answered => Vouched

LEMMA Sides == /\ A \in Side /\ R \in Side /\ A # R
               /\ Peer(A) = R /\ Peer(R) = A
               /\ A + 1 = 1 /\ R + 1 = 2
BY DEF Side, A, R, Peer

\* The counters of both scripts are numbers.
LEMMA Counts ==
    /\ \A p \in AgentPc : SentAt[1][p] \in Nat /\ ReadAt[1][p] \in Nat
    /\ \A p \in RelayPc : SentAt[2][p] \in Nat /\ ReadAt[2][p] \in Nat
BY DEF AgentPc, RelayPc, SentAt, ReadAt

LEMMA CountsBy ==
    ASSUME Typed
    PROVE  /\ SentBy(A) = SentAt[1][pc[A]] /\ SentBy(A) \in Nat
           /\ SentBy(R) = SentAt[2][pc[R]] /\ SentBy(R) \in Nat
           /\ ReadBy(A) \in Nat /\ ReadBy(R) \in Nat
           /\ Alive(A) => ReadBy(A) = ReadAt[1][pc[A]]
           /\ Alive(R) => ReadBy(R) = ReadAt[2][pc[R]]
<1>1. /\ SentAt[1][pc[A]] \in Nat /\ ReadAt[1][pc[A]] \in Nat
      /\ SentAt[2][pc[R]] \in Nat /\ ReadAt[2][pc[R]] \in Nat
  BY Counts DEF Typed
<1> QED
  BY <1>1, Sides DEF SentBy, ReadBy, Alive

\* A step of side s that reads one message and sends msgs, on the queues.
LEMMA PassQueues ==
    ASSUME Typed, NEW s \in Side, NEW T, NEW msgs \in Seq(T),
           q[Peer(s)] # <<>>, Passes(s, msgs)
    PROVE  /\ q'[s] = q[s] \o msgs
           /\ q'[Peer(s)] = Tail(q[Peer(s)])
           /\ q' = [t \in Side |-> q'[t]]
           /\ \E S : /\ q[A] \in Seq(S) /\ q[R] \in Seq(S) /\ msgs \in Seq(S)
                    /\ q'[A] \in Seq(S) /\ q'[R] \in Seq(S)
<1>1. /\ Peer(s) \in Side /\ Peer(s) # s
      /\ s = A \/ s = R
  BY DEF Side, Peer, A, R
<1>2. q'[s] = q[s] \o msgs /\ q'[Peer(s)] = Tail(q[Peer(s)])
  BY <1>1 DEF Passes, Typed
<1>3. q' = [t \in Side |-> q'[t]]
  BY <1>1 DEF Passes, Typed
<1>4. PICK S : q[A] \in Seq(S) /\ q[R] \in Seq(S)
  BY DEF Typed
<1>5. /\ q[A] \in Seq(S \cup T) /\ q[R] \in Seq(S \cup T)
      /\ msgs \in Seq(S \cup T)
  <2>1. S \subseteq S \cup T /\ T \subseteq S \cup T
    OBVIOUS
  <2> QED
    BY <1>4, <2>1, SeqMonotonic
<1>6. q[s] \in Seq(S \cup T) /\ q[Peer(s)] \in Seq(S \cup T)
  BY <1>1, <1>5, Sides
<1>7. q[s] \o msgs \in Seq(S \cup T) /\ Tail(q[Peer(s)]) \in Seq(S \cup T)
  BY <1>5, <1>6, ConcatProperties, HeadTailProperties
<1>8. q'[A] \in Seq(S \cup T) /\ q'[R] \in Seq(S \cup T)
  BY <1>1, <1>2, <1>7, Sides
<1> QED
  BY <1>2, <1>3, <1>5, <1>8

-----------------------------------------------------------------------------
(***************************************************************************)
(* What one step does to the invariant, by its shape.                      *)
(***************************************************************************)
\* An agent that receives what it asks for is not one message behind: it
\* would have found the unread "cfok".
LEMMA AgentInStep ==
    ASSUME PInv, NEW p \in AgentPc \ {"start", "over", "done"}, Takes(A, p)
    PROVE  /\ Fits(q[R], Script[2], ReadAt[1][p], SentBy(R))
           /\ p \in Passed => Vouched
<1>1. /\ pc[A] = p /\ Alive(A) /\ q[R] # <<>>
      /\ Head(q[R]).tag = Await[1][p]
      /\ ReadBy(A) = ReadAt[1][p] /\ ReadAt[1][p] \in Nat
      /\ SentBy(R) \in Nat
  BY Sides, CountsBy DEF PInv, Takes, At, Awaits
<1>2. CASE p # "tkr"
  BY <1>1, <1>2 DEF PInv, Lockstep
<1>3. CASE p = "tkr"
  <2>1. ReadAt[1][p] = 11 /\ Await[1][p] = "sim.t" /\ Script[2][11] = "cfok"
    BY <1>3 DEF ReadAt, Await, Script
  <2>2. PICK S : q[R] \in Seq(S)
    BY DEF PInv, Typed
  <2>3. ~ Fits(q[R], Script[2], 10, SentBy(R))
    <3> SUFFICES ASSUME Fits(q[R], Script[2], 10, SentBy(R))
                 PROVE  FALSE
      OBVIOUS
    <3>2. /\ Fits(q[R], Script[2], 10, SentBy(R))
          /\ q[R] # <<>> /\ SentBy(R) \in Nat
      BY <1>1
    <3>1. Head(q[R]).tag = Script[2][10 + 1]
      BY ONLY <3>2, <2>2, FitsTail, 10 \in Nat
    <3> QED
      BY <1>1, <2>1, <3>1
  <2> QED
    BY <1>1, <2>1, <2>3 DEF PInv, Lockstep
<1> QED
  BY <1>2, <1>3

\* The agent receives the message of p, sends msgs and goes on to p2.
AgentTake(p, msgs, p2) ==
    /\ p \in AgentPc \ {"start", "over", "done"} /\ p2 \in AgentPc
    /\ Takes(A, p) /\ Passes(A, msgs) /\ Goes(A, p2)
    /\ \E T : msgs \in Seq(T)
    /\ Fits(msgs, Script[1], SentAt[1][p], SentAt[1][p2])
    /\ srv' = srv /\ answered' = answered
    /\ {"ok", "flight"} \subseteq DOMAIN a' /\ (a'.ok => Vouched)
    /\ p2 \notin {"start", "zb", "shf"} =>
           a'.flight.name = srv.name /\ a'.flight.ca = srv.ca

\* The same, with p2 the next line of the script.
AgentMove(p, msgs, p2) ==
    /\ AgentTake(p, msgs, p2)
    /\ ReadAt[1][p2] = ReadAt[1][p] + 1
    /\ p2 \in Passed => Vouched

LEMMA AgentTakes ==
    ASSUME PInv, NEW p, NEW msgs, NEW p2, AgentTake(p, msgs, p2)
    PROVE  /\ Typed' /\ FlightHonest' /\ Vouched' = Vouched
           /\ pc'[A] = p2 /\ Alive(A)'
           /\ Fits(q'[A], Script[1], ReadBy(R)', SentBy(A)')
           /\ Fits(q'[R], Script[2], ReadAt[1][p] + 1, SentBy(R)')
<1> USE DEF AgentTake
<1>1. /\ pc[A] = p /\ Alive(A) /\ q[R] # <<>>
      /\ pc'[A] = p2 /\ pc'[R] = pc[R] /\ fate' = fate
      /\ pc' \in [Side -> AgentPc \cup RelayPc]
  BY Sides DEF PInv, Typed, Takes, At, Goes
<1>2. PICK S : /\ q[A] \in Seq(S) /\ q[R] \in Seq(S) /\ msgs \in Seq(S)
               /\ q'[A] \in Seq(S) /\ q'[R] \in Seq(S)
               /\ q'[A] = q[A] \o msgs /\ q'[R] = Tail(q[R])
               /\ q' = [t \in Side |-> q'[t]]
  BY <1>1, Sides, PassQueues DEF PInv
<1>3. Typed'
  BY <1>1, <1>2, Sides DEF PInv, Typed
<1>4. /\ SentBy(A) = SentAt[1][p] /\ SentBy(A)' = SentAt[1][p2]
      /\ SentBy(R)' = SentBy(R) /\ ReadBy(R)' = ReadBy(R)
      /\ ReadBy(A) = ReadAt[1][p]
      /\ SentBy(A) \in Nat /\ SentBy(R) \in Nat
      /\ ReadBy(A) \in Nat /\ ReadBy(R) \in Nat
  BY <1>1, Sides, CountsBy DEF PInv, SentBy, ReadBy, Alive
<1>5. Fits(q'[A], Script[1], ReadBy(R)', SentBy(A)')
  <2>1. Fits(q[A] \o msgs, Script[1], ReadBy(R), SentAt[1][p2])
    BY <1>2, <1>4, Counts, FitsConcat DEF PInv, Lockstep
  <2> QED
    BY <1>2, <1>4, <2>1
<1>6. Fits(q'[R], Script[2], ReadAt[1][p] + 1, SentBy(R)')
  <2>1. Fits(q[R], Script[2], ReadAt[1][p], SentBy(R))
    BY AgentInStep
  <2>2. Fits(Tail(q[R]), Script[2], ReadAt[1][p] + 1, SentBy(R))
    BY <1>1, <1>2, <1>4, <2>1, FitsTail
  <2> QED
    BY <1>2, <1>4, <2>2
<1>7. Vouched' = Vouched
  BY DEF Vouched
<1>8. FlightHonest'
  <2>1. /\ Len(q'[R]) = Len(q[R]) - 1 /\ Len(q[R]) \in Nat
        /\ \A i \in 1 .. Len(q'[R]) : q'[R][i] = q[R][i + 1]
    BY <1>1, <1>2, HeadTailProperties, LenProperties, EmptySeq
  <2>2. \A i \in 1 .. Len(q'[R]) : i + 1 \in 1 .. Len(q[R])
    BY <2>1
  <2>3. \A i \in 1 .. Len(q'[R]) :
           q'[R][i].tag = "shf" => /\ q'[R][i].val.name = srv.name
                                   /\ q'[R][i].val.ca = srv.ca
    BY <2>1, <2>2 DEF PInv, FlightHonest
  <2> QED
    BY <1>1, <2>3 DEF FlightHonest
<1> QED
  BY <1>1, <1>3, <1>5, <1>6, <1>7, <1>8 DEF Alive

LEMMA AgentMoves ==
    ASSUME PInv, NEW p, NEW msgs, NEW p2, AgentMove(p, msgs, p2)
    PROVE  PInv'
<1>1. /\ Typed' /\ FlightHonest' /\ Vouched' = Vouched
      /\ pc'[A] = p2 /\ Alive(A)'
      /\ Fits(q'[A], Script[1], ReadBy(R)', SentBy(A)')
      /\ Fits(q'[R], Script[2], ReadAt[1][p] + 1, SentBy(R)')
  BY AgentTakes DEF AgentMove
<1>2. ReadBy(A)' = ReadAt[1][p] + 1
  <2>1. ReadBy(A)' = ReadAt[1][p2]
    BY <1>1, Counts, Sides DEF ReadBy, Alive, AgentMove, AgentTake
  <2> QED
    BY <2>1 DEF AgentMove
<1>3. Lockstep'
  BY <1>1, <1>2 DEF Lockstep, AgentMove
<1> QED
  BY <1>1, <1>3 DEF PInv, AgentMove, AgentTake

\* The agent that has rejected goes on without reading "cfok".
LEMMA AgentSkips ==
    ASSUME PInv, NEW msgs, AgentTake("tksr", msgs, "over")
    PROVE  PInv'
<1>1. /\ Typed' /\ FlightHonest' /\ Vouched' = Vouched
      /\ pc'[A] = "over" /\ Alive(A)'
      /\ Fits(q'[A], Script[1], ReadBy(R)', SentBy(A)')
      /\ Fits(q'[R], Script[2], ReadAt[1]["tksr"] + 1, SentBy(R)')
  BY AgentTakes
<1>2. ReadBy(A)' - 1 = ReadAt[1]["tksr"] + 1
  BY <1>1 DEF ReadBy, ReadAt, Alive, A
<1>3. Lockstep'
  BY <1>1, <1>2 DEF Lockstep
<1> QED
  BY <1>1, <1>3 DEF PInv, AgentTake

\* The relay receives the message of p, sends msgs and goes on to p2.
RelayMove(p, msgs, p2) ==
    /\ p \in RelayPc /\ p2 \in RelayPc
    /\ Takes(R, p) /\ Passes(R, msgs) /\ Goes(R, p2)
    /\ \E T : msgs \in Seq(T)
    /\ Fits(msgs, Script[2], SentAt[2][p], SentAt[2][p2])
    /\ ReadAt[2][p2] = ReadAt[2][p] + 1
    /\ \A i \in 1 .. Len(msgs) : msgs[i].tag = "shf" =>
           msgs[i].val.name = srv.name /\ msgs[i].val.ca = srv.ca
    /\ a' = a /\ {"name", "ca"} \subseteq DOMAIN srv'
    /\ srv'.name = srv.name /\ srv'.ca = srv.ca
    /\ answered' \in BOOLEAN /\ (answered' => Vouched)

\* The agent may be one message behind: it stays so.
LEMMA RelayMoves ==
    ASSUME PInv, NEW p, NEW msgs, NEW p2, RelayMove(p, msgs, p2)
    PROVE  PInv'
<1> USE DEF RelayMove
<1>1. /\ pc[R] = p /\ Alive(R) /\ q[A] # <<>>
      /\ pc'[R] = p2 /\ pc'[A] = pc[A] /\ fate' = fate
      /\ pc' \in [Side -> AgentPc \cup RelayPc]
  BY Sides DEF PInv, Typed, Takes, At, Goes
<1>2. PICK S : /\ q[A] \in Seq(S) /\ q[R] \in Seq(S) /\ msgs \in Seq(S)
               /\ q'[A] \in Seq(S) /\ q'[R] \in Seq(S)
               /\ q'[R] = q[R] \o msgs /\ q'[A] = Tail(q[A])
               /\ q' = [t \in Side |-> q'[t]]
  BY <1>1, Sides, PassQueues DEF PInv
<1>3. Typed'
  BY <1>1, <1>2, Sides DEF PInv, Typed
<1>4. /\ SentBy(R) = SentAt[2][p] /\ SentBy(R)' = SentAt[2][p2]
      /\ SentBy(A)' = SentBy(A) /\ ReadBy(A)' = ReadBy(A)
      /\ ReadBy(R) = ReadAt[2][p] /\ ReadBy(R)' = ReadAt[2][p2]
      /\ SentBy(A) \in Nat /\ SentBy(R) \in Nat
      /\ ReadBy(A) \in Nat /\ ReadBy(R) \in Nat
  BY <1>1, Sides, CountsBy DEF PInv, SentBy, ReadBy, Alive
<1>5. Fits(q'[A], Script[1], ReadBy(R)', SentBy(A)')
  <2>1. Fits(Tail(q[A]), Script[1], ReadBy(R) + 1, SentBy(A))
    BY <1>1, <1>2, <1>4, FitsTail DEF PInv, Lockstep
  <2> QED
    BY <1>2, <1>4, <2>1
<1>6. Vouched' = Vouched
  BY DEF Vouched
<1>7. ASSUME NEW n \in Nat, Fits(q[R], Script[2], n, SentBy(R))
      PROVE  Fits(q'[R], Script[2], n, SentBy(R)')
  <2>1. Fits(q[R] \o msgs, Script[2], n, SentAt[2][p2])
    BY <1>2, <1>4, <1>7, Counts, FitsConcat
  <2> QED
    BY <1>2, <1>4, <2>1
<1>8. Lockstep'
  <2>1. CASE /\ Fits(q[R], Script[2], ReadBy(A), SentBy(R))
             /\ pc[A] \in Passed => Vouched
    BY <1>1, <1>4, <1>5, <1>6, <1>7, <2>1 DEF Lockstep
  <2>2. CASE /\ Fits(q[R], Script[2], ReadBy(A) - 1, SentBy(R))
             /\ pc[A] \in {"over", "tkr"}
    <3>1. ReadBy(A) - 1 \in Nat
      BY <2>2, Sides DEF ReadBy, ReadAt
    <3> QED
      BY <1>1, <1>4, <1>5, <1>7, <2>2, <3>1 DEF Lockstep
  <2> QED
    BY <2>1, <2>2 DEF PInv, Lockstep
<1>9. FlightHonest'
  <2>1. /\ Len(q'[R]) = Len(q[R]) + Len(msgs)
        /\ Len(q[R]) \in Nat /\ Len(msgs) \in Nat
        /\ \A i \in 1 .. Len(q'[R]) :
             q'[R][i] = IF i <= Len(q[R]) THEN q[R][i] ELSE msgs[i - Len(q[R])]
    BY <1>2, ConcatProperties, LenProperties
  <2>2. ASSUME NEW i \in 1 .. Len(q'[R]), q'[R][i].tag = "shf"
        PROVE  q'[R][i].val.name = srv.name /\ q'[R][i].val.ca = srv.ca
    <3>1. CASE i <= Len(q[R])
      <4>1. i \in 1 .. Len(q[R]) /\ q'[R][i] = q[R][i]
        BY <2>1, <3>1
      <4> QED
        BY <2>2, <4>1 DEF PInv, FlightHonest
    <3>2. CASE i > Len(q[R])
      <4>1. /\ i - Len(q[R]) \in 1 .. Len(msgs)
            /\ q'[R][i] = msgs[i - Len(q[R])]
        BY <2>1, <3>2
      <4> QED
        BY <2>2, <4>1
    <3> QED
      BY <2>1, <3>1, <3>2
  <2> QED
    BY <1>1, <2>2 DEF PInv, FlightHonest
<1> QED
  BY <1>3, <1>6, <1>8, <1>9 DEF PInv

\* A party takes a message and its thread ends there.
LEMMA Drops ==
    ASSUME PInv, NEW s \in Side, Alive(s), q[Peer(s)] # <<>>,
           Passes(s, <<>>), NEW how \in {"raised", "desync"}, Dies(s, how),
           UNCHANGED a, answered' \in BOOLEAN, answered' => Vouched,
           {"name", "ca"} \subseteq DOMAIN srv',
           srv'.name = srv.name, srv'.ca = srv.ca
    PROVE  PInv'
<1>1. /\ pc' = pc /\ fate' \in [Side -> Fate]
      /\ fate'[s] = how /\ fate'[Peer(s)] = fate[Peer(s)]
  <2>1. pc' = pc /\ fate' = [fate EXCEPT ![s] = how] /\ how \in Fate
    BY DEF Dies, Fate
  <2>2. fate \in [Side -> Fate] /\ Peer(s) \in Side /\ Peer(s) # s
    BY DEF PInv, Typed, Side, Peer, A, R
  <2> QED
    BY <2>1, <2>2
<1>2. /\ SentBy(A)' = SentBy(A) /\ SentBy(R)' = SentBy(R)
      /\ SentBy(A) \in Nat /\ SentBy(R) \in Nat
      /\ ReadBy(A) \in Nat /\ ReadBy(R) \in Nat
  BY <1>1, CountsBy DEF PInv, SentBy
<1>3. <<>> \in Seq({})
  OBVIOUS
<1>4. PICK S : /\ q[A] \in Seq(S) /\ q[R] \in Seq(S)
               /\ q'[A] \in Seq(S) /\ q'[R] \in Seq(S)
               /\ q'[s] = q[s] \o <<>> /\ q'[Peer(s)] = Tail(q[Peer(s)])
               /\ q' = [t \in Side |-> q'[t]]
  BY <1>3, PassQueues DEF PInv
<1>5. q'[s] = q[s]
  BY <1>4, Sides, ConcatEmptySeq DEF Side, A, R
<1>6. Typed'
  BY <1>1, <1>4 DEF PInv, Typed
<1>7. Vouched' = Vouched
  BY DEF Vouched
<1>8. CASE s = A
  <2>1. /\ ReadBy(A)' = ReadBy(A) + 1 /\ ReadBy(R)' = ReadBy(R)
        /\ q'[A] = q[A] /\ q'[R] = Tail(q[R]) /\ q[R] # <<>>
    BY <1>1, <1>4, <1>5, <1>8, Sides, Counts DEF PInv, Typed, ReadBy, Alive
  <2>2. ASSUME NEW n \in Nat, Fits(q[R], Script[2], n, SentBy(R))
        PROVE  Fits(q'[R], Script[2], n + 1, SentBy(R)')
    <3>1. Fits(Tail(q[R]), Script[2], n + 1, SentBy(R))
      BY ONLY <1>2, <1>4, <2>1, <2>2, FitsTail
    <3> QED
      BY <1>2, <2>1, <3>1
  <2>3. Lockstep'
    <3>1. CASE /\ Fits(q[R], Script[2], ReadBy(A), SentBy(R))
               /\ pc[A] \in Passed => Vouched
      BY <1>1, <1>2, <1>7, <2>1, <2>2, <3>1 DEF PInv, Lockstep
    <3>2. CASE /\ Fits(q[R], Script[2], ReadBy(A) - 1, SentBy(R))
               /\ pc[A] \in {"over", "tkr"}
      <4>1. ReadBy(A) - 1 \in Nat /\ (ReadBy(A) - 1) + 1 = ReadBy(A)' - 1
        BY <1>8, <2>1, <3>2, Sides DEF ReadBy, ReadAt, Alive
      <4> QED
        BY <1>1, <1>2, <2>1, <2>2, <3>2, <4>1 DEF PInv, Lockstep
    <3> QED
      BY <3>1, <3>2 DEF PInv, Lockstep
  <2>4. /\ Len(q'[R]) = Len(q[R]) - 1 /\ Len(q[R]) \in Nat
        /\ \A i \in 1 .. Len(q'[R]) : q'[R][i] = q[R][i + 1]
    BY <1>4, <2>1, HeadTailProperties, LenProperties, EmptySeq
  <2>5. \A i \in 1 .. Len(q'[R]) : i + 1 \in 1 .. Len(q[R])
    BY <2>4
  <2>6. FlightHonest'
    BY <1>1, <2>4, <2>5 DEF PInv, FlightHonest
  <2> QED
    BY <1>6, <1>7, <2>3, <2>6 DEF PInv
<1>9. CASE s = R
  <2>1. /\ ReadBy(R)' = ReadBy(R) + 1 /\ ReadBy(A)' = ReadBy(A)
        /\ q'[R] = q[R] /\ q'[A] = Tail(q[A]) /\ q[A] # <<>>
    BY <1>1, <1>4, <1>5, <1>9, Sides, Counts DEF PInv, Typed, ReadBy, Alive
  <2>2. Fits(q'[A], Script[1], ReadBy(R)', SentBy(A)')
    <3>1. Fits(q[A], Script[1], ReadBy(R), SentBy(A))
      BY DEF PInv, Lockstep
    <3>2. Fits(Tail(q[A]), Script[1], ReadBy(R) + 1, SentBy(A))
      BY ONLY <1>2, <1>4, <2>1, <3>1, FitsTail
    <3> QED
      BY <1>2, <2>1, <3>2
  <2>3. Lockstep'
    BY <1>1, <1>2, <1>7, <2>1, <2>2 DEF PInv, Lockstep
  <2>4. FlightHonest'
    BY <1>1, <2>1 DEF PInv, FlightHonest
  <2> QED
    BY <1>6, <1>7, <2>3, <2>4 DEF PInv
<1> QED
  BY <1>8, <1>9 DEF Side, A, R

-----------------------------------------------------------------------------
(***************************************************************************)
(* One case per action.                                                    *)
(***************************************************************************)
LEMMA Listed ==
    /\ \E T : <<>> \in Seq(T)
    /\ \A x : \E T : <<x>> \in Seq(T)
    /\ \A x, y : \E T : <<x, y>> \in Seq(T)
    /\ \A x, y, z : \E T : <<x, y, z>> \in Seq(T)
<1>1. <<>> \in Seq({})
  OBVIOUS
<1>2. ASSUME NEW x PROVE <<x>> \in Seq({x})
  OBVIOUS
<1>3. ASSUME NEW x, NEW y PROVE <<x, y>> \in Seq({x, y})
  OBVIOUS
<1>4. ASSUME NEW x, NEW y, NEW z PROVE <<x, y, z>> \in Seq({x, y, z})
  OBVIOUS
<1> QED
  BY <1>1, <1>2, <1>3, <1>4

\* Moves of the agent that change neither its verdict nor the provider.
LEMMA AgentKeeps ==
    ASSUME PInv, UNCHANGED answered,
           \/ AHello
           \/ AInputX
           \/ AInputY
           \/ AInverse
           \/ AOpenChts
           \/ AOpenIvC
           \/ ACommit
           \/ AKeyShare
           \/ ASeal
           \/ AOpenRecord
    PROVE  PInv'
<1>1. CASE AHello
  <2> DEFINE msgs == <<Msg("ch", (a.k + Got(A)) % Q)>>
  <2>1. Fits(msgs, Script[1], SentAt[1]["zb"], SentAt[1]["shf"])
    BY DEF Fits, SentAt, Script, Msg
  <2>2. \E T : msgs \in Seq(T)
    BY Listed
  <2>3. /\ Takes(A, "zb") /\ Passes(A, msgs) /\ Goes(A, "shf")
        /\ srv' = srv
        /\ {"ok", "flight"} \subseteq DOMAIN a' /\ (a'.ok => Vouched)
        /\ a'.flight = a.flight
    BY <1>1 DEF AHello, PInv, Typed
  <2> HIDE DEF msgs
  <2>4. AgentMove("zb", msgs, "shf")
    BY <2>1, <2>2, <2>3, AgentInStep, Sides
       DEF AgentMove, AgentTake, AgentPc, ReadAt, Passed, PInv, FlightHonest,
           Takes, At
  <2> QED
    BY <2>4, AgentMoves
<1>2. CASE AInputX
  <2> DEFINE msgs == <<>>
  <2>1. Fits(msgs, Script[1], SentAt[1]["x2"], SentAt[1]["y2"])
    BY DEF Fits, SentAt, Script, Msg
  <2>2. \E T : msgs \in Seq(T)
    BY Listed
  <2>3. /\ Takes(A, "x2") /\ Passes(A, msgs) /\ Goes(A, "y2")
        /\ srv' = srv
        /\ {"ok", "flight"} \subseteq DOMAIN a' /\ (a'.ok => Vouched)
        /\ a'.flight = a.flight
    BY <1>2 DEF AInputX, PInv, Typed
  <2> HIDE DEF msgs
  <2>4. AgentMove("x2", msgs, "y2")
    BY <2>1, <2>2, <2>3, AgentInStep, Sides
       DEF AgentMove, AgentTake, AgentPc, ReadAt, Passed, PInv, FlightHonest,
           Takes, At
  <2> QED
    BY <2>4, AgentMoves
<1>3. CASE AInputY
  <2> DEFINE msgs == <<Msg("op", None)>>
  <2>1. Fits(msgs, Script[1], SentAt[1]["y2"], SentAt[1]["dx"])
    BY DEF Fits, SentAt, Script, Msg
  <2>2. \E T : msgs \in Seq(T)
    BY Listed
  <2>3. /\ Takes(A, "y2") /\ Passes(A, msgs) /\ Goes(A, "dx")
        /\ srv' = srv
        /\ {"ok", "flight"} \subseteq DOMAIN a' /\ (a'.ok => Vouched)
        /\ a'.flight = a.flight
    BY <1>3 DEF AInputY, PInv, Typed
  <2> HIDE DEF msgs
  <2>4. AgentMove("y2", msgs, "dx")
    BY <2>1, <2>2, <2>3, AgentInStep, Sides
       DEF AgentMove, AgentTake, AgentPc, ReadAt, Passed, PInv, FlightHonest,
           Takes, At
  <2> QED
    BY <2>4, AgentMoves
<1>4. CASE AInverse
  <2> DEFINE msgs == <<>>
  <2>1. Fits(msgs, Script[1], SentAt[1]["dx"], SentAt[1]["chts"])
    BY DEF Fits, SentAt, Script, Msg
  <2>2. \E T : msgs \in Seq(T)
    BY Listed
  <2>3. /\ Takes(A, "dx") /\ Passes(A, msgs) /\ Goes(A, "chts")
        /\ srv' = srv
        /\ {"ok", "flight"} \subseteq DOMAIN a' /\ (a'.ok => Vouched)
        /\ a'.flight = a.flight
    BY <1>4 DEF AInverse, PInv, Typed
  <2> HIDE DEF msgs
  <2>4. AgentMove("dx", msgs, "chts")
    BY <2>1, <2>2, <2>3, AgentInStep, Sides
       DEF AgentMove, AgentTake, AgentPc, ReadAt, Passed, PInv, FlightHonest,
           Takes, At
  <2> QED
    BY <2>4, AgentMoves
<1>5. CASE AOpenChts
  <2> DEFINE msgs == <<>>
  <2>1. Fits(msgs, Script[1], SentAt[1]["chts"], SentAt[1]["shts"])
    BY DEF Fits, SentAt, Script, Msg
  <2>2. \E T : msgs \in Seq(T)
    BY Listed
  <2>3. /\ Takes(A, "chts") /\ Passes(A, msgs) /\ Goes(A, "shts")
        /\ srv' = srv
        /\ {"ok", "flight"} \subseteq DOMAIN a' /\ (a'.ok => Vouched)
        /\ a'.flight = a.flight
    BY <1>5 DEF AOpenChts, PInv, Typed
  <2> HIDE DEF msgs
  <2>4. AgentMove("chts", msgs, "shts")
    BY <2>1, <2>2, <2>3, AgentInStep, Sides
       DEF AgentMove, AgentTake, AgentPc, ReadAt, Passed, PInv, FlightHonest,
           Takes, At
  <2> QED
    BY <2>4, AgentMoves
<1>6. CASE AOpenIvC
  <2> DEFINE msgs == <<Msg("op", a.sapp)>>
  <2>1. Fits(msgs, Script[1], SentAt[1]["ivc"], SentAt[1]["ivs"])
    BY DEF Fits, SentAt, Script, Msg
  <2>2. \E T : msgs \in Seq(T)
    BY Listed
  <2>3. /\ Takes(A, "ivc") /\ Passes(A, msgs) /\ Goes(A, "ivs")
        /\ srv' = srv
        /\ {"ok", "flight"} \subseteq DOMAIN a' /\ (a'.ok => Vouched)
        /\ a'.flight = a.flight
    BY <1>6 DEF AOpenIvC, PInv, Typed
  <2> HIDE DEF msgs
  <2>4. AgentMove("ivc", msgs, "ivs")
    BY <2>1, <2>2, <2>3, AgentInStep, Sides
       DEF AgentMove, AgentTake, AgentPc, ReadAt, Passed, PInv, FlightHonest,
           Takes, At
  <2> QED
    BY <2>4, AgentMoves
<1>7. CASE ACommit
  <2> DEFINE msgs == <<Msg("com", a.sapp)>>
  <2>1. Fits(msgs, Script[1], SentAt[1]["ivs"], SentAt[1]["tksr"])
    BY DEF Fits, SentAt, Script, Msg
  <2>2. \E T : msgs \in Seq(T)
    BY Listed
  <2>3. /\ Takes(A, "ivs") /\ Passes(A, msgs) /\ Goes(A, "tksr")
        /\ srv' = srv
        /\ {"ok", "flight"} \subseteq DOMAIN a' /\ (a'.ok => Vouched)
        /\ a'.flight = a.flight
    BY <1>7 DEF ACommit, PInv, Typed
  <2> HIDE DEF msgs
  <2>4. AgentMove("ivs", msgs, "tksr")
    BY <2>1, <2>2, <2>3, AgentInStep, Sides
       DEF AgentMove, AgentTake, AgentPc, ReadAt, Passed, PInv, FlightHonest,
           Takes, At
  <2> QED
    BY <2>4, AgentMoves
<1>8. CASE AKeyShare
  <2> DEFINE msgs == <<Msg("op", None)>>
  <2>1. Fits(msgs, Script[1], SentAt[1]["tkr"], SentAt[1]["gcm"])
    BY DEF Fits, SentAt, Script, Msg
  <2>2. \E T : msgs \in Seq(T)
    BY Listed
  <2>3. /\ Takes(A, "tkr") /\ Passes(A, msgs) /\ Goes(A, "gcm")
        /\ srv' = srv
        /\ {"ok", "flight"} \subseteq DOMAIN a' /\ (a'.ok => Vouched)
        /\ a'.flight = a.flight
    BY <1>8 DEF AKeyShare, PInv, Typed
  <2> HIDE DEF msgs
  <2>4. AgentMove("tkr", msgs, "gcm")
    BY <2>1, <2>2, <2>3, AgentInStep, Sides
       DEF AgentMove, AgentTake, AgentPc, ReadAt, Passed, PInv, FlightHonest,
           Takes, At
  <2> QED
    BY <2>4, AgentMoves
<1>9. CASE ASeal
  <2> DEFINE msgs == <<Msg("op", a.capp)>>
  <2>1. Fits(msgs, Script[1], SentAt[1]["gcm"], SentAt[1]["ct"])
    BY DEF Fits, SentAt, Script, Msg
  <2>2. \E T : msgs \in Seq(T)
    BY Listed
  <2>3. /\ Takes(A, "gcm") /\ Passes(A, msgs) /\ Goes(A, "ct")
        /\ srv' = srv
        /\ {"ok", "flight"} \subseteq DOMAIN a' /\ (a'.ok => Vouched)
        /\ a'.flight = a.flight
    BY <1>9 DEF ASeal, PInv, Typed
  <2> HIDE DEF msgs
  <2>4. AgentMove("gcm", msgs, "ct")
    BY <2>1, <2>2, <2>3, AgentInStep, Sides
       DEF AgentMove, AgentTake, AgentPc, ReadAt, Passed, PInv, FlightHonest,
           Takes, At
  <2> QED
    BY <2>4, AgentMoves
<1>10. CASE AOpenRecord
  <2> DEFINE msgs == <<>>
  <2>1. Fits(msgs, Script[1], SentAt[1]["ct"], SentAt[1]["resp"])
    BY DEF Fits, SentAt, Script, Msg
  <2>2. \E T : msgs \in Seq(T)
    BY Listed
  <2>3. /\ Takes(A, "ct") /\ Passes(A, msgs) /\ Goes(A, "resp")
        /\ srv' = srv
        /\ {"ok", "flight"} \subseteq DOMAIN a' /\ (a'.ok => Vouched)
        /\ a'.flight = a.flight
    BY <1>10 DEF AOpenRecord, PInv, Typed
  <2> HIDE DEF msgs
  <2>4. AgentMove("ct", msgs, "resp")
    BY <2>1, <2>2, <2>3, AgentInStep, Sides
       DEF AgentMove, AgentTake, AgentPc, ReadAt, Passed, PInv, FlightHonest,
           Takes, At
  <2> QED
    BY <2>4, AgentMoves
<1> QED
  BY <1>1, <1>2, <1>3, <1>4, <1>5, <1>6, <1>7, <1>8, <1>9, <1>10

\* Moves of the relay that do not touch the provider.
LEMMA RelayKeeps ==
    ASSUME PInv, UNCHANGED answered,
           \/ RShare
           \/ RInputX
           \/ RInputY
           \/ RRelease
           \/ RPhase2
           \/ ROpenIvC
           \/ ROpenIvS
           \/ RReveal
           \/ RSegments
           \/ RKeyShare
           \/ RSeal
    PROVE  PInv'
<1>1. CASE RShare
  <2> DEFINE msgs == <<Msg("zb", r.k)>>
  <2>1. Fits(msgs, Script[2], SentAt[2]["za"], SentAt[2]["ch"])
    BY DEF Fits, SentAt, Script, Msg
  <2>2. \E T : msgs \in Seq(T)
    BY Listed
  <2>3. /\ Takes(R, "za") /\ Passes(R, msgs) /\ Goes(R, "ch")
        /\ a' = a /\ srv' = srv
    BY <1>1 DEF RShare
  <2>4. \A i \in 1 .. Len(msgs) : msgs[i].tag # "shf"
    BY DEF Msg
  <2> HIDE DEF msgs
  <2>5. RelayMove("za", msgs, "ch")
    BY <2>1, <2>2, <2>3, <2>4 DEF RelayMove, RelayPc, ReadAt, PInv, Typed
  <2> QED
    BY <2>5, RelayMoves
<1>2. CASE RInputX
  <2> DEFINE msgs == <<>>
  <2>1. Fits(msgs, Script[2], SentAt[2]["x1"], SentAt[2]["y1"])
    BY DEF Fits, SentAt, Script, Msg
  <2>2. \E T : msgs \in Seq(T)
    BY Listed
  <2>3. /\ Takes(R, "x1") /\ Passes(R, msgs) /\ Goes(R, "y1")
        /\ a' = a /\ srv' = srv
    BY <1>2 DEF RInputX
  <2>4. \A i \in 1 .. Len(msgs) : msgs[i].tag # "shf"
    BY DEF Msg
  <2> HIDE DEF msgs
  <2>5. RelayMove("x1", msgs, "y1")
    BY <2>1, <2>2, <2>3, <2>4 DEF RelayMove, RelayPc, ReadAt, PInv, Typed
  <2> QED
    BY <2>5, RelayMoves
<1>3. CASE RInputY
  <2> DEFINE msgs == <<Msg("sim.t", r.ssk),
                     Msg("sim.t", r.ssk),
                     Msg("op", None)>>
  <2>1. Fits(msgs, Script[2], SentAt[2]["y1"], SentAt[2]["dx"])
    BY DEF Fits, SentAt, Script, Msg
  <2>2. \E T : msgs \in Seq(T)
    BY Listed
  <2>3. /\ Takes(R, "y1") /\ Passes(R, msgs) /\ Goes(R, "dx")
        /\ a' = a /\ srv' = srv
    BY <1>3 DEF RInputY
  <2>4. \A i \in 1 .. Len(msgs) : msgs[i].tag # "shf"
    BY DEF Msg
  <2> HIDE DEF msgs
  <2>5. RelayMove("y1", msgs, "dx")
    BY <2>1, <2>2, <2>3, <2>4 DEF RelayMove, RelayPc, ReadAt, PInv, Typed
  <2> QED
    BY <2>5, RelayMoves
<1>4. CASE RRelease
  <2> DEFINE cs == ChtsOf(r.x, r.tr)
             ss == ShtsOf(r.x, r.tr)
  <2> DEFINE msgs == <<Msg("op", cs),
                     Msg("op", ss)>>
  <2>3. /\ Takes(R, "dx") /\ Passes(R, msgs) /\ Goes(R, "h2")
        /\ a' = a /\ srv' = srv
    BY <1>4 DEF RRelease
  <2> HIDE DEF cs, ss
  <2>1. Fits(msgs, Script[2], SentAt[2]["dx"], SentAt[2]["h2"])
    BY DEF Fits, SentAt, Script, Msg
  <2>2. \E T : msgs \in Seq(T)
    BY Listed
  <2>4. \A i \in 1 .. Len(msgs) : msgs[i].tag # "shf"
    BY DEF Msg
  <2> HIDE DEF msgs
  <2>5. RelayMove("dx", msgs, "h2")
    BY <2>1, <2>2, <2>3, <2>4 DEF RelayMove, RelayPc, ReadAt, PInv, Typed
  <2> QED
    BY <2>5, RelayMoves
<1>5. CASE RPhase2
  <2> DEFINE msgs == <<Msg("op", r'.capp)>>
  <2>1. Fits(msgs, Script[2], SentAt[2]["h2"], SentAt[2]["ivc"])
    BY DEF Fits, SentAt, Script, Msg
  <2>2. \E T : msgs \in Seq(T)
    BY Listed
  <2>3. /\ Takes(R, "h2") /\ Passes(R, msgs) /\ Goes(R, "ivc")
        /\ a' = a /\ srv' = srv
    BY <1>5 DEF RPhase2
  <2>4. \A i \in 1 .. Len(msgs) : msgs[i].tag # "shf"
    BY DEF Msg
  <2> HIDE DEF msgs
  <2>5. RelayMove("h2", msgs, "ivc")
    BY <2>1, <2>2, <2>3, <2>4 DEF RelayMove, RelayPc, ReadAt, PInv, Typed
  <2> QED
    BY <2>5, RelayMoves
<1>6. CASE ROpenIvC
  <2> DEFINE msgs == <<Msg("op", r.sapp)>>
  <2>1. Fits(msgs, Script[2], SentAt[2]["ivc"], SentAt[2]["ivs"])
    BY DEF Fits, SentAt, Script, Msg
  <2>2. \E T : msgs \in Seq(T)
    BY Listed
  <2>3. /\ Takes(R, "ivc") /\ Passes(R, msgs) /\ Goes(R, "ivs")
        /\ a' = a /\ srv' = srv
    BY <1>6 DEF ROpenIvC
  <2>4. \A i \in 1 .. Len(msgs) : msgs[i].tag # "shf"
    BY DEF Msg
  <2> HIDE DEF msgs
  <2>5. RelayMove("ivc", msgs, "ivs")
    BY <2>1, <2>2, <2>3, <2>4 DEF RelayMove, RelayPc, ReadAt, PInv, Typed
  <2> QED
    BY <2>5, RelayMoves
<1>7. CASE ROpenIvS
  <2> DEFINE msgs == <<>>
  <2>1. Fits(msgs, Script[2], SentAt[2]["ivs"], SentAt[2]["com"])
    BY DEF Fits, SentAt, Script, Msg
  <2>2. \E T : msgs \in Seq(T)
    BY Listed
  <2>3. /\ Takes(R, "ivs") /\ Passes(R, msgs) /\ Goes(R, "com")
        /\ a' = a /\ srv' = srv
    BY <1>7 DEF ROpenIvS
  <2>4. \A i \in 1 .. Len(msgs) : msgs[i].tag # "shf"
    BY DEF Msg
  <2> HIDE DEF msgs
  <2>5. RelayMove("ivs", msgs, "com")
    BY <2>1, <2>2, <2>3, <2>4 DEF RelayMove, RelayPc, ReadAt, PInv, Typed
  <2> QED
    BY <2>5, RelayMoves
<1>8. CASE RReveal
  <2> DEFINE msgs == <<Msg("tksr", r.sapp)>>
  <2>1. Fits(msgs, Script[2], SentAt[2]["com"], SentAt[2]["cf"])
    BY DEF Fits, SentAt, Script, Msg
  <2>2. \E T : msgs \in Seq(T)
    BY Listed
  <2>3. /\ Takes(R, "com") /\ Passes(R, msgs) /\ Goes(R, "cf")
        /\ a' = a /\ srv' = srv
    BY <1>8 DEF RReveal
  <2>4. \A i \in 1 .. Len(msgs) : msgs[i].tag # "shf"
    BY DEF Msg
  <2> HIDE DEF msgs
  <2>5. RelayMove("com", msgs, "cf")
    BY <2>1, <2>2, <2>3, <2>4 DEF RelayMove, RelayPc, ReadAt, PInv, Typed
  <2> QED
    BY <2>5, RelayMoves
<1>9. CASE RSegments
  <2> DEFINE msgs == <<>>
  <2>1. Fits(msgs, Script[2], SentAt[2]["seg"], SentAt[2]["tka"])
    BY DEF Fits, SentAt, Script, Msg
  <2>2. \E T : msgs \in Seq(T)
    BY Listed
  <2>3. /\ Takes(R, "seg") /\ Passes(R, msgs) /\ Goes(R, "tka")
        /\ a' = a /\ srv' = srv
    BY <1>9 DEF RSegments
  <2>4. \A i \in 1 .. Len(msgs) : msgs[i].tag # "shf"
    BY DEF Msg
  <2> HIDE DEF msgs
  <2>5. RelayMove("seg", msgs, "tka")
    BY <2>1, <2>2, <2>3, <2>4 DEF RelayMove, RelayPc, ReadAt, PInv, Typed
  <2> QED
    BY <2>5, RelayMoves
<1>10. CASE RKeyShare
  <2> DEFINE msgs == <<Msg("sim.t", r.capp),
                     Msg("op", None)>>
  <2>1. Fits(msgs, Script[2], SentAt[2]["tka"], SentAt[2]["gcm"])
    BY DEF Fits, SentAt, Script, Msg
  <2>2. \E T : msgs \in Seq(T)
    BY Listed
  <2>3. /\ Takes(R, "tka") /\ Passes(R, msgs) /\ Goes(R, "gcm")
        /\ a' = a /\ srv' = srv
    BY <1>10 DEF RKeyShare
  <2>4. \A i \in 1 .. Len(msgs) : msgs[i].tag # "shf"
    BY DEF Msg
  <2> HIDE DEF msgs
  <2>5. RelayMove("tka", msgs, "gcm")
    BY <2>1, <2>2, <2>3, <2>4 DEF RelayMove, RelayPc, ReadAt, PInv, Typed
  <2> QED
    BY <2>5, RelayMoves
<1>11. CASE RSeal
  <2> DEFINE msgs == <<Msg("op", r.capp)>>
  <2>1. Fits(msgs, Script[2], SentAt[2]["gcm"], SentAt[2]["ct"])
    BY DEF Fits, SentAt, Script, Msg
  <2>2. \E T : msgs \in Seq(T)
    BY Listed
  <2>3. /\ Takes(R, "gcm") /\ Passes(R, msgs) /\ Goes(R, "ct")
        /\ a' = a /\ srv' = srv
    BY <1>11 DEF RSeal
  <2>4. \A i \in 1 .. Len(msgs) : msgs[i].tag # "shf"
    BY DEF Msg
  <2> HIDE DEF msgs
  <2>5. RelayMove("gcm", msgs, "ct")
    BY <2>1, <2>2, <2>3, <2>4 DEF RelayMove, RelayPc, ReadAt, PInv, Typed
  <2> QED
    BY <2>5, RelayMoves
<1> QED
  BY <1>1, <1>2, <1>3, <1>4, <1>5, <1>6, <1>7, <1>8, <1>9, <1>10, <1>11


\* The agent sends without receiving: its first message, and the inputs of
\* build_query.
LEMMA AgentSends ==
    ASSUME PInv, UNCHANGED answered, AStart \/ ABuild
    PROVE  PInv'
<1>1. PICK p, p2, msgs :
        /\ \/ p = "start" /\ p2 = "zb"
           \/ p = "over" /\ p2 = "tkr"
        /\ At(A, p) /\ Goes(A, p2) /\ q' = [q EXCEPT ![A] = @ \o msgs]
        /\ \E T : msgs \in Seq(T)
        /\ Fits(msgs, Script[1], SentAt[1][p], SentAt[1][p2])
        /\ a' = a /\ srv' = srv /\ answered' = answered
  <2>1. CASE AStart
    <3> DEFINE msgs == <<Msg("za", a.k)>>
    <3>1. Fits(msgs, Script[1], SentAt[1]["start"], SentAt[1]["zb"])
      BY DEF Fits, SentAt, Script, Msg
    <3>2. \E T : msgs \in Seq(T)
      BY Listed
    <3>3. /\ At(A, "start") /\ Goes(A, "zb") /\ q' = [q EXCEPT ![A] = @ \o msgs]
          /\ a' = a /\ srv' = srv /\ answered' = answered
      BY <2>1 DEF AStart
    <3> QED
      BY <3>1, <3>2, <3>3
  <2>2. CASE ABuild
    <3> DEFINE msgs == <<Msg("sim.t", None), Msg("sim.t", a.capp)>>
    <3>1. Fits(msgs, Script[1], SentAt[1]["over"], SentAt[1]["tkr"])
      BY DEF Fits, SentAt, Script, Msg
    <3>2. \E T : msgs \in Seq(T)
      BY Listed
    <3>3. /\ At(A, "over") /\ Goes(A, "tkr") /\ q' = [q EXCEPT ![A] = @ \o msgs]
          /\ a' = a /\ srv' = srv /\ answered' = answered
      BY <2>2 DEF ABuild
    <3> QED
      BY <3>1, <3>2, <3>3
  <2> QED
    BY <2>1, <2>2
<1>2. /\ p \in AgentPc /\ p2 \in AgentPc /\ pc[A] = p /\ Alive(A)
      /\ ReadAt[1][p2] = ReadAt[1][p] /\ ReadAt[1][p] \in Nat
      /\ SentAt[1][p] \in Nat /\ SentAt[1][p2] \in Nat
  <2>1. p \in AgentPc /\ p2 \in AgentPc /\ ReadAt[1][p2] = ReadAt[1][p]
    BY <1>1 DEF AgentPc, ReadAt
  <2>2. pc[A] = p /\ Alive(A)
    BY <1>1 DEF At
  <2> QED
    BY <2>1, <2>2, Counts
<1>3. /\ pc'[A] = p2 /\ pc'[R] = pc[R] /\ fate' = fate
      /\ pc' \in [Side -> AgentPc \cup RelayPc]
  BY <1>1, <1>2, Sides DEF PInv, Typed, Goes
<1>4. /\ q'[A] = q[A] \o msgs /\ q'[R] = q[R]
      /\ q' = [t \in Side |-> q'[t]]
  BY <1>1, Sides DEF PInv, Typed
<1>5. PICK S : q[A] \in Seq(S) /\ q[R] \in Seq(S) /\ msgs \in Seq(S)
  <2>1. PICK S, T : q[A] \in Seq(S) /\ q[R] \in Seq(S) /\ msgs \in Seq(T)
    BY <1>1 DEF PInv, Typed
  <2>2. S \subseteq S \cup T /\ T \subseteq S \cup T
    OBVIOUS
  <2>3. q[A] \in Seq(S \cup T) /\ q[R] \in Seq(S \cup T) /\ msgs \in Seq(S \cup T)
    BY <2>1, <2>2, SeqMonotonic
  <2> QED
    BY <2>3
<1>6. q'[A] \in Seq(S) /\ q'[R] \in Seq(S)
  BY <1>4, <1>5, ConcatProperties
<1>7. Typed'
  BY <1>1, <1>2, <1>3, <1>4, <1>6 DEF PInv, Typed
<1>8. /\ SentBy(A) = SentAt[1][p] /\ SentBy(A)' = SentAt[1][p2]
      /\ SentBy(R)' = SentBy(R) /\ ReadBy(R)' = ReadBy(R)
      /\ ReadBy(A)' = ReadBy(A) /\ ReadBy(R) \in Nat
  BY <1>2, <1>3, Sides, CountsBy DEF PInv, SentBy, ReadBy, Alive
<1>9. Fits(q'[A], Script[1], ReadBy(R)', SentBy(A)')
  <2>1. Fits(q[A], Script[1], ReadBy(R), SentAt[1][p])
    BY <1>8 DEF PInv, Lockstep
  <2>2. Fits(q[A] \o msgs, Script[1], ReadBy(R), SentAt[1][p2])
    BY <1>1, <1>2, <1>5, <1>8, <2>1, FitsConcat
  <2> QED
    BY <1>4, <1>8, <2>2
<1>10. Vouched' = Vouched
  BY <1>1 DEF Vouched
<1>11. Lockstep'
  BY <1>1, <1>2, <1>3, <1>4, <1>8, <1>9, <1>10 DEF PInv, Lockstep, Passed
<1>12. FlightHonest'
  BY <1>1, <1>2, <1>3, <1>4 DEF PInv, FlightHonest
<1> QED
  BY <1>1, <1>7, <1>10, <1>11, <1>12 DEF PInv

\* The agent reads the server's answer: what it will look at is in it.
LEMMA AgentReadsFlight ==
    ASSUME PInv, UNCHANGED answered, AServerHello PROVE PInv'
<1> DEFINE ssk == Mul(a.k, Got(A).share)
           msgs == <<Msg("sim.t", ssk), Msg("sim.t", ssk)>>
<1>1. /\ Takes(A, "shf") /\ Passes(A, msgs) /\ Goes(A, "x2")
      /\ srv' = srv /\ answered' = answered
      /\ {"ok", "flight"} \subseteq DOMAIN a' /\ (a'.ok => Vouched)
      /\ a'.flight = Got(A)
  BY DEF AServerHello, PInv, Typed
<1> HIDE DEF ssk
<1>2. Fits(msgs, Script[1], SentAt[1]["shf"], SentAt[1]["x2"])
  BY DEF Fits, SentAt, Script, Msg
<1>3. \E T : msgs \in Seq(T)
  BY Listed
<1> HIDE DEF msgs
<1>4. Got(A).name = srv.name /\ Got(A).ca = srv.ca
  <2>1. q[R] # <<>> /\ Head(q[R]).tag = "shf" /\ Got(A) = Head(q[R]).val
    BY <1>1, Sides DEF Takes, Got, Awaits, Await
  <2>2. PICK S : q[R] \in Seq(S)
    BY DEF PInv, Typed
  <2>3. Head(q[R]) = q[R][1] /\ 1 \in 1 .. Len(q[R])
    BY <2>1, <2>2, HeadTailProperties, LenProperties, EmptySeq
  <2> QED
    BY <2>1, <2>3 DEF PInv, FlightHonest
<1>5. AgentMove("shf", msgs, "x2")
  BY <1>1, <1>2, <1>3, <1>4 DEF AgentMove, AgentTake, AgentPc, ReadAt, Passed
<1> QED
  BY <1>5, AgentMoves

\* Verification succeeds only on the provider's own name and authority.
LEMMA AgentVerifies ==
    ASSUME PInv, UNCHANGED answered, AVerify \/ ABadFlight PROVE PInv'
<1>1. CASE AVerify
  <2> DEFINE h2 == Flown(a.tr)
             msgs == <<Msg("h2", h2), Msg("op", a'.capp)>>
  <2>1. /\ Takes(A, "shts") /\ Passes(A, msgs) /\ Goes(A, "ivc")
        /\ srv' = srv
        /\ {"ok", "flight"} \subseteq DOMAIN a'
        /\ a'.flight = a.flight /\ a'.ok = Verified(OpenedShts)
    BY <1>1 DEF AVerify, PInv, Typed
  <2> HIDE DEF h2
  <2>2. Fits(msgs, Script[1], SentAt[1]["shts"], SentAt[1]["ivc"])
    BY DEF Fits, SentAt, Script, Msg
  <2>3. \E T : msgs \in Seq(T)
    BY Listed
  <2> HIDE DEF msgs
  <2>4. a.flight.name = srv.name /\ a.flight.ca = srv.ca
    BY <2>1 DEF PInv, FlightHonest, Takes, At
  <2>5. a'.ok => Vouched
    BY <2>1, <2>4 DEF Verified, Vouched
  <2>6. AgentMove("shts", msgs, "ivc")
    BY <2>1, <2>2, <2>3, <2>4, <2>5
       DEF AgentMove, AgentTake, AgentPc, ReadAt, Passed
  <2> QED
    BY <2>6, AgentMoves
<1>2. CASE ABadFlight
  <2>1. /\ A \in Side /\ Alive(A) /\ q[Peer(A)] # <<>> /\ Passes(A, <<>>)
        /\ Dies(A, "raised") /\ a' = a
        /\ answered' \in BOOLEAN /\ (answered' => Vouched)
        /\ {"name", "ca"} \subseteq DOMAIN srv'
        /\ srv'.name = srv.name /\ srv'.ca = srv.ca
    BY <1>2, Sides DEF ABadFlight, Takes, At, PInv, Typed
  <2> QED
    BY <2>1, Drops
<1> QED
  BY <1>1, <1>2

\* The agent that has verified waits for "cfok", the other one does not.
LEMMA AgentFinishes ==
    ASSUME PInv, UNCHANGED answered, AFinish \/ AConfirmed PROVE PInv'
<1>1. CASE AFinish
  <2> DEFINE cf == Rec(a.chts, 0, "hs", Finished(a.chts, a.tr))
             msgs == <<Msg("cf", cf)>>
  <2>1. /\ Takes(A, "tksr") /\ Passes(A, msgs)
        /\ Goes(A, IF a.ok THEN "cfok" ELSE "over")
        /\ srv' = srv
        /\ {"ok", "flight"} \subseteq DOMAIN a'
        /\ a'.flight = a.flight /\ (a'.ok => Vouched)
    BY <1>1 DEF AFinish, PInv, Typed
  <2> HIDE DEF cf
  <2>2. /\ Fits(msgs, Script[1], SentAt[1]["tksr"], SentAt[1]["cfok"])
        /\ Fits(msgs, Script[1], SentAt[1]["tksr"], SentAt[1]["over"])
    BY DEF Fits, SentAt, Script, Msg
  <2>3. \E T : msgs \in Seq(T)
    BY Listed
  <2> HIDE DEF msgs
  <2>4. a.flight.name = srv.name /\ a.flight.ca = srv.ca
    BY <2>1 DEF PInv, FlightHonest, Takes, At
  <2>5. CASE a.ok
    <3>1. AgentMove("tksr", msgs, "cfok")
      BY <2>1, <2>2, <2>3, <2>4, <2>5
         DEF AgentMove, AgentTake, AgentPc, ReadAt, PInv
    <3> QED
      BY <3>1, AgentMoves
  <2>6. CASE ~ a.ok
    <3>1. AgentTake("tksr", msgs, "over")
      BY <2>1, <2>2, <2>3, <2>4, <2>6 DEF AgentTake, AgentPc
    <3> QED
      BY <3>1, AgentSkips
  <2> QED
    BY <2>5, <2>6
<1>2. CASE AConfirmed
  <2>1. /\ Takes(A, "cfok") /\ Passes(A, <<>>) /\ Goes(A, "over")
        /\ srv' = srv
        /\ {"ok", "flight"} \subseteq DOMAIN a' /\ a'.flight = a.flight
    BY <1>2 DEF AConfirmed, PInv, Typed
  <2>2. Fits(<<>>, Script[1], SentAt[1]["cfok"], SentAt[1]["over"])
    BY DEF Fits, SentAt
  <2>3. Vouched
    BY <2>1, AgentInStep DEF AgentPc, Passed
  <2>4. AgentMove("cfok", <<>>, "over")
    BY <2>1, <2>2, <2>3, Listed
       DEF AgentMove, AgentTake, AgentPc, ReadAt, Passed, PInv, FlightHonest,
           Takes, At
  <2> QED
    BY <2>4, AgentMoves
<1> QED
  BY <1>1, <1>2

LEMMA AgentEnds ==
    ASSUME PInv, UNCHANGED answered, AResponse PROVE PInv'
<1>1. /\ Takes(A, "resp") /\ Passes(A, <<>>) /\ a' = a /\ srv' = srv
      /\ Goes(A, "done") \/ Dies(A, "raised")
  BY DEF AResponse
<1>2. CASE Goes(A, "done")
  <2>1. Fits(<<>>, Script[1], SentAt[1]["resp"], SentAt[1]["done"])
    BY DEF Fits, SentAt
  <2>2. Vouched
    BY <1>1, AgentInStep DEF AgentPc, Passed
  <2>3. AgentMove("resp", <<>>, "done")
    BY <1>1, <1>2, <2>1, <2>2, Listed
       DEF AgentMove, AgentTake, AgentPc, ReadAt, PInv, Typed, FlightHonest,
           Takes, At
  <2> QED
    BY <2>3, AgentMoves
<1>3. CASE Dies(A, "raised")
  <2>1. /\ A \in Side /\ Alive(A) /\ q[Peer(A)] # <<>>
        /\ answered' \in BOOLEAN /\ (answered' => Vouched)
        /\ {"name", "ca"} \subseteq DOMAIN srv'
        /\ srv'.name = srv.name /\ srv'.ca = srv.ca
    BY <1>1, Sides DEF Takes, At, PInv, Typed
  <2> QED
    BY <1>1, <1>3, <2>1, Drops
<1> QED
  BY <1>1, <1>2, <1>3

\* The provider's name and authority are set once, by TLSProvider.__init__.
LEMMA SameProvider ==
    ASSUME {"name", "ca"} \subseteq DOMAIN srv, NEW v,
           ClientHello(v) \/ ClientFinished(v) \/ Query(v)
    PROVE  /\ {"name", "ca"} \subseteq DOMAIN srv'
           /\ srv'.name = srv.name /\ srv'.ca = srv.ca
<1>1. CASE ClientHello(v)
  BY <1>1 DEF ClientHello, Greeted
<1>2. CASE ClientFinished(v)
  BY <1>2 DEF ClientFinished, Confirmed
<1>3. CASE Query(v)
  BY <1>3 DEF Query, Answered
<1> QED
  BY <1>1, <1>2, <1>3

\* The relay's two handshake calls of the provider.
LEMMA RelayCalls ==
    ASSUME PInv, UNCHANGED answered, RClientHello \/ RFinished PROVE PInv'
<1>1. CASE RClientHello
  <2> DEFINE f == Flight(srv')
             msgs == <<Msg("shf", f)>>
  <2>1. Takes(R, "ch") /\ Passes(R, msgs) /\ Goes(R, "x1") /\ a' = a
    BY <1>1 DEF RClientHello
  <2>2. /\ {"name", "ca"} \subseteq DOMAIN srv'
        /\ srv'.name = srv.name /\ srv'.ca = srv.ca
    BY <1>1, SameProvider DEF RClientHello, PInv, Typed
  <2>3. f.name = srv.name /\ f.ca = srv.ca
    BY <2>2 DEF Flight
  <2> HIDE DEF f
  <2>4. /\ Fits(msgs, Script[2], SentAt[2]["ch"], SentAt[2]["x1"])
        /\ \A i \in 1 .. Len(msgs) :
             msgs[i].val.name = srv.name /\ msgs[i].val.ca = srv.ca
    BY <2>3 DEF Fits, SentAt, Script, Msg
  <2>5. \E T : msgs \in Seq(T)
    BY Listed
  <2> HIDE DEF msgs
  <2>6. RelayMove("ch", msgs, "x1")
    BY <2>1, <2>2, <2>4, <2>5 DEF RelayMove, RelayPc, ReadAt, PInv, Typed
  <2> QED
    BY <2>6, RelayMoves
<1>2. CASE RFinished
  <2> DEFINE ok == FinishedOk(Got(R))
             msgs == <<Msg("cfok", ok)>>
  <2>1. Takes(R, "cf") /\ Passes(R, msgs) /\ Goes(R, "over") /\ a' = a
    BY <1>2 DEF RFinished
  <2>2. /\ {"name", "ca"} \subseteq DOMAIN srv'
        /\ srv'.name = srv.name /\ srv'.ca = srv.ca
    BY <1>2, SameProvider DEF RFinished, PInv, Typed
  <2> HIDE DEF ok
  <2>4. /\ Fits(msgs, Script[2], SentAt[2]["cf"], SentAt[2]["over"])
        /\ \A i \in 1 .. Len(msgs) : msgs[i].tag # "shf"
    BY DEF Fits, SentAt, Script, Msg
  <2>5. \E T : msgs \in Seq(T)
    BY Listed
  <2> HIDE DEF msgs
  <2>6. RelayMove("cf", msgs, "over")
    BY <2>1, <2>2, <2>4, <2>5 DEF RelayMove, RelayPc, ReadAt, PInv, Typed
  <2> QED
    BY <2>6, RelayMoves
<1> QED
  BY <1>1, <1>2

\* A record of the agent can only reach R after the agent has opened it,
\* and an agent that opens has read "cfok".
LEMMA RelayForwards ==
    ASSUME PInv, RForward PROVE PInv'
<1>1. /\ Takes(R, "ct") /\ a' = a
      /\ \E v : Query(v) /\ answered' = QueryAnswered(v)
      /\ \/ \E v : Passes(R, <<Msg("resp", v)>>) /\ Goes(R, "done")
         \/ Passes(R, <<>>) /\ Dies(R, "raised")
  BY DEF RForward
<1>2. /\ {"name", "ca"} \subseteq DOMAIN srv'
      /\ srv'.name = srv.name /\ srv'.ca = srv.ca
  BY <1>1, SameProvider DEF PInv, Typed
<1>3. answered' \in BOOLEAN
  BY <1>1 DEF QueryAnswered, QueryOpens, Opens
<1>4. pc[R] = "ct" /\ Alive(R) /\ q[A] # <<>>
  BY <1>1, Sides DEF Takes, At
<1>5. Vouched
  <2>1. PICK S : q[A] \in Seq(S)
    BY DEF PInv, Typed
  <2>2. Len(q[A]) \in Nat /\ Len(q[A]) > 0
    BY <1>4, <2>1, LenProperties, EmptySeq
  <2>3. ReadBy(R) = 13
    BY <1>4, Sides, CountsBy DEF PInv, ReadAt
  <2>4. SentAt[1][pc[A]] > 13 /\ pc[A] \in AgentPc
    BY <2>2, <2>3, CountsBy DEF PInv, Typed, Lockstep, Fits
  <2>5. pc[A] \in {"ct", "resp", "done"}
    BY <2>4 DEF AgentPc, SentAt
  <2> QED
    BY <2>5 DEF PInv, Lockstep, Passed
<1>6. CASE Passes(R, <<>>) /\ Dies(R, "raised")
  BY <1>1, <1>2, <1>3, <1>4, <1>5, <1>6, Sides, Drops
<1>7. ASSUME NEW v, Passes(R, <<Msg("resp", v)>>), Goes(R, "done")
      PROVE  PInv'
  <2> DEFINE msgs == <<Msg("resp", v)>>
  <2>1. /\ Fits(msgs, Script[2], SentAt[2]["ct"], SentAt[2]["done"])
        /\ \A i \in 1 .. Len(msgs) : msgs[i].tag # "shf"
    BY DEF Fits, SentAt, Script, Msg
  <2>2. Passes(R, msgs) /\ \E T : msgs \in Seq(T)
    BY <1>7, Listed
  <2> HIDE DEF msgs
  <2>3. RelayMove("ct", msgs, "done")
    BY <1>1, <1>2, <1>3, <1>5, <1>7, <2>1, <2>2
       DEF RelayMove, RelayPc, ReadAt
  <2> QED
    BY <2>3, RelayMoves
<1> QED
  BY <1>1, <1>6, <1>7

\* Desync and Expire: the thread ends where it stands.
LEMMA RecvFailsKeeps ==
    ASSUME PInv, UNCHANGED answered, NEW s \in Side, RecvFails(s)
    PROVE  PInv'
<1>1. CASE Desync(s)
  <2>1. /\ Alive(s) /\ q[Peer(s)] # <<>> /\ Passes(s, <<>>)
        /\ Dies(s, "desync") /\ a' = a
        /\ answered' \in BOOLEAN /\ (answered' => Vouched)
        /\ {"name", "ca"} \subseteq DOMAIN srv'
        /\ srv'.name = srv.name /\ srv'.ca = srv.ca
    BY <1>1 DEF Desync, Waiting, PInv, Typed
  <2> QED
    BY <2>1, Drops
<1>2. CASE Expire(s, Stopped(Peer(s)))
  <2>1. /\ Alive(s) /\ pc' = pc
        /\ \E how \in {"expired", "early"} : fate' = [fate EXCEPT ![s] = how]
        /\ q' = q /\ a' = a /\ srv' = srv /\ answered' = answered
    BY <1>2 DEF Expire, Waiting, Dies
  <2>2. Typed' /\ Vouched' = Vouched /\ FlightHonest'
    BY <2>1 DEF PInv, Typed, Vouched, FlightHonest, Fate
  <2>3. /\ SentBy(A)' = SentBy(A) /\ SentBy(R)' = SentBy(R)
        /\ ReadBy(A)' = ReadBy(A) /\ ReadBy(R)' = ReadBy(R)
    BY <2>1, Sides DEF SentBy, ReadBy, Alive, PInv, Typed
  <2>4. Lockstep'
    BY <2>1, <2>2, <2>3 DEF PInv, Lockstep
  <2> QED
    BY <2>1, <2>2, <2>4 DEF PInv
<1> QED
  BY <1>1, <1>2 DEF RecvFails

\* The relay's query starts without a message.
LEMMA RelayBuilds ==
    ASSUME PInv, UNCHANGED answered, RBuild PROVE PInv'
<1>1. /\ pc[R] = "over" /\ pc' = [pc EXCEPT ![R] = "seg"] /\ fate' = fate
      /\ q' = q /\ a' = a /\ srv' = srv /\ answered' = answered
  BY DEF RBuild, At, Goes
<1>2. pc'[R] = "seg" /\ pc'[A] = pc[A]
  BY <1>1, Sides DEF PInv, Typed
<1>3. Typed' /\ Vouched' = Vouched /\ FlightHonest'
  BY <1>1, <1>2 DEF PInv, Typed, Vouched, FlightHonest, RelayPc
<1>4. /\ SentBy(A)' = SentBy(A) /\ SentBy(R)' = SentBy(R)
      /\ ReadBy(A)' = ReadBy(A) /\ ReadBy(R)' = ReadBy(R)
  <2>1. /\ SentAt[2]["seg"] = SentAt[2]["over"]
        /\ ReadAt[2]["seg"] = ReadAt[2]["over"]
    BY DEF SentAt, ReadAt
  <2> QED
    BY <1>1, <1>2, <2>1, Sides DEF SentBy, ReadBy
<1>5. Lockstep'
  BY <1>1, <1>2, <1>3, <1>4 DEF PInv, Lockstep
<1> QED
  BY <1>1, <1>3, <1>5 DEF PInv

-----------------------------------------------------------------------------
LEMMA Start == PInit => PInv
<1> SUFFICES ASSUME PInit PROVE PInv
  OBVIOUS
<1>1. /\ pc[A] = "start" /\ pc[R] = "za"
      /\ pc \in [Side -> AgentPc \cup RelayPc]
      /\ fate[A] = "alive" /\ fate[R] = "alive" /\ fate \in [Side -> Fate]
      /\ q[A] = <<>> /\ q[R] = <<>> /\ q = [s \in Side |-> q[s]]
      /\ answered = FALSE
  BY Sides DEF PInit, Init, AgentPc, RelayPc, Fate
<1>2. {"ok", "flight"} \subseteq DOMAIN a /\ ~ a.ok
  BY DEF PInit, Init
<1>3. {"name", "ca"} \subseteq DOMAIN srv
  <2>1. PICK n \in Name, c \in CA, y \in Scalar :
          srv = Fresh(n, c, y) \/ srv = Used(n, c, y)
    BY DEF PInit, Init
  <2>2. {"name", "ca"} \subseteq DOMAIN Fresh(n, c, y)
    BY DEF Fresh
  <2>3. {"name", "ca"} \subseteq DOMAIN Greeted(Fresh(n, c, y), 0)
    BY <2>2 DEF Greeted
  <2>4. {"name", "ca"} \subseteq DOMAIN Used(n, c, y)
    BY <2>3 DEF Used, Answered, Confirmed
  <2> QED
    BY <2>1, <2>2, <2>4
<1>4. Typed
  BY <1>1, <1>2, <1>3, Listed DEF Typed, AgentPc, RelayPc
<1>5. SentBy(A) = 0 /\ SentBy(R) = 0 /\ ReadBy(A) = 0 /\ ReadBy(R) = 0
  BY <1>1, Sides DEF SentBy, ReadBy, SentAt, ReadAt
<1>6. Lockstep
  BY <1>1, <1>5 DEF Lockstep, Fits, Passed
<1>7. FlightHonest
  BY <1>1 DEF FlightHonest
<1> QED
  BY <1>1, <1>2, <1>4, <1>6, <1>7 DEF PInv

LEMMA Step == PInv /\ [PNext]_pvars => PInv'
<1> SUFFICES ASSUME PInv, [PNext]_pvars PROVE PInv'
  OBVIOUS
<1>1. CASE AStep
  <2>1. UNCHANGED answered
    BY <1>1 DEF AStep
  <2>2. CASE AHandshake
    BY <2>1, <2>2, AgentKeeps, AgentSends, AgentReadsFlight, AgentVerifies,
       AgentFinishes DEF AHandshake
  <2>3. CASE AQuery
    BY <2>1, <2>3, AgentKeeps, AgentSends, AgentEnds DEF AQuery
  <2>4. CASE RecvFails(A)
    BY <2>1, <2>4, Sides, RecvFailsKeeps
  <2> QED
    BY <1>1, <2>2, <2>3, <2>4 DEF AStep
<1>2. CASE RStep
  <2>1. CASE RForward
    BY <2>1, RelayForwards
  <2>2. CASE RHandshake /\ UNCHANGED answered
    BY <2>2, RelayKeeps, RelayCalls DEF RHandshake
  <2>3. CASE RQuery /\ UNCHANGED answered
    BY <2>3, RelayKeeps, RelayBuilds DEF RQuery
  <2>4. CASE RecvFails(R) /\ UNCHANGED answered
    BY <2>4, Sides, RecvFailsKeeps
  <2> QED
    BY <1>2, <2>1, <2>2, <2>3, <2>4 DEF RStep
<1>3. CASE UNCHANGED pvars
  BY <1>3 DEF pvars, PInv, Typed, Lockstep, FlightHonest, Vouched, SentBy, ReadBy
<1> QED
  BY <1>1, <1>2, <1>3 DEF PNext

\* In every behaviour the messages under way are the next piece of the
\* sender's script, and an agent that rejected is exactly the unread "cfok"
\* behind.
THEOREM InScript == PSpec => []Lockstep
<1>1. PInv => Lockstep
  BY DEF PInv
<1> QED
  BY Start, Step, <1>1, PTL DEF PSpec

\* No provider but the wanted one, certified by the trusted authority,
\* answers a query of the agent, although no caller looks at the verdict.
THEOREM NoMisrouting == PSpec => []AnsweredOnlyIfVerified
<1>1. PInv => AnsweredOnlyIfVerified
  BY DEF PInv, AnsweredOnlyIfVerified, Vouched
<1> QED
  BY Start, Step, <1>1, PTL DEF PSpec

-----------------------------------------------------------------------------
(***************************************************************************)
(* The main thread around the protocol run (Settlement).                   *)
(***************************************************************************)
Final == {"charged", "failed"}
Stages == {"run", "located", "checked", "returned"} \cup Final

MInv ==
    /\ PInv
    /\ answered <=> pc[R] = "done"
    /\ stage \in Stages
    /\ stage = "run" => total = Unknown
    /\ stage # "charged" => charged = Unknown
    /\ stage \in {"located", "checked", "returned"} =>
           /\ pc[A] = "done" /\ answered
           /\ total # Unknown

\* An agent that has read the response has left nothing of the relay's script.
LEMMA ReadMeansAnswered == PInv /\ pc[A] = "done" => pc[R] = "done"
<1> SUFFICES ASSUME PInv, pc[A] = "done" PROVE pc[R] = "done"
  OBVIOUS
<1>1. Typed /\ Fits(q[R], Script[2], ReadBy(A), SentBy(R))
  BY DEF PInv, Lockstep
<1>2. ReadBy(A) \in {15, 16}
  BY Sides DEF ReadBy, ReadAt
<1>3. PICK S : q[R] \in Seq(S)
  BY <1>1 DEF Typed
<1>4. Len(q[R]) \in Nat /\ Len(q[R]) = SentBy(R) - ReadBy(A)
  BY <1>1, <1>3, LenProperties DEF Fits
<1>5. SentBy(R) = SentAt[2][pc[R]] /\ SentBy(R) \in Nat /\ pc[R] \in RelayPc
  BY <1>1, CountsBy DEF Typed
<1>6. SentAt[2][pc[R]] >= 15
  BY <1>2, <1>4, <1>5
<1> QED
  BY <1>5, <1>6 DEF RelayPc, SentAt

(***************************************************************************)
(* What a step of the two parties does to the run AppRun sees.             *)
(***************************************************************************)
Quiet == /\ answered' = answered
         /\ pc'[A] = "done" <=> pc[A] = "done"
         /\ pc'[R] = "done" <=> pc[R] = "done"
Reads == /\ answered' = answered
         /\ pc[A] # "done" /\ pc'[A] = "done"
         /\ pc'[R] = pc[R]
Serves == /\ ~ answered /\ answered' /\ Vouched
          /\ pc'[A] = pc[A]
          /\ pc[R] # "done" /\ pc'[R] = "done"

LEMMA AgentVisible ==
    ASSUME Typed, AStep PROVE (Quiet \/ Reads) /\ srv' = srv
<1> USE Sides
<1>1. answered' = answered
  BY DEF AStep
<1>2. CASE AHandshake
  BY <1>1, <1>2
     DEF AHandshake, AStart, AHello, AServerHello, AInputX, AInputY, AInverse,
         AOpenChts, AVerify, ABadFlight, AOpenIvC, ACommit, AFinish,
         AConfirmed, Takes, At, Goes, Dies, Quiet, Typed
<1>3. CASE AQuery
  BY <1>1, <1>3
     DEF AQuery, ABuild, AKeyShare, ASeal, AOpenRecord, AResponse,
         Takes, At, Goes, Dies, Quiet, Reads, Typed
<1>4. CASE RecvFails(A)
  BY <1>1, <1>4 DEF RecvFails, Desync, Expire, Dies, Quiet
<1> QED
  BY <1>2, <1>3, <1>4 DEF AStep

LEMMA RelayVisible ==
    ASSUME PInv, RStep, answered <=> pc[R] = "done"
    PROVE  /\ Quiet \/ Serves
           /\ srv'.name = srv.name /\ srv'.ca = srv.ca
<1> USE Sides
<1>1. Typed
  BY DEF PInv
<1>2. CASE RForward
  <2>1. PInv'
    BY <1>2, RelayForwards
  <2>2. PICK v : Query(v) /\ answered' = QueryAnswered(v)
    BY <1>2 DEF RForward
  <2>3. srv'.name = srv.name /\ srv'.ca = srv.ca
    BY <1>1, <2>2, SameProvider DEF Typed
  <2>4. pc[R] = "ct" /\ ~ answered
    BY <1>2 DEF RForward, Takes, At
  <2>5. \/ answered' /\ Goes(R, "done")
        \/ ~ answered' /\ Dies(R, "raised")
    BY <1>2 DEF RForward
  <2>6. CASE answered' /\ Goes(R, "done")
    <3>1. pc'[R] = "done" /\ pc'[A] = pc[A]
      BY <1>1, <2>6 DEF Goes, Typed
    <3>2. Vouched
      BY <2>1, <2>3, <2>6 DEF PInv, Vouched
    <3> QED
      BY <2>3, <2>4, <2>6, <3>1, <3>2 DEF Serves
  <2>7. CASE ~ answered' /\ Dies(R, "raised")
    <3>1. answered \in BOOLEAN /\ answered' \in BOOLEAN
      BY <1>1, <2>1 DEF Typed, PInv
    <3> QED
      BY <2>3, <2>4, <2>7, <3>1 DEF Quiet, Dies
  <2> QED
    BY <2>5, <2>6, <2>7
<1>3. CASE RHandshake /\ UNCHANGED answered
  <2>1. Quiet
    BY <1>1, <1>3
       DEF RHandshake, RShare, RClientHello, RInputX, RInputY, RRelease,
           RPhase2, ROpenIvC, ROpenIvS, RReveal, RFinished,
           Takes, At, Goes, Quiet, Typed
  <2>2. srv' = srv \/ \E v : ClientHello(v) \/ ClientFinished(v)
    BY <1>3 DEF RHandshake, RShare, RClientHello, RInputX, RInputY, RRelease,
                RPhase2, ROpenIvC, ROpenIvS, RReveal, RFinished
  <2> QED
    BY <1>1, <2>1, <2>2, SameProvider DEF Typed
<1>4. CASE RQuery /\ UNCHANGED answered
  BY <1>1, <1>4 DEF RQuery, RBuild, RSegments, RKeyShare, RSeal,
                    Takes, At, Goes, Quiet, Typed
<1>5. CASE RecvFails(R) /\ UNCHANGED answered
  BY <1>5 DEF RecvFails, Desync, Expire, Dies, Quiet
<1> QED
  BY <1>2, <1>3, <1>4, <1>5 DEF RStep

LEMMA Visible ==
    ASSUME MInv, PNext
    PROVE  /\ Quiet \/ Reads \/ Serves
           /\ Vouched' = Vouched
           /\ PInv'
           /\ answered' <=> pc'[R] = "done"
<1>1. PInv'
  BY Step DEF MInv
<1>2. CASE AStep
  <2>1. (Quiet \/ Reads) /\ srv' = srv
    BY <1>2, AgentVisible DEF MInv, PInv
  <2> QED
    BY <1>1, <2>1 DEF MInv, Quiet, Reads, Vouched
<1>3. CASE RStep
  <2>1. (Quiet \/ Serves) /\ srv'.name = srv.name /\ srv'.ca = srv.ca
    BY <1>3, RelayVisible DEF MInv
  <2> QED
    BY <1>1, <2>1 DEF MInv, Quiet, Serves, Vouched
<1> QED
  BY <1>2, <1>3 DEF PNext

-----------------------------------------------------------------------------
(***************************************************************************)
(* The invariant of the main thread.                                       *)
(***************************************************************************)
LEMMA MainStart == SInit => MInv
<1>1. SInit => PInv
  BY Start DEF SInit
<1>2. SInit => pc[R] = "za" /\ answered = FALSE
  BY Sides DEF SInit, PInit, Init
<1> QED
  BY <1>1, <1>2 DEF SInit, MInv, Stages, Final

LEMMA TotalsKnown == \A n \in Totals : n # Unknown
BY SettlementAssumption DEF Unknown

LEMMA MainStep == MInv /\ [SNext]_allvars => MInv'
<1> SUFFICES ASSUME MInv, [SNext]_allvars PROVE MInv'
  OBVIOUS
<1>1. CASE PNext /\ UNCHANGED mvars
  BY <1>1, Visible DEF MInv, Quiet, Reads, Serves, mvars
<1>2. CASE Main
  <2>1. UNCHANGED pvars
    BY <1>2 DEF Main, Locate, VerifyHonest, VerifyForged, Charge
  <2>2. PInv'
    BY <2>1, Step DEF MInv
  <2>3. answered' = answered /\ pc' = pc
    BY <2>1 DEF pvars
  <2>4. CASE Locate
    BY <2>2, <2>3, <2>4, TotalsKnown
       DEF Locate, Fails, MInv, Stages, Final
  <2>5. CASE VerifyHonest
    BY <2>2, <2>3, <2>5 DEF VerifyHonest, TimesOut, MInv, Stages, Final
  <2>6. CASE VerifyForged
    BY <2>2, <2>3, <2>6
       DEF VerifyForged, Fails, TimesOut, MInv, Stages, Final
  <2>7. CASE Charge
    BY <2>2, <2>3, <2>7 DEF Charge, Fails, MInv, Stages, Final
  <2> QED
    BY <1>2, <2>4, <2>5, <2>6, <2>7 DEF Main
<1>3. CASE JoinsExpire
  <2>1. UNCHANGED pvars
    BY <1>3 DEF JoinsExpire
  <2>2. PInv'
    BY <2>1, Step DEF MInv
  <2> QED
    BY <1>3, <2>1, <2>2 DEF JoinsExpire, TimesOut, pvars, MInv, Stages, Final
<1>4. CASE UNCHANGED allvars
  <2>1. UNCHANGED pvars /\ UNCHANGED mvars
    BY <1>4 DEF allvars
  <2>2. PInv'
    BY <2>1, Step DEF MInv
  <2> QED
    BY <2>1, <2>2 DEF pvars, mvars, MInv
<1> QED
  BY <1>1, <1>2, <1>3, <1>4 DEF SNext

-----------------------------------------------------------------------------
(***************************************************************************)
(* The refinement.                                                         *)
(***************************************************************************)
LEMMA AppStart == SInit => App!Init
<1>1. SInit => answered = FALSE /\ stage = "run" /\ total = Unknown
               /\ charged = Unknown
  BY DEF SInit, PInit
<1> QED
  BY <1>1 DEF App!Init, Phase

LEMMA AppParties ==
    ASSUME MInv, PNext, UNCHANGED mvars
    PROVE  [App!Next]_App!appvars
<1>1. /\ stage' = stage /\ total' = total /\ charged' = charged
      /\ Vouched' = Vouched
  BY Visible DEF mvars
<1>2. CASE stage \in Final
  BY <1>1, <1>2 DEF App!appvars, Phase, Final
<1>3. CASE stage \notin Final /\ Quiet
  BY <1>1, <1>3 DEF App!appvars, Phase, Final, Quiet
<1>4. CASE stage \notin Final /\ Reads
  <2>0. (PInv /\ pc[A] = "done" => pc[R] = "done")'
    BY ReadMeansAnswered, PTL
  <2>1. answered
    BY <1>4, <2>0, Visible DEF MInv, Reads
  <2>2. Phase = "answered" /\ Phase' = "delivered"
    BY <1>1, <1>4, <2>1 DEF Phase, Final, Reads
  <2> QED
    BY <1>1, <2>2 DEF App!Next, App!Deliver
<1>5. CASE stage \notin Final /\ Serves
  <2>1. pc[A] # "done"
    BY <1>5, ReadMeansAnswered DEF MInv, Serves
  <2>2. Phase = "open" /\ Phase' = "answered"
    BY <1>1, <1>5, <2>1 DEF Phase, Final, Serves
  <2> QED
    BY <1>1, <1>5, <2>2 DEF App!Next, App!Answer, Serves
<1> QED
  BY <1>2, <1>3, <1>4, <1>5, Visible

LEMMA AppMain ==
    ASSUME MInv, Main \/ JoinsExpire
    PROVE  [App!Next]_App!appvars
<1>1. UNCHANGED pvars
  BY DEF Main, Locate, VerifyHonest, VerifyForged, Charge, JoinsExpire
<1>2. answered' = answered /\ pc' = pc /\ Vouched' = Vouched
  BY <1>1 DEF pvars, Vouched
<1>3. stage \notin Final =>
          /\ Phase \in {"open", "answered", "delivered"}
          /\ answered /\ pc[A] = "done" => Phase = "delivered"
  BY DEF Phase, Final
<1>4. ASSUME stage \notin Final, Fails \/ TimesOut PROVE App!Next
  <2>1. Phase' = "failed" /\ total' = total /\ charged' = charged
    BY <1>4 DEF Fails, TimesOut, Phase
  <2> QED
    BY <1>2, <1>3, <1>4, <2>1 DEF App!Next, App!Fail
<1>5. CASE Locate
  <2>1. CASE Fails
    BY <1>4, <1>5, <2>1 DEF Locate, Final
  <2>2. CASE ~ Fails
    <3>1. /\ pc[A] = "done" /\ pc[R] = "done" /\ stage = "run"
          /\ stage' = "located" /\ total' \in Totals /\ charged' = charged
      BY <1>5, <2>2 DEF Locate
    <3>2. total = Unknown /\ total' # Unknown /\ answered
      BY <3>1, TotalsKnown DEF MInv
    <3>3. Phase = "delivered" /\ Phase' = "delivered"
      BY <1>2, <3>1, <3>2 DEF Phase
    <3> QED
      BY <1>2, <3>1, <3>2, <3>3 DEF App!Next, App!Read
  <2> QED
    BY <2>1, <2>2
<1>6. CASE VerifyHonest
  <2>1. CASE TimesOut
    BY <1>4, <1>6, <2>1 DEF VerifyHonest, Final
  <2>2. CASE ~ TimesOut
    <3>1. stage = "located" /\ stage' = "checked" /\ total' = total
          /\ charged' = charged
      BY <1>6, <2>2 DEF VerifyHonest
    <3>2. Phase' = Phase
      BY <1>2, <3>1 DEF Phase
    <3> QED
      BY <1>2, <3>1, <3>2 DEF App!appvars
  <2> QED
    BY <2>1, <2>2
<1>7. CASE VerifyForged
  <2>1. CASE Fails \/ TimesOut
    BY <1>4, <1>7, <2>1 DEF VerifyForged, Final
  <2>2. CASE ~ (Fails \/ TimesOut)
    <3>1. stage = "checked" /\ stage' = "returned" /\ total' = total
          /\ charged' = charged
      BY <1>7, <2>2 DEF VerifyForged
    <3>2. Phase' = Phase
      BY <1>2, <3>1 DEF Phase
    <3> QED
      BY <1>2, <3>1, <3>2 DEF App!appvars
  <2> QED
    BY <2>1, <2>2
<1>8. CASE Charge
  <2>1. CASE Fails
    BY <1>4, <1>8, <2>1 DEF Charge, Final
  <2>2. CASE ~ Fails
    <3>1. /\ stage = "returned" /\ stage' = "charged"
          /\ total' = total /\ charged' = total
      BY <1>8, <2>2 DEF Charge
    <3>2. total # Unknown /\ Phase = "delivered" /\ Phase' = "charged"
      BY <3>1 DEF MInv, Phase
    <3> QED
      BY <1>2, <3>1, <3>2 DEF App!Next, App!Charge
  <2> QED
    BY <2>1, <2>2
<1>9. CASE JoinsExpire
  BY <1>4, <1>9 DEF JoinsExpire, Final
<1> QED
  BY <1>5, <1>6, <1>7, <1>8, <1>9 DEF Main

LEMMA AppStep == MInv /\ [SNext]_allvars => [App!Next]_App!appvars
<1>1. ASSUME UNCHANGED allvars PROVE UNCHANGED App!appvars
  BY <1>1 DEF allvars, pvars, mvars, App!appvars, Phase, Vouched
<1> QED
  BY <1>1, AppParties, AppMain DEF SNext

\* The agent is charged at most once, and only for the number in an answer
\* that a provider it trusts gave and that it has read: the handshake, the
\* query, the verifications and the charge implement AppRun.
THEOREM RunsAsPromised == SSpec => ImplementsApp
<1>1. SSpec => App!Spec
  BY AppStart, AppStep, MainStart, MainStep, PTL DEF SSpec, App!Spec
<1> QED
  BY <1>1 DEF ImplementsApp

\* With the main thread around it, the pipeline still runs as PSpec says.
THEOREM RunsPipeline == SSpec => PSpec
<1>1. SInit => PInit
  BY DEF SInit
<1>2. [SNext]_allvars => [PNext]_pvars
  BY DEF SNext, Main, Locate, VerifyHonest, VerifyForged, Charge, JoinsExpire,
         allvars
<1> QED
  BY <1>1, <1>2, PTL DEF SSpec, PSpec

\* The messages under way stay in step, and only the wanted provider answers,
\* in every application run.
THEOREM RunInStep == SSpec => []Lockstep /\ []AnsweredOnlyIfVerified
BY RunsPipeline, InScript, NoMisrouting, PTL

-----------------------------------------------------------------------------
(***************************************************************************)
(* Every value under way is a function of fields that its sender sets once *)
(* and for all: the hello, the ECtF output, the transcript CH..SF.         *)
(***************************************************************************)
HsOf == <<CH(a.cks), SH(a.flight.share)>>
SfOf == Flown(HsOf)
AgentCapp == CappOf(a.x, SfOf)
AgentSapp == SappOf(a.x, SfOf)
RelayCapp == CappOf(r.x, r.h2)
RelaySapp == SappOf(r.x, r.h2)

\* What both parties have said, or are going to say, of keys.
AgentWords == [h2 |-> SfOf, capp |-> AgentCapp, sapp |-> AgentSapp,
               cf |-> Rec(a.chts, 0, "hs", Finished(a.chts, SfOf)),
               opened |-> a.capp]
RelayWords == [chts |-> ChtsOf(r.x, r.tr), capp |-> RelayCapp,
               sapp |-> RelaySapp, reveal |-> r.sapp, ok |-> r.ok,
               tk |-> a.tk]

\* The value v of the k-th message of the agent, of the relay.
TellA(k, v, w) ==
    /\ k = 6 => v = w.h2
    /\ k = 7 => v = w.capp
    /\ k \in {8, 9} => v = w.sapp
    /\ k = 10 => v = w.cf
    /\ k = 14 => v = w.opened
TellR(k, v, w) ==
    /\ k = 6 => v = w.chts
    /\ k = 8 => v = w.capp
    /\ k = 9 => v = w.sapp
    /\ k = 10 => v = w.reveal
    /\ k = 11 => v = w.ok
    /\ k = 15 => Opens(v, w.tk, 0)
Tell(s, k, v, w) == IF s = A THEN TellA(k, v, w) ELSE TellR(k, v, w)

\* seq holds the last of the m messages of side s.
Say(s, seq, m, w) ==
    \A i \in 1 .. Len(seq) : Tell(s, (m - Len(seq)) + i, seq[i].val, w)

AgentSaid == Say(A, q[A], SentBy(A), AgentWords)
RelaySaid == Say(R, q[R], SentBy(R), RelayWords)

\* Control points after a joint opening, from the last one backwards.
ASigned == {"cfok", "over", "tkr", "gcm", "ct", "resp", "done"}
ACommitted == {"tksr"} \cup ASigned
AOpenedC == {"ivs"} \cup ACommitted
APhase2 == {"ivc"} \cup AOpenedC
AOpenedH == {"shts"} \cup APhase2

ROver2 == {"over", "seg", "tka", "gcm", "ct", "done"}
RHolds == {"cf"} \cup ROver2
ROpenedS == {"com"} \cup RHolds
ROpenedC == {"ivs"} \cup ROpenedS
RPhase2Pc == {"ivc"} \cup ROpenedC

AgentKnows ==
    /\ pc[A] \in {"x2", "y2", "dx", "chts", "shts"} => a.tr = HsOf
    /\ pc[A] \in {"ivc", "ivs", "tksr"} => a.tr = SfOf
    /\ pc[A] \in ASigned => a.tr = Append(SfOf, CF)
    /\ pc[A] \in AOpenedH => a.chts = Open(ChtsOf(a.x, HsOf), ChtsOf(r.x, r.tr))
    /\ pc[A] = "ivc" => a.capp = AgentCapp
    /\ pc[A] \in AOpenedC => a.capp = Open(AgentCapp, RelayCapp)
    /\ pc[A] \in {"ivc", "ivs"} => a.sapp = AgentSapp
    /\ pc[A] \in ACommitted => /\ a.sapp = Open(AgentSapp, RelaySapp)
                               /\ a.com = AgentSapp
    /\ pc[A] \in ASigned => a.tk = Open(a.com, r.sapp)
    /\ pc[A] \notin ASigned => a.tk = None
    /\ pc[A] \in ASigned \ {"cfok"} /\ a.ok => r.ok

RelayKnows ==
    /\ pc[R] \in RPhase2Pc => r.h2 = SfOf
    /\ pc[R] = "ivc" => r.capp = RelayCapp
    /\ pc[R] \in ROpenedC => r.capp = Open(RelayCapp, AgentCapp)
    /\ pc[R] \in {"ivc", "ivs"} => r.sapp = RelaySapp
    /\ pc[R] \in ROpenedS => r.sapp = Open(RelaySapp, AgentSapp)
    /\ pc[R] \in RHolds => r.com = AgentSapp
    /\ r.ok => /\ pc[R] \in ROver2
               /\ srv.established /\ srv.chts = a.chts /\ srv.sfTr = SfOf
               /\ srv.transcript = Append(srv.sfTr, CF)

ProviderKnows ==
    /\ srv.established => srv.hello
    /\ srv.hello => /\ srv.chts = ChtsOf(srv.chts.x, srv.chts.tr)
                    /\ srv.capp = CappOf(srv.chts.x, srv.sfTr)
                    /\ srv.sapp = SappOf(srv.chts.x, srv.sfTr)
    /\ pc[R] \in {"x1", "y1", "dx", "h2", "ivc", "ivs", "com", "cf"} =>
           srv.transcript = srv.sfTr
    /\ Alive(R) /\ pc[R] # "done" => srv.seqC = srv.seqS

AgentFields == {"k", "cks", "ssk", "x", "tr", "flight", "peer", "chts",
                "shts", "capp", "sapp", "tk", "com", "ok"}
RelayFields == {"k", "cks", "ssk", "x", "tr", "h2", "peer", "capp", "sapp",
                "com", "ok"}
ServerFields == {"name", "ca", "y", "transcript", "sfTr", "chts", "shts",
                 "capp", "sapp", "hsSeqS", "hsSeqC", "seqC", "seqS", "hello",
                 "established"}

Fielded ==
    /\ AgentFields \subseteq DOMAIN a
    /\ RelayFields \subseteq DOMAIN r
    /\ ServerFields \subseteq DOMAIN srv

KInv ==
    /\ Fielded
    /\ AgentSaid /\ RelaySaid
    /\ AgentKnows /\ RelayKnows /\ ProviderKnows

-----------------------------------------------------------------------------
(***************************************************************************)
(* How far the parties can be apart, from the lengths of the two queues.   *)
(***************************************************************************)
LEMMA Gap ==
    ASSUME NEW len \in Nat, NEW said \in Nat, NEW read \in Nat, NEW by,
           by = read \/ by = read + 1
    PROVE  /\ len = said - by => read <= said
           /\ len = said - (by - 1) => read - 1 <= said
OBVIOUS

LEMMA Behind ==
    ASSUME PInv
    PROVE  /\ ReadAt[2][pc[R]] <= SentAt[1][pc[A]]
           /\ \/ ReadAt[1][pc[A]] <= SentAt[2][pc[R]]
              \/ /\ pc[A] \in {"over", "tkr"}
                 /\ ReadAt[1][pc[A]] - 1 <= SentAt[2][pc[R]]
<1>1. PICK S : q[A] \in Seq(S) /\ q[R] \in Seq(S)
  BY DEF PInv, Typed
<1>2. Len(q[A]) \in Nat /\ Len(q[R]) \in Nat
  BY <1>1, LenProperties
<1>3. /\ SentBy(A) = SentAt[1][pc[A]] /\ SentBy(R) = SentAt[2][pc[R]]
      /\ SentAt[1][pc[A]] \in Nat /\ SentAt[2][pc[R]] \in Nat
      /\ ReadAt[1][pc[A]] \in Nat /\ ReadAt[2][pc[R]] \in Nat
      /\ \/ ReadBy(A) = ReadAt[1][pc[A]]
         \/ ReadBy(A) = ReadAt[1][pc[A]] + 1
      /\ \/ ReadBy(R) = ReadAt[2][pc[R]]
         \/ ReadBy(R) = ReadAt[2][pc[R]] + 1
  BY Counts, CountsBy, Sides DEF PInv, Typed, ReadBy
<1>4. /\ Len(q[A]) = SentBy(A) - ReadBy(R)
      /\ \/ Len(q[R]) = SentBy(R) - ReadBy(A)
         \/ pc[A] \in {"over", "tkr"} /\ Len(q[R]) = SentBy(R) - (ReadBy(A) - 1)
  BY DEF PInv, Lockstep, Fits
<1>5. ReadAt[2][pc[R]] <= SentAt[1][pc[A]]
  BY <1>2, <1>3, <1>4, Gap
<1>6. CASE Len(q[R]) = SentBy(R) - ReadBy(A)
  <2>1. ReadAt[1][pc[A]] <= SentAt[2][pc[R]]
    BY <1>2, <1>3, <1>6, Gap
  <2> QED
    BY <1>5, <2>1
<1>7. CASE /\ pc[A] \in {"over", "tkr"}
           /\ Len(q[R]) = SentBy(R) - (ReadBy(A) - 1)
  <2>1. ReadAt[1][pc[A]] - 1 <= SentAt[2][pc[R]]
    BY <1>2, <1>3, <1>7, Gap
  <2> QED
    BY <1>5, <1>7, <2>1
<1> QED
  BY <1>4, <1>6, <1>7

LEMMA Order ==
    ASSUME PInv
    PROVE  /\ pc[A] \notin APhase2 => pc[R] \notin RPhase2Pc
           /\ pc[A] \notin {"ct", "resp", "done"} => pc[R] # "done"
           /\ pc[R] \in {"za", "ch", "x1", "y1"} => pc[A] \notin AOpenedH
           /\ pc[R] \in {"za", "ch", "x1", "y1", "dx", "h2"} =>
                  pc[A] \notin AOpenedC
           /\ pc[R] \notin RHolds => pc[A] \notin ASigned
           /\ pc[R] \in ROver2 => pc[A] \in ASigned
<1>1. pc[A] \in AgentPc /\ pc[R] \in RelayPc
  BY DEF PInv, Typed
<1>2. ASSUME pc[A] \notin APhase2 PROVE pc[R] \notin RPhase2Pc
  <2>1. SentAt[1][pc[A]] <= 5
    BY <1>1, <1>2 DEF AgentPc, APhase2, AOpenedC, ACommitted, ASigned, SentAt
  <2>2. pc[R] \in RPhase2Pc => ReadAt[2][pc[R]] >= 6
    BY DEF RPhase2Pc, ROpenedC, ROpenedS, RHolds, ROver2, ReadAt
  <2> QED
    BY <1>1, <2>1, <2>2, Behind, Counts
<1>3. ASSUME pc[A] \notin {"ct", "resp", "done"} PROVE pc[R] # "done"
  <2>1. SentAt[1][pc[A]] <= 13
    BY <1>1, <1>3 DEF AgentPc, SentAt
  <2>2. pc[R] = "done" => ReadAt[2][pc[R]] = 14
    BY DEF ReadAt
  <2> QED
    BY <1>1, <2>1, <2>2, Behind, Counts
<1>4. ASSUME pc[R] \in {"za", "ch", "x1", "y1"}
      PROVE  pc[A] \notin AOpenedH
  <2>1. SentAt[2][pc[R]] <= 2
    BY <1>4 DEF SentAt
  <2>2. pc[A] \in AOpenedH => ReadAt[1][pc[A]] >= 6
    BY DEF AOpenedH, APhase2, AOpenedC, ACommitted, ASigned, ReadAt
  <2> QED
    BY <1>1, <2>1, <2>2, Behind, Counts
<1>5. ASSUME pc[R] \in {"za", "ch", "x1", "y1", "dx", "h2"}
      PROVE  pc[A] \notin AOpenedC
  <2>1. SentAt[2][pc[R]] <= 7
    BY <1>5 DEF SentAt
  <2>2. /\ pc[A] \in AOpenedC => ReadAt[1][pc[A]] >= 8
        /\ pc[A] \in {"over", "tkr"} => ReadAt[1][pc[A]] = 11
    BY DEF AOpenedC, ACommitted, ASigned, ReadAt
  <2> QED
    BY <1>1, <2>1, <2>2, Behind, Counts
<1>6. ASSUME pc[R] \notin RHolds PROVE pc[A] \notin ASigned
  <2>1. SentAt[2][pc[R]] <= 9
    BY <1>1, <1>6 DEF RelayPc, RHolds, ROver2, SentAt
  <2>2. /\ pc[A] \in ASigned => ReadAt[1][pc[A]] >= 10
        /\ pc[A] \in {"over", "tkr"} => ReadAt[1][pc[A]] = 11
    BY DEF ASigned, ReadAt
  <2> QED
    BY <1>1, <2>1, <2>2, Behind, Counts
<1>7. ASSUME pc[R] \in ROver2 PROVE pc[A] \in ASigned
  <2>1. ReadAt[2][pc[R]] >= 10
    BY <1>7 DEF ROver2, ReadAt
  <2>2. pc[A] \notin ASigned => SentAt[1][pc[A]] <= 9
    BY <1>1 DEF AgentPc, ASigned, SentAt
  <2> QED
    BY <1>1, <2>1, <2>2, Behind, Counts
<1> QED
  BY <1>2, <1>3, <1>4, <1>5, <1>6, <1>7

-----------------------------------------------------------------------------
(***************************************************************************)
(* The message at the head of a queue is the next one its sender said.     *)
(***************************************************************************)
LEMMA AgentHears ==
    ASSUME PInv, RelaySaid, NEW p \in AgentPc \ {"start", "over", "done"},
           Takes(A, p)
    PROVE  TellR(ReadAt[1][p] + 1, Got(A), RelayWords)
<1>1. PICK S : q[R] \in Seq(S)
  BY DEF PInv, Typed
<1>2. /\ q[R] # <<>> /\ Got(A) = Head(q[R]).val
  BY Sides DEF Takes, Got
<1>3. /\ Len(q[R]) \in Nat /\ 1 \in 1 .. Len(q[R]) /\ Head(q[R]) = q[R][1]
  BY <1>1, <1>2, HeadTailProperties, LenProperties, EmptySeq
<1>4. Len(q[R]) = SentBy(R) - ReadAt[1][p]
  BY AgentInStep DEF Fits
<1>5. SentBy(R) \in Nat /\ ReadAt[1][p] \in Nat
  BY CountsBy, Counts DEF PInv
<1>6. (SentBy(R) - Len(q[R])) + 1 = ReadAt[1][p] + 1
  BY <1>3, <1>4, <1>5
<1> QED
  BY <1>2, <1>3, <1>6, Sides DEF RelaySaid, Say, Tell

LEMMA RelayHears ==
    ASSUME PInv, AgentSaid, NEW p \in RelayPc, Takes(R, p)
    PROVE  TellA(ReadAt[2][p] + 1, Got(R), AgentWords)
<1>1. PICK S : q[A] \in Seq(S)
  BY DEF PInv, Typed
<1>2. /\ q[A] # <<>> /\ Got(R) = Head(q[A]).val
      /\ pc[R] = p /\ Alive(R)
  BY Sides DEF Takes, Got, At
<1>3. /\ Len(q[A]) \in Nat /\ 1 \in 1 .. Len(q[A]) /\ Head(q[A]) = q[A][1]
  BY <1>1, <1>2, HeadTailProperties, LenProperties, EmptySeq
<1>4. SentBy(A) \in Nat /\ ReadAt[2][p] \in Nat /\ ReadBy(R) = ReadAt[2][p]
  BY <1>2, CountsBy, Counts DEF PInv
<1>5. Len(q[A]) = SentBy(A) - ReadAt[2][p]
  BY <1>4 DEF PInv, Lockstep, Fits
<1>6. (SentBy(A) - Len(q[A])) + 1 = ReadAt[2][p] + 1
  BY <1>3, <1>4, <1>5
<1> QED
  BY <1>2, <1>3, <1>6 DEF AgentSaid, Say, Tell

-----------------------------------------------------------------------------
(***************************************************************************)
(* What is said stays said.                                                *)
(***************************************************************************)
LEMMA SayTail ==
    ASSUME NEW s, NEW S, NEW seq \in Seq(S), seq # <<>>, NEW m \in Nat, NEW w,
           Say(s, seq, m, w)
    PROVE  Say(s, Tail(seq), m, w)
<1>1. /\ Len(seq) \in Nat /\ Len(Tail(seq)) = Len(seq) - 1
      /\ \A i \in 1 .. Len(Tail(seq)) : Tail(seq)[i] = seq[i + 1]
  BY HeadTailProperties, LenProperties, EmptySeq
<1>2. ASSUME NEW i \in 1 .. Len(Tail(seq))
      PROVE  Tell(s, (m - Len(Tail(seq))) + i, Tail(seq)[i].val, w)
  <2>1. /\ i + 1 \in 1 .. Len(seq) /\ Tail(seq)[i] = seq[i + 1]
        /\ (m - Len(Tail(seq))) + i = (m - Len(seq)) + (i + 1)
    BY <1>1
  <2> QED
    BY <2>1 DEF Say
<1> QED
  BY <1>2 DEF Say

LEMMA SayConcat ==
    ASSUME NEW s, NEW S, NEW seq \in Seq(S), NEW msgs \in Seq(S),
           NEW m \in Nat, NEW w, Say(s, seq, m, w),
           \A i \in 1 .. Len(msgs) : Tell(s, m + i, msgs[i].val, w)
    PROVE  Say(s, seq \o msgs, m + Len(msgs), w)
<1>1. /\ Len(seq) \in Nat /\ Len(msgs) \in Nat
      /\ Len(seq \o msgs) = Len(seq) + Len(msgs)
      /\ \A i \in 1 .. Len(seq) + Len(msgs) :
           (seq \o msgs)[i] = IF i <= Len(seq) THEN seq[i]
                                               ELSE msgs[i - Len(seq)]
  BY ConcatProperties, LenProperties
<1>2. ASSUME NEW i \in 1 .. Len(seq) + Len(msgs)
      PROVE  Tell(s, ((m + Len(msgs)) - (Len(seq) + Len(msgs))) + i,
                  (seq \o msgs)[i].val, w)
  <2>1. ((m + Len(msgs)) - (Len(seq) + Len(msgs))) + i = (m - Len(seq)) + i
    BY <1>1
  <2>2. CASE i <= Len(seq)
    BY <1>1, <2>1, <2>2 DEF Say
  <2>3. CASE i > Len(seq)
    <3>1. /\ i - Len(seq) \in 1 .. Len(msgs)
          /\ (m - Len(seq)) + i = m + (i - Len(seq))
          /\ (seq \o msgs)[i] = msgs[i - Len(seq)]
      BY <1>1, <2>3
    <3> QED
      BY <2>1, <3>1
  <2> QED
    BY <1>1, <2>2, <2>3
<1> QED
  BY <1>1, <1>2 DEF Say

LEMMA SayWords ==
    ASSUME NEW s, NEW S, NEW seq \in Seq(S), NEW m \in Nat, Len(seq) <= m,
           NEW w, NEW w2, Say(s, seq, m, w),
           \A k \in 1 .. m : \A v : Tell(s, k, v, w) => Tell(s, k, v, w2)
    PROVE  Say(s, seq, m, w2)
<1> SUFFICES ASSUME NEW i \in 1 .. Len(seq)
             PROVE  Tell(s, (m - Len(seq)) + i, seq[i].val, w2)
  BY DEF Say
<1>1. Len(seq) \in Nat
  BY LenProperties
<1>2. (m - Len(seq)) + i \in 1 .. m
  BY <1>1
<1> QED
  BY <1>2 DEF Say

LEMMA Lengths ==
    ASSUME PInv
    PROVE  /\ SentBy(A) = SentAt[1][pc[A]] /\ SentBy(A) \in Nat
           /\ SentBy(R) = SentAt[2][pc[R]] /\ SentBy(R) \in Nat
           /\ Len(q[A]) <= SentBy(A) /\ Len(q[R]) <= SentBy(R)
<1>1. /\ SentBy(A) = SentAt[1][pc[A]] /\ SentBy(A) \in Nat
      /\ SentBy(R) = SentAt[2][pc[R]] /\ SentBy(R) \in Nat
      /\ ReadBy(A) \in Nat /\ ReadBy(R) \in Nat
      /\ pc[A] \in {"over", "tkr"} => ReadBy(A) - 1 \in Nat
  <2>1. pc[A] \in {"over", "tkr"} => ReadBy(A) - 1 \in Nat
    BY Sides DEF ReadBy, ReadAt
  <2> QED
    BY <2>1, CountsBy DEF PInv
<1>2. /\ Len(q[A]) = SentBy(A) - ReadBy(R)
      /\ \/ Len(q[R]) = SentBy(R) - ReadBy(A)
         \/ pc[A] \in {"over", "tkr"} /\ Len(q[R]) = SentBy(R) - (ReadBy(A) - 1)
  BY DEF PInv, Lockstep, Fits
<1> QED
  BY <1>1, <1>2

-----------------------------------------------------------------------------
(***************************************************************************)
(* A step of one party: its messages msgs, and perhaps one it receives.    *)
(***************************************************************************)
AgentPuts(msgs) ==
    /\ \E T : msgs \in Seq(T)
    /\ q'[A] = q[A] \o msgs
    /\ \/ q'[R] = q[R]
       \/ q[R] # <<>> /\ q'[R] = Tail(q[R])
    /\ pc'[R] = pc[R] /\ pc'[A] \in AgentPc
    /\ SentAt[1][pc'[A]] = SentAt[1][pc[A]] + Len(msgs)
    /\ r' = r

RelayPuts(msgs) ==
    /\ \E T : msgs \in Seq(T)
    /\ q'[R] = q[R] \o msgs
    /\ \/ q'[A] = q[A]
       \/ q[A] # <<>> /\ q'[A] = Tail(q[A])
    /\ pc'[A] = pc[A] /\ pc'[R] \in RelayPc
    /\ SentAt[2][pc'[R]] = SentAt[2][pc[R]] + Len(msgs)
    /\ a' = a

LEMMA SayMore ==
    ASSUME NEW s, NEW S, NEW T, NEW seq \in Seq(S), NEW msgs \in Seq(T),
           NEW m \in Nat, Len(seq) <= m, NEW w, NEW w2, Say(s, seq, m, w),
           \A k \in 1 .. m : \A v : Tell(s, k, v, w) => Tell(s, k, v, w2),
           \A i \in 1 .. Len(msgs) : Tell(s, m + i, msgs[i].val, w2)
    PROVE  Say(s, seq \o msgs, m + Len(msgs), w2)
<1>1. Say(s, seq, m, w2)
  BY SayWords
<1>2. S \subseteq S \cup T /\ T \subseteq S \cup T
  OBVIOUS
<1>3. seq \in Seq(S \cup T) /\ msgs \in Seq(S \cup T)
  BY <1>2, SeqMonotonic
<1> QED
  BY <1>1, <1>3, SayConcat

LEMMA SayLess ==
    ASSUME NEW s, NEW S, NEW seq \in Seq(S), NEW rest,
           rest = seq \/ (seq # <<>> /\ rest = Tail(seq)),
           NEW m \in Nat, Len(seq) <= m, NEW w, NEW w2, Say(s, seq, m, w),
           \A k \in 1 .. m : \A v : Tell(s, k, v, w) => Tell(s, k, v, w2)
    PROVE  Say(s, rest, m, w2)
<1>1. Say(s, seq, m, w2)
  BY SayWords
<1> QED
  BY <1>1, SayTail

\* The first five messages of a side carry nothing the invariant is about.
LEMMA TellFirst ==
    ASSUME NEW k \in Int, k <= 5, NEW v, NEW w
    PROVE  TellA(k, v, w) /\ TellR(k, v, w)
BY DEF TellA, TellR

LEMMA AgentSays ==
    ASSUME PInv, AgentSaid, RelaySaid, NEW msgs, AgentPuts(msgs),
           \A k \in 1 .. SentAt[1][pc[A]] : \A v :
               TellA(k, v, AgentWords) => TellA(k, v, AgentWords'),
           \A i \in 1 .. Len(msgs) :
               TellA(SentAt[1][pc[A]] + i, msgs[i].val, AgentWords'),
           a'.tk = a.tk \/ pc[R] # "done"
    PROVE  AgentSaid' /\ RelaySaid'
<1> USE DEF AgentPuts
<1>1. PICK S, T : q[A] \in Seq(S) /\ q[R] \in Seq(S) /\ msgs \in Seq(T)
  BY DEF PInv, Typed
<1>2. /\ SentBy(A)' = SentBy(A) + Len(msgs) /\ SentBy(R)' = SentBy(R)
      /\ SentBy(A) = SentAt[1][pc[A]]
  BY Lengths, Sides DEF SentBy
<1>3. AgentSaid'
  <2>1. Say(A, q[A] \o msgs, SentBy(A) + Len(msgs), AgentWords')
    BY <1>1, <1>2, Lengths, SayMore DEF AgentSaid, Tell
  <2> QED
    BY <1>2, <2>1 DEF AgentSaid
<1>4. \A k \in 1 .. SentBy(R) : \A v :
        TellR(k, v, RelayWords) => TellR(k, v, RelayWords')
  <2>1. CASE a'.tk = a.tk
    <3>1. RelayWords' = RelayWords
      BY <2>1 DEF RelayWords, RelayCapp, RelaySapp
    <3> QED
      BY <3>1
  <2>2. CASE pc[R] # "done"
    <3>1. pc[R] \in RelayPc
      BY DEF PInv, Typed
    <3>5. SentAt[2][pc[R]] <= 14
      BY <2>2, <3>1 DEF RelayPc, SentAt
    <3>2. SentBy(R) <= 14 /\ SentBy(R) \in Nat
      BY <3>5, Lengths
    <3>3. 15 \notin 1 .. SentBy(R)
      BY <3>2
    <3>4. /\ RelayWords'.chts = RelayWords.chts
          /\ RelayWords'.capp = RelayWords.capp
          /\ RelayWords'.sapp = RelayWords.sapp
          /\ RelayWords'.reveal = RelayWords.reveal
          /\ RelayWords'.ok = RelayWords.ok
      BY DEF RelayWords, RelayCapp, RelaySapp
    <3> QED
      BY <3>3, <3>4 DEF TellR
  <2> QED
    BY <2>1, <2>2
<1>5. RelaySaid'
  <2>2. \A k \in 1 .. SentBy(R) : \A v :
          Tell(R, k, v, RelayWords) => Tell(R, k, v, RelayWords')
    BY <1>4, Sides DEF Tell
  <2>3. Say(R, q[R], SentBy(R), RelayWords)
    BY DEF RelaySaid
  <2>4. /\ q'[R] = q[R] \/ (q[R] # <<>> /\ q'[R] = Tail(q[R]))
        /\ SentBy(R) \in Nat /\ Len(q[R]) <= SentBy(R)
    BY Lengths
  <2>1. Say(R, q'[R], SentBy(R), RelayWords')
    BY ONLY <1>1, <2>2, <2>3, <2>4, SayLess
  <2> QED
    BY <1>2, <2>1 DEF RelaySaid
<1> QED
  BY <1>3, <1>5

LEMMA RelaySays ==
    ASSUME PInv, AgentSaid, RelaySaid, NEW msgs, RelayPuts(msgs),
           \A k \in 1 .. SentAt[2][pc[R]] : \A v :
               TellR(k, v, RelayWords) => TellR(k, v, RelayWords'),
           \A i \in 1 .. Len(msgs) :
               TellR(SentAt[2][pc[R]] + i, msgs[i].val, RelayWords')
    PROVE  AgentSaid' /\ RelaySaid'
<1> USE DEF RelayPuts
<1>1. PICK S, T : q[A] \in Seq(S) /\ q[R] \in Seq(S) /\ msgs \in Seq(T)
  BY DEF PInv, Typed
<1>2. /\ SentBy(R)' = SentBy(R) + Len(msgs) /\ SentBy(A)' = SentBy(A)
      /\ SentBy(R) = SentAt[2][pc[R]]
  BY Lengths, Sides DEF SentBy
<1>3. RelaySaid'
  <2>1. Say(R, q[R] \o msgs, SentBy(R) + Len(msgs), RelayWords')
    BY <1>1, <1>2, Lengths, Sides, SayMore DEF RelaySaid, Tell
  <2> QED
    BY <1>2, <2>1 DEF RelaySaid
<1>4. AgentWords' = AgentWords
  BY DEF AgentWords, AgentCapp, AgentSapp, SfOf, HsOf
<1>5. AgentSaid'
  <2>1. Say(A, q'[A], SentBy(A), AgentWords)
    BY <1>1, Lengths, SayLess DEF AgentSaid
  <2> QED
    BY <1>2, <1>4, <2>1 DEF AgentSaid
<1> QED
  BY <1>3, <1>5

-----------------------------------------------------------------------------
(***************************************************************************)
(* A step of the agent.                                                    *)
(***************************************************************************)
\* The fields everything the agent says is made of.
AgentSame == /\ a'.cks = a.cks /\ a'.flight = a.flight
             /\ a'.x = a.x /\ a'.chts = a.chts

LEMMA AgentTerms ==
    ASSUME AgentSame
    PROVE  /\ HsOf' = HsOf /\ SfOf' = SfOf
           /\ AgentCapp' = AgentCapp /\ AgentSapp' = AgentSapp
BY DEF AgentSame, HsOf, SfOf, AgentCapp, AgentSapp

LEMMA RelayTerms ==
    ASSUME r' = r
    PROVE  RelayCapp' = RelayCapp /\ RelaySapp' = RelaySapp
BY DEF RelayCapp, RelaySapp

\* What the relay knows is not touched by a step of the agent: where it
\* speaks of the agent, the agent is past its own part of it.
LEMMA RelayStill ==
    ASSUME PInv, RelayKnows, r' = r, srv' = srv, pc'[R] = pc[R],
           AgentSame \/ pc[A] \notin APhase2
    PROVE  RelayKnows'
<1>1. CASE AgentSame
  BY <1>1, AgentTerms, RelayTerms DEF RelayKnows, AgentSame
<1>2. CASE pc[A] \notin APhase2
  <2>1. pc[R] \notin RPhase2Pc
    BY <1>2, Order
  <2> QED
    BY <2>1, RelayTerms
       DEF RelayKnows, RPhase2Pc, ROpenedC, ROpenedS, RHolds, ROver2
<1> QED
  BY <1>1, <1>2

LEMMA ProviderStill ==
    ASSUME ProviderKnows, srv' = srv, pc'[R] = pc[R], Alive(R)' => Alive(R)
    PROVE  ProviderKnows'
BY DEF ProviderKnows

LEMMA AgentShape ==
    ASSUME PInv, NEW p, NEW p2 \in AgentPc, NEW msgs, \E T : msgs \in Seq(T),
           At(A, p), Goes(A, p2), r' = r,
           \/ Takes(A, p) /\ Passes(A, msgs)
           \/ q' = [q EXCEPT ![A] = @ \o msgs],
           SentAt[1][p2] = SentAt[1][p] + Len(msgs)
    PROVE  /\ AgentPuts(msgs)
           /\ pc[A] = p /\ pc'[A] = p2 /\ pc'[R] = pc[R] /\ fate' = fate
<1>1. /\ pc[A] = p /\ pc'[A] = p2 /\ pc'[R] = pc[R] /\ fate' = fate
  BY Sides DEF PInv, Typed, At, Goes
<1>2. /\ q'[A] = q[A] \o msgs
      /\ \/ q'[R] = q[R]
         \/ q[R] # <<>> /\ q'[R] = Tail(q[R])
  <2>1. CASE Takes(A, p) /\ Passes(A, msgs)
    BY <2>1, Sides, PassQueues DEF Takes, PInv
  <2>2. CASE q' = [q EXCEPT ![A] = @ \o msgs]
    BY <2>2, Sides DEF PInv, Typed
  <2> QED
    BY <2>1, <2>2
<1> QED
  BY <1>1, <1>2 DEF AgentPuts

LEMMA AgentDone ==
    ASSUME PInv, KInv, NEW msgs, AgentPuts(msgs), srv' = srv,
           fate'[R] = fate[R],
           \A k \in 1 .. SentAt[1][pc[A]] : \A v :
               TellA(k, v, AgentWords) => TellA(k, v, AgentWords'),
           \A i \in 1 .. Len(msgs) :
               TellA(SentAt[1][pc[A]] + i, msgs[i].val, AgentWords'),
           a'.tk = a.tk \/ pc[R] # "done",
           AgentSame \/ pc[A] \notin APhase2,
           AgentFields \subseteq DOMAIN a', AgentKnows'
    PROVE  KInv'
<1>1. AgentSaid' /\ RelaySaid'
  BY AgentSays DEF KInv
<1>2. r' = r /\ pc'[R] = pc[R]
  BY DEF AgentPuts
<1>3. RelayKnows'
  BY <1>2, RelayStill DEF KInv
<1>4. ProviderKnows'
  <2>1. Alive(R)' => Alive(R)
    BY DEF Alive
  <2> QED
    BY <1>2, <2>1, ProviderStill DEF KInv
<1>5. Fielded'
  BY <1>2 DEF KInv, Fielded
<1> QED
  BY <1>1, <1>3, <1>4, <1>5 DEF KInv

\* Before the opening of the handshake secrets nothing said matters yet.
LEMMA AgentEarly ==
    ASSUME PInv, KInv, NEW msgs, AgentPuts(msgs), srv' = srv,
           fate'[R] = fate[R],
           pc'[A] \in {"zb", "shf", "x2", "y2", "dx", "chts", "shts"},
           pc[A] \notin APhase2,
           AgentFields \subseteq DOMAIN a', a'.tk = None, a.tk = None,
           pc'[A] \in {"x2", "y2", "dx", "chts", "shts"} => a'.tr = HsOf',
           pc'[A] = "shts" =>
               a'.chts = Open(ChtsOf(a'.x, HsOf'), ChtsOf(r.x, r.tr))
    PROVE  KInv'
<1>1. SentAt[1][pc'[A]] <= 5
  BY DEF SentAt
<1>2. SentAt[1][pc[A]] \in Nat /\ SentAt[1][pc'[A]] = SentAt[1][pc[A]] + Len(msgs)
  BY Lengths DEF AgentPuts
<1>3. PICK T : msgs \in Seq(T)
  BY DEF AgentPuts
<1>4. Len(msgs) \in Nat
  BY <1>3, LenProperties
<1>a. PICK m \in Nat : m = SentAt[1][pc[A]]
  BY <1>2
<1>b. PICK l \in Nat : l = Len(msgs)
  BY <1>4
<1>c. m + l <= 5 /\ m <= 5
  BY <1>1, <1>2, <1>a, <1>b
<1>5. \A k \in 1 .. SentAt[1][pc[A]] : \A v :
          TellA(k, v, AgentWords) => TellA(k, v, AgentWords')
  <2> SUFFICES ASSUME NEW k \in 1 .. m, NEW v PROVE TellA(k, v, AgentWords')
    BY <1>a
  <2>1. k \in Int /\ k <= 5
    BY ONLY <1>c
  <2> QED
    BY <2>1, TellFirst
<1>6. \A i \in 1 .. Len(msgs) :
          TellA(SentAt[1][pc[A]] + i, msgs[i].val, AgentWords')
  <2> SUFFICES ASSUME NEW i \in 1 .. l
               PROVE TellA(m + i, msgs[i].val, AgentWords')
    BY <1>a, <1>b
  <2>1. m + i \in Int /\ m + i <= 5
    BY ONLY <1>c
  <2> QED
    BY <2>1, TellFirst
<1>7. AgentKnows'
  BY DEF AgentPuts, AgentKnows, AOpenedH, APhase2, AOpenedC, ACommitted,
         ASigned
<1> QED
  BY <1>5, <1>6, <1>7, AgentDone

\* The agent up to the opening of the client handshake secret.
LEMMA AgentEarlySteps ==
    ASSUME PInv, KInv,
           \/ AStart
           \/ AHello
           \/ AServerHello
           \/ AInputX
           \/ AInputY
           \/ AInverse
           \/ AOpenChts
    PROVE  KInv'
<1>1. CASE AStart
  <2> DEFINE msgs == <<Msg("za", a.k)>>
  <2>1. /\ At(A, "start") /\ Goes(A, "zb") /\ r' = r /\ srv' = srv
        /\ q' = [q EXCEPT ![A] = @ \o msgs]
    BY <1>1 DEF AStart
  <2>2. /\ AgentFields \subseteq DOMAIN a' /\ a'.tk = a.tk
    BY <1>1 DEF AStart, KInv, Fielded, AgentFields
  <2>3. /\ Len(msgs) = SentAt[1]["zb"] - SentAt[1]["start"]
        /\ \E T : msgs \in Seq(T)
    BY Listed DEF SentAt
  <2> HIDE DEF msgs
  <2>4. SentAt[1]["zb"] = SentAt[1]["start"] + Len(msgs)
    BY <2>3 DEF SentAt
  <2>5. /\ AgentPuts(msgs) /\ pc[A] = "start" /\ pc'[A] = "zb"
        /\ fate' = fate
    BY <2>1, <2>3, <2>4, AgentShape DEF AgentPc
  <2>6. a.tk = None
    BY <2>5 DEF KInv, AgentKnows, ASigned
  <2> QED
    BY <2>1, <2>2, <2>5, <2>6, AgentEarly
       DEF APhase2, AOpenedC, ACommitted, ASigned
<1>2. CASE AHello
  <2> DEFINE msgs == <<Msg("ch", (a.k + Got(A)) % Q)>>
  <2>1. /\ At(A, "zb") /\ Goes(A, "shf") /\ r' = r /\ srv' = srv
        /\ Takes(A, "zb") /\ Passes(A, msgs)
    BY <1>2 DEF AHello, Takes
  <2>2. /\ AgentFields \subseteq DOMAIN a' /\ a'.tk = a.tk
    BY <1>2 DEF AHello, KInv, Fielded, AgentFields
  <2>3. /\ Len(msgs) = SentAt[1]["shf"] - SentAt[1]["zb"]
        /\ \E T : msgs \in Seq(T)
    BY Listed DEF SentAt
  <2> HIDE DEF msgs
  <2>4. SentAt[1]["shf"] = SentAt[1]["zb"] + Len(msgs)
    BY <2>3 DEF SentAt
  <2>5. /\ AgentPuts(msgs) /\ pc[A] = "zb" /\ pc'[A] = "shf"
        /\ fate' = fate
    BY <2>1, <2>3, <2>4, AgentShape DEF AgentPc
  <2>6. a.tk = None
    BY <2>5 DEF KInv, AgentKnows, ASigned
  <2> QED
    BY <2>1, <2>2, <2>5, <2>6, AgentEarly
       DEF APhase2, AOpenedC, ACommitted, ASigned
<1>3. CASE AServerHello
  <2> DEFINE ssk == Mul(a.k, Got(A).share)
             msgs == <<Msg("sim.t", ssk), Msg("sim.t", ssk)>>
  <2>1. /\ At(A, "shf") /\ Goes(A, "x2") /\ r' = r /\ srv' = srv
        /\ Takes(A, "shf") /\ Passes(A, msgs)
    BY <1>3 DEF AServerHello, Takes
  <2>2. /\ AgentFields \subseteq DOMAIN a' /\ a'.tk = a.tk
        /\ a'.tr = <<CH(a'.cks), SH(a'.flight.share)>>
    BY <1>3 DEF AServerHello, KInv, Fielded, AgentFields
  <2>3. /\ Len(msgs) = SentAt[1]["x2"] - SentAt[1]["shf"]
        /\ \E T : msgs \in Seq(T)
    BY Listed DEF SentAt
  <2> HIDE DEF ssk, msgs
  <2>4. SentAt[1]["x2"] = SentAt[1]["shf"] + Len(msgs)
    BY <2>3 DEF SentAt
  <2>5. /\ AgentPuts(msgs) /\ pc[A] = "shf" /\ pc'[A] = "x2"
        /\ fate' = fate
    BY <2>1, <2>3, <2>4, AgentShape DEF AgentPc
  <2>6. a.tk = None
    BY <2>5 DEF KInv, AgentKnows, ASigned
  <2>7. a'.tr = HsOf'
    BY <2>2 DEF HsOf
  <2> QED
    BY <2>1, <2>2, <2>5, <2>6, <2>7, AgentEarly
       DEF APhase2, AOpenedC, ACommitted, ASigned
<1>4. CASE AInputX
  <2> DEFINE msgs == <<>>
  <2>1. /\ At(A, "x2") /\ Goes(A, "y2") /\ r' = r /\ srv' = srv
        /\ Takes(A, "x2") /\ Passes(A, msgs)
    BY <1>4 DEF AInputX, Takes
  <2>2. /\ AgentFields \subseteq DOMAIN a' /\ a'.tk = a.tk
        /\ a'.cks = a.cks /\ a'.flight = a.flight /\ a'.tr = a.tr
    BY <1>4 DEF AInputX, KInv, Fielded, AgentFields
  <2>3. /\ Len(msgs) = SentAt[1]["y2"] - SentAt[1]["x2"]
        /\ \E T : msgs \in Seq(T)
    BY Listed DEF SentAt
  <2> HIDE DEF msgs
  <2>4. SentAt[1]["y2"] = SentAt[1]["x2"] + Len(msgs)
    BY <2>3 DEF SentAt
  <2>5. /\ AgentPuts(msgs) /\ pc[A] = "x2" /\ pc'[A] = "y2"
        /\ fate' = fate
    BY <2>1, <2>3, <2>4, AgentShape DEF AgentPc
  <2>6. a.tk = None
    BY <2>5 DEF KInv, AgentKnows, ASigned
  <2>7. a'.tr = HsOf' /\ HsOf' = HsOf
    BY <2>2, <2>5 DEF KInv, AgentKnows, HsOf
  <2> QED
    BY <2>1, <2>2, <2>5, <2>6, <2>7, AgentEarly
       DEF APhase2, AOpenedC, ACommitted, ASigned
<1>5. CASE AInputY
  <2> DEFINE msgs == <<Msg("op", None)>>
  <2>1. /\ At(A, "y2") /\ Goes(A, "dx") /\ r' = r /\ srv' = srv
        /\ Takes(A, "y2") /\ Passes(A, msgs)
    BY <1>5 DEF AInputY, Takes
  <2>2. /\ AgentFields \subseteq DOMAIN a' /\ a'.tk = a.tk
        /\ a'.cks = a.cks /\ a'.flight = a.flight /\ a'.tr = a.tr
    BY <1>5 DEF AInputY, KInv, Fielded, AgentFields
  <2>3. /\ Len(msgs) = SentAt[1]["dx"] - SentAt[1]["y2"]
        /\ \E T : msgs \in Seq(T)
    BY Listed DEF SentAt
  <2> HIDE DEF msgs
  <2>4. SentAt[1]["dx"] = SentAt[1]["y2"] + Len(msgs)
    BY <2>3 DEF SentAt
  <2>5. /\ AgentPuts(msgs) /\ pc[A] = "y2" /\ pc'[A] = "dx"
        /\ fate' = fate
    BY <2>1, <2>3, <2>4, AgentShape DEF AgentPc
  <2>6. a.tk = None
    BY <2>5 DEF KInv, AgentKnows, ASigned
  <2>7. a'.tr = HsOf' /\ HsOf' = HsOf
    BY <2>2, <2>5 DEF KInv, AgentKnows, HsOf
  <2> QED
    BY <2>1, <2>2, <2>5, <2>6, <2>7, AgentEarly
       DEF APhase2, AOpenedC, ACommitted, ASigned
<1>6. CASE AInverse
  <2> DEFINE msgs == <<>>
  <2>1. /\ At(A, "dx") /\ Goes(A, "chts") /\ r' = r /\ srv' = srv
        /\ Takes(A, "dx") /\ Passes(A, msgs)
    BY <1>6 DEF AInverse, Takes
  <2>2. /\ AgentFields \subseteq DOMAIN a' /\ a'.tk = a.tk
        /\ a'.cks = a.cks /\ a'.flight = a.flight /\ a'.tr = a.tr
    BY <1>6 DEF AInverse, KInv, Fielded, AgentFields
  <2>3. /\ Len(msgs) = SentAt[1]["chts"] - SentAt[1]["dx"]
        /\ \E T : msgs \in Seq(T)
    BY Listed DEF SentAt
  <2> HIDE DEF msgs
  <2>4. SentAt[1]["chts"] = SentAt[1]["dx"] + Len(msgs)
    BY <2>3 DEF SentAt
  <2>5. /\ AgentPuts(msgs) /\ pc[A] = "dx" /\ pc'[A] = "chts"
        /\ fate' = fate
    BY <2>1, <2>3, <2>4, AgentShape DEF AgentPc
  <2>6. a.tk = None
    BY <2>5 DEF KInv, AgentKnows, ASigned
  <2>7. a'.tr = HsOf' /\ HsOf' = HsOf
    BY <2>2, <2>5 DEF KInv, AgentKnows, HsOf
  <2> QED
    BY <2>1, <2>2, <2>5, <2>6, <2>7, AgentEarly
       DEF APhase2, AOpenedC, ACommitted, ASigned
<1>7. CASE AOpenChts
  <2> DEFINE msgs == <<>>
  <2>1. /\ At(A, "chts") /\ Goes(A, "shts") /\ r' = r /\ srv' = srv
        /\ Takes(A, "chts") /\ Passes(A, msgs)
    BY <1>7 DEF AOpenChts, Takes
  <2>2. /\ AgentFields \subseteq DOMAIN a' /\ a'.tk = a.tk
        /\ a'.cks = a.cks /\ a'.flight = a.flight /\ a'.tr = a.tr
        /\ a'.x = a.x /\ a'.chts = Open(ChtsOf(a.x, a.tr), Got(A))
    BY <1>7 DEF AOpenChts, KInv, Fielded, AgentFields
  <2>3. /\ Len(msgs) = SentAt[1]["shts"] - SentAt[1]["chts"]
        /\ \E T : msgs \in Seq(T)
    BY Listed DEF SentAt
  <2> HIDE DEF msgs
  <2>4. SentAt[1]["shts"] = SentAt[1]["chts"] + Len(msgs)
    BY <2>3 DEF SentAt
  <2>5. /\ AgentPuts(msgs) /\ pc[A] = "chts" /\ pc'[A] = "shts"
        /\ fate' = fate
    BY <2>1, <2>3, <2>4, AgentShape DEF AgentPc
  <2>6. a.tk = None
    BY <2>5 DEF KInv, AgentKnows, ASigned
  <2>7. a'.tr = HsOf' /\ HsOf' = HsOf
    BY <2>2, <2>5 DEF KInv, AgentKnows, HsOf
  <2>8. Got(A) = ChtsOf(r.x, r.tr)
    <3>1. TellR(ReadAt[1]["chts"] + 1, Got(A), RelayWords)
      BY <2>1, AgentHears DEF AgentPc, KInv
    <3> QED
      BY <3>1 DEF ReadAt, TellR, RelayWords
  <2>9. a'.chts = Open(ChtsOf(a'.x, HsOf'), ChtsOf(r.x, r.tr))
    BY <2>2, <2>7, <2>8
  <2> QED
    BY <2>1, <2>2, <2>5, <2>6, <2>7, <2>9, AgentEarly
       DEF APhase2, AOpenedC, ACommitted, ASigned
<1> QED
  BY <1>1, <1>2, <1>3, <1>4, <1>5, <1>6, <1>7

LEMMA AgentLate ==
    ASSUME PInv, KInv, NEW msgs, AgentPuts(msgs), srv' = srv,
           fate'[R] = fate[R], AgentSame,
           a'.capp = a.capp \/ SentAt[1][pc[A]] <= 13,
           \A i \in 1 .. Len(msgs) :
               TellA(SentAt[1][pc[A]] + i, msgs[i].val, AgentWords'),
           a'.tk = a.tk \/ pc[R] # "done",
           AgentFields \subseteq DOMAIN a', AgentKnows'
    PROVE  KInv'
<1>1. /\ AgentWords'.h2 = AgentWords.h2 /\ AgentWords'.capp = AgentWords.capp
      /\ AgentWords'.sapp = AgentWords.sapp
      /\ AgentWords'.cf = AgentWords.cf
  BY AgentTerms DEF AgentWords, AgentSame
<1>2. \/ AgentWords'.opened = AgentWords.opened
      \/ SentAt[1][pc[A]] <= 13
  BY DEF AgentWords
<1>3. SentAt[1][pc[A]] \in Nat
  BY Lengths
<1>4. \A k \in 1 .. SentAt[1][pc[A]] : \A v :
          TellA(k, v, AgentWords) => TellA(k, v, AgentWords')
  <2>1. CASE AgentWords'.opened = AgentWords.opened
    BY <1>1, <2>1 DEF TellA
  <2>2. CASE SentAt[1][pc[A]] <= 13
    <3>1. 14 \notin 1 .. SentAt[1][pc[A]]
      BY <1>3, <2>2
    <3> QED
      BY <1>1, <3>1 DEF TellA
  <2> QED
    BY <1>2, <2>1, <2>2
<1> QED
  BY <1>4, AgentDone

\* The agent decrypts the flight, opens the ivs, commits and confirms.
LEMMA AgentVerifySteps ==
    ASSUME PInv, KInv,
           \/ AVerify
           \/ AOpenIvC
           \/ ACommit
           \/ AFinish
    PROVE  KInv'
<1>1. CASE AVerify
  <2> DEFINE tr == Flown(a.tr)
             msgs == <<Msg("h2", tr), Msg("op", a'.capp)>>
  <2>1. /\ At(A, "shts") /\ Goes(A, "ivc") /\ r' = r /\ srv' = srv
        /\ Takes(A, "shts") /\ Passes(A, msgs)
    BY <1>1 DEF AVerify, Takes
  <2>2. /\ AgentFields \subseteq DOMAIN a' /\ AgentSame
        /\ a'.tr = tr /\ a'.capp = CappOf(a.x, a'.tr)
        /\ a'.sapp = SappOf(a.x, a'.tr)
        /\ a'.tk = a.tk
    BY <1>1 DEF AVerify, AgentSame, KInv, Fielded, AgentFields
  <2>3. SentAt[1]["ivc"] = SentAt[1]["shts"] + 2
    BY DEF SentAt
  <2>4. /\ Len(msgs) = 2 /\ msgs[1].val = a'.tr /\ msgs[2].val = a'.capp
        /\ \E T : msgs \in Seq(T)
    BY <2>2, Listed DEF Msg
  <2>5. a'.tr = Flown(a.tr)
    BY <2>2
  <2> HIDE DEF tr, msgs
  <2>6. /\ AgentPuts(msgs) /\ pc[A] = "shts" /\ pc'[A] = "ivc"
        /\ fate' = fate
    BY <2>1, <2>3, <2>4, AgentShape DEF AgentPc
  <2>8. /\ HsOf' = HsOf /\ SfOf' = SfOf
        /\ AgentCapp' = AgentCapp /\ AgentSapp' = AgentSapp
        /\ RelayCapp' = RelayCapp /\ RelaySapp' = RelaySapp
    BY <2>1, <2>2, AgentTerms, RelayTerms
  <2>9. AgentKnows'
    BY <2>1, <2>2, <2>3, <2>6, <2>5, <2>8
       DEF KInv, AgentKnows, AgentSame, AOpenedH, APhase2, AOpenedC,
           ACommitted, ASigned, SfOf, AgentCapp, AgentSapp
  <2>10. \A i \in 1 .. Len(msgs) :
            TellA(SentAt[1][pc[A]] + i, msgs[i].val, AgentWords')
    <3>1. SentAt[1][pc[A]] = 5
      BY <2>6 DEF SentAt
    <3>2. \A i \in 1 .. Len(msgs) : i = 1 \/ i = 2
      BY <2>4
    <3> QED
      BY <2>2, <2>4, <2>6, <2>8, <2>5, <3>1, <3>2
         DEF TellA, AgentWords, AgentSame, KInv, AgentKnows, SfOf, AgentCapp, AgentSapp
  <2>11. SentAt[1][pc[A]] <= 13 /\ (a'.tk = a.tk \/ pc[R] # "done")
    BY <2>6, Order DEF SentAt
  <2> QED
    BY <2>1, <2>2, <2>6, <2>9, <2>10, <2>11, AgentLate
<1>2. CASE AOpenIvC
  <2> DEFINE msgs == <<Msg("op", a.sapp)>>
  <2>1. /\ At(A, "ivc") /\ Goes(A, "ivs") /\ r' = r /\ srv' = srv
        /\ Takes(A, "ivc") /\ Passes(A, msgs)
    BY <1>2 DEF AOpenIvC, Takes
  <2>2. /\ AgentFields \subseteq DOMAIN a' /\ AgentSame
        /\ a'.tr = a.tr /\ a'.capp = Open(a.capp, Got(A))
        /\ a'.sapp = a.sapp /\ a'.tk = a.tk
    BY <1>2 DEF AOpenIvC, AgentSame, KInv, Fielded, AgentFields
  <2>3. SentAt[1]["ivs"] = SentAt[1]["ivc"] + 1
    BY DEF SentAt
  <2>4. /\ Len(msgs) = 1 /\ msgs[1].val = a.sapp
        /\ \E T : msgs \in Seq(T)
    BY <2>2, Listed DEF Msg
  <2> HIDE DEF msgs
  <2>6. /\ AgentPuts(msgs) /\ pc[A] = "ivc" /\ pc'[A] = "ivs"
        /\ fate' = fate
    BY <2>1, <2>3, <2>4, AgentShape DEF AgentPc
  <2>7. Got(A) = RelayCapp
    <3>1. TellR(ReadAt[1]["ivc"] + 1, Got(A), RelayWords)
      BY <2>1, AgentHears DEF AgentPc, KInv
    <3> QED
      BY <3>1 DEF ReadAt, TellR, RelayWords
  <2>8. /\ HsOf' = HsOf /\ SfOf' = SfOf
        /\ AgentCapp' = AgentCapp /\ AgentSapp' = AgentSapp
        /\ RelayCapp' = RelayCapp /\ RelaySapp' = RelaySapp
    BY <2>1, <2>2, AgentTerms, RelayTerms
  <2>9. AgentKnows'
    BY <2>1, <2>2, <2>3, <2>6, <2>7, <2>8
       DEF KInv, AgentKnows, AgentSame, AOpenedH, APhase2, AOpenedC,
           ACommitted, ASigned
  <2>10. \A i \in 1 .. Len(msgs) :
            TellA(SentAt[1][pc[A]] + i, msgs[i].val, AgentWords')
    <3>1. SentAt[1][pc[A]] = 7
      BY <2>6 DEF SentAt
    <3>2. \A i \in 1 .. Len(msgs) : i = 1
      BY <2>4
    <3> QED
      BY <2>2, <2>4, <2>6, <2>8, <3>1, <3>2
         DEF TellA, AgentWords, AgentSame, KInv, AgentKnows
  <2>11. SentAt[1][pc[A]] <= 13 /\ (a'.tk = a.tk \/ pc[R] # "done")
    BY <2>6, Order DEF SentAt
  <2> QED
    BY <2>1, <2>2, <2>6, <2>9, <2>10, <2>11, AgentLate
<1>3. CASE ACommit
  <2> DEFINE msgs == <<Msg("com", a.sapp)>>
  <2>1. /\ At(A, "ivs") /\ Goes(A, "tksr") /\ r' = r /\ srv' = srv
        /\ Takes(A, "ivs") /\ Passes(A, msgs)
    BY <1>3 DEF ACommit, Takes
  <2>2. /\ AgentFields \subseteq DOMAIN a' /\ AgentSame
        /\ a'.tr = a.tr /\ a'.capp = a.capp
        /\ a'.sapp = Open(a.sapp, Got(A)) /\ a'.com = a.sapp
        /\ a'.tk = a.tk
    BY <1>3 DEF ACommit, AgentSame, KInv, Fielded, AgentFields
  <2>3. SentAt[1]["tksr"] = SentAt[1]["ivs"] + 1
    BY DEF SentAt
  <2>4. /\ Len(msgs) = 1 /\ msgs[1].val = a.sapp
        /\ \E T : msgs \in Seq(T)
    BY <2>2, Listed DEF Msg
  <2> HIDE DEF msgs
  <2>6. /\ AgentPuts(msgs) /\ pc[A] = "ivs" /\ pc'[A] = "tksr"
        /\ fate' = fate
    BY <2>1, <2>3, <2>4, AgentShape DEF AgentPc
  <2>7. Got(A) = RelaySapp
    <3>1. TellR(ReadAt[1]["ivs"] + 1, Got(A), RelayWords)
      BY <2>1, AgentHears DEF AgentPc, KInv
    <3> QED
      BY <3>1 DEF ReadAt, TellR, RelayWords
  <2>8. /\ HsOf' = HsOf /\ SfOf' = SfOf
        /\ AgentCapp' = AgentCapp /\ AgentSapp' = AgentSapp
        /\ RelayCapp' = RelayCapp /\ RelaySapp' = RelaySapp
    BY <2>1, <2>2, AgentTerms, RelayTerms
  <2>9. AgentKnows'
    BY <2>1, <2>2, <2>3, <2>6, <2>7, <2>8
       DEF KInv, AgentKnows, AgentSame, AOpenedH, APhase2, AOpenedC,
           ACommitted, ASigned
  <2>10. \A i \in 1 .. Len(msgs) :
            TellA(SentAt[1][pc[A]] + i, msgs[i].val, AgentWords')
    <3>1. SentAt[1][pc[A]] = 8
      BY <2>6 DEF SentAt
    <3>2. \A i \in 1 .. Len(msgs) : i = 1
      BY <2>4
    <3> QED
      BY <2>2, <2>4, <2>6, <2>8, <3>1, <3>2
         DEF TellA, AgentWords, AgentSame, KInv, AgentKnows
  <2>11. SentAt[1][pc[A]] <= 13 /\ (a'.tk = a.tk \/ pc[R] # "done")
    BY <2>6, Order DEF SentAt
  <2> QED
    BY <2>1, <2>2, <2>6, <2>9, <2>10, <2>11, AgentLate
<1>4. CASE AFinish
  <2> DEFINE cf == Rec(a.chts, 0, "hs", Finished(a.chts, a.tr))
             p2 == IF a.ok THEN "cfok" ELSE "over"
             msgs == <<Msg("cf", cf)>>
  <2>1. /\ At(A, "tksr") /\ Goes(A, p2) /\ r' = r /\ srv' = srv
        /\ Takes(A, "tksr") /\ Passes(A, msgs)
    BY <1>4 DEF AFinish, Takes
  <2>2. /\ AgentFields \subseteq DOMAIN a' /\ AgentSame
        /\ a'.tr = Append(a.tr, CF) /\ a'.capp = a.capp
        /\ a'.sapp = a.sapp /\ a'.com = a.com /\ a'.ok = a.ok
        /\ a'.tk = Open(a.com, Got(A))
    BY <1>4 DEF AFinish, AgentSame, KInv, Fielded, AgentFields
  <2>3. /\ p2 \in {"cfok", "over"} /\ (p2 = "over" => ~ a.ok)
        /\ SentAt[1][p2] = SentAt[1]["tksr"] + 1
    BY DEF SentAt
  <2>4. /\ Len(msgs) = 1 /\ msgs[1].val = cf
        /\ \E T : msgs \in Seq(T)
    BY Listed DEF Msg
  <2>5. cf = Rec(a.chts, 0, "hs", Finished(a.chts, a.tr))
    OBVIOUS
  <2> HIDE DEF cf, p2, msgs
  <2>6. /\ AgentPuts(msgs) /\ pc[A] = "tksr" /\ pc'[A] = p2
        /\ fate' = fate
    BY <2>1, <2>3, <2>4, AgentShape DEF AgentPc
  <2>7. Got(A) = r.sapp
    <3>1. TellR(ReadAt[1]["tksr"] + 1, Got(A), RelayWords)
      BY <2>1, AgentHears DEF AgentPc, KInv
    <3> QED
      BY <3>1 DEF ReadAt, TellR, RelayWords
  <2>8. /\ HsOf' = HsOf /\ SfOf' = SfOf
        /\ AgentCapp' = AgentCapp /\ AgentSapp' = AgentSapp
        /\ RelayCapp' = RelayCapp /\ RelaySapp' = RelaySapp
    BY <2>1, <2>2, AgentTerms, RelayTerms
  <2>9. AgentKnows'
    BY <2>1, <2>2, <2>3, <2>6, <2>7, <2>8
       DEF KInv, AgentKnows, AgentSame, AOpenedH, APhase2, AOpenedC,
           ACommitted, ASigned
  <2>10. \A i \in 1 .. Len(msgs) :
            TellA(SentAt[1][pc[A]] + i, msgs[i].val, AgentWords')
    <3>1. SentAt[1][pc[A]] = 9
      BY <2>6 DEF SentAt
    <3>2. \A i \in 1 .. Len(msgs) : i = 1
      BY <2>4
    <3> QED
      BY <2>2, <2>4, <2>6, <2>8, <2>5, <3>1, <3>2
         DEF TellA, AgentWords, AgentSame, KInv, AgentKnows
  <2>11. SentAt[1][pc[A]] <= 13 /\ (a'.tk = a.tk \/ pc[R] # "done")
    BY <2>6, Order DEF SentAt
  <2> QED
    BY <2>1, <2>2, <2>6, <2>9, <2>10, <2>11, AgentLate
<1> QED
  BY <1>1, <1>2, <1>3, <1>4

\* The confirmation the agent reads is the relay's verdict.
LEMMA AgentConfirms ==
    ASSUME PInv, KInv, AConfirmed PROVE KInv'
<1> DEFINE msgs == <<>>
<1>1. /\ At(A, "cfok") /\ Goes(A, "over") /\ r' = r /\ srv' = srv
      /\ Takes(A, "cfok") /\ Passes(A, msgs)
  BY DEF AConfirmed, Takes
<1>2. /\ AgentFields \subseteq DOMAIN a' /\ AgentSame
      /\ a'.tr = a.tr /\ a'.capp = a.capp /\ a'.sapp = a.sapp
      /\ a'.com = a.com /\ a'.tk = a.tk /\ a'.ok = Got(A)
  BY DEF AConfirmed, AgentSame, KInv, Fielded, AgentFields
<1>3. /\ SentAt[1]["over"] = SentAt[1]["cfok"] + Len(msgs)
      /\ \E T : msgs \in Seq(T)
      /\ 1 .. Len(msgs) = {}
  BY Listed DEF SentAt
<1> HIDE DEF msgs
<1>4. /\ AgentPuts(msgs) /\ pc[A] = "cfok" /\ pc'[A] = "over"
      /\ fate' = fate
  BY <1>1, <1>3, AgentShape DEF AgentPc
<1>5. Got(A) = r.ok
  <2>1. TellR(ReadAt[1]["cfok"] + 1, Got(A), RelayWords)
    BY <1>1, AgentHears DEF AgentPc, KInv
  <2> QED
    BY <2>1 DEF ReadAt, TellR, RelayWords
<1>6. /\ HsOf' = HsOf /\ SfOf' = SfOf
      /\ AgentCapp' = AgentCapp /\ AgentSapp' = AgentSapp
      /\ RelayCapp' = RelayCapp /\ RelaySapp' = RelaySapp
  BY <1>1, <1>2, AgentTerms, RelayTerms
<1>7. AgentKnows'
  BY <1>1, <1>2, <1>4, <1>5, <1>6
     DEF KInv, AgentKnows, AgentSame, AOpenedH, APhase2, AOpenedC,
         ACommitted, ASigned
<1> QED
  BY <1>1, <1>2, <1>3, <1>4, <1>7, AgentLate

\* Steps after the handshake, of an agent whose result does not change.
LEMMA AgentIdles ==
    ASSUME PInv, KInv, NEW p \in ASigned \ {"cfok"},
           NEW p2 \in ASigned \ {"cfok"}, NEW msgs, \E T : msgs \in Seq(T),
           At(A, p), Goes(A, p2), a' = a, r' = r, srv' = srv,
           \/ Takes(A, p) /\ Passes(A, msgs)
           \/ q' = [q EXCEPT ![A] = @ \o msgs],
           SentAt[1][p2] = SentAt[1][p] + Len(msgs),
           \A i \in 1 .. Len(msgs) :
               TellA(SentAt[1][p] + i, msgs[i].val, AgentWords)
    PROVE  KInv'
<1>1. p2 \in AgentPc
  BY DEF ASigned, AgentPc
<1>2. /\ AgentPuts(msgs) /\ pc[A] = p /\ pc'[A] = p2 /\ fate' = fate
  BY <1>1, AgentShape
<1>3. AgentSame /\ AgentWords' = AgentWords
  BY DEF AgentSame, AgentWords, AgentCapp, AgentSapp, SfOf, HsOf
<1>4. /\ HsOf' = HsOf /\ SfOf' = SfOf
      /\ AgentCapp' = AgentCapp /\ AgentSapp' = AgentSapp
      /\ RelayCapp' = RelayCapp /\ RelaySapp' = RelaySapp
  BY <1>3, AgentTerms, RelayTerms
<1>5. AgentKnows'
  BY <1>2, <1>4
     DEF KInv, AgentKnows, AOpenedH, APhase2, AOpenedC, ACommitted, ASigned
<1>6. AgentFields \subseteq DOMAIN a'
  BY DEF KInv, Fielded
<1> QED
  BY <1>2, <1>3, <1>5, <1>6, AgentLate

LEMMA AgentQuerySteps ==
    ASSUME PInv, KInv,
           \/ ABuild
           \/ AKeyShare
           \/ ASeal
           \/ AOpenRecord
           \/ AResponse /\ Goes(A, "done")
    PROVE  KInv'
<1>1. CASE ABuild
  <2> DEFINE msgs == <<Msg("sim.t", None), Msg("sim.t", a.capp)>>
  <2>1. /\ At(A, "over") /\ Goes(A, "tkr") /\ a' = a /\ r' = r /\ srv' = srv
        /\ q' = [q EXCEPT ![A] = @ \o msgs]
    BY <1>1 DEF ABuild, Takes
  <2>2. SentAt[1]["over"] = 10 /\ SentAt[1]["tkr"] = 12
    BY DEF SentAt
  <2>3. Len(msgs) = 2 /\ \E T : msgs \in Seq(T)
    BY Listed
  <2>4. \A i \in 1 .. Len(msgs) :
          TellA(10 + i, msgs[i].val, AgentWords)
    BY DEF TellA, AgentWords, Msg
  <2> HIDE DEF msgs
  <2>5. /\ "over" \in ASigned \ {"cfok"} /\ "tkr" \in ASigned \ {"cfok"}
    BY DEF ASigned
  <2>6. /\ SentAt[1]["tkr"] = SentAt[1]["over"] + Len(msgs)
        /\ \A i \in 1 .. Len(msgs) :
             TellA(SentAt[1]["over"] + i, msgs[i].val, AgentWords)
    BY <2>2, <2>3, <2>4
  <2> QED
    BY <2>1, <2>3, <2>5, <2>6, AgentIdles
<1>2. CASE AKeyShare
  <2> DEFINE msgs == <<Msg("op", None)>>
  <2>1. /\ At(A, "tkr") /\ Goes(A, "gcm") /\ a' = a /\ r' = r /\ srv' = srv
        /\ Takes(A, "tkr") /\ Passes(A, msgs)
    BY <1>2 DEF AKeyShare, Takes
  <2>2. SentAt[1]["tkr"] = 12 /\ SentAt[1]["gcm"] = 13
    BY DEF SentAt
  <2>3. Len(msgs) = 1 /\ \E T : msgs \in Seq(T)
    BY Listed
  <2>4. \A i \in 1 .. Len(msgs) :
          TellA(12 + i, msgs[i].val, AgentWords)
    BY DEF TellA, AgentWords, Msg
  <2> HIDE DEF msgs
  <2>5. /\ "tkr" \in ASigned \ {"cfok"} /\ "gcm" \in ASigned \ {"cfok"}
    BY DEF ASigned
  <2>6. /\ SentAt[1]["gcm"] = SentAt[1]["tkr"] + Len(msgs)
        /\ \A i \in 1 .. Len(msgs) :
             TellA(SentAt[1]["tkr"] + i, msgs[i].val, AgentWords)
    BY <2>2, <2>3, <2>4
  <2> QED
    BY <2>1, <2>3, <2>5, <2>6, AgentIdles
<1>3. CASE ASeal
  <2> DEFINE msgs == <<Msg("op", a.capp)>>
  <2>1. /\ At(A, "gcm") /\ Goes(A, "ct") /\ a' = a /\ r' = r /\ srv' = srv
        /\ Takes(A, "gcm") /\ Passes(A, msgs)
    BY <1>3 DEF ASeal, Takes
  <2>2. SentAt[1]["gcm"] = 13 /\ SentAt[1]["ct"] = 14
    BY DEF SentAt
  <2>3. Len(msgs) = 1 /\ \E T : msgs \in Seq(T)
    BY Listed
  <2>4. \A i \in 1 .. Len(msgs) :
          TellA(13 + i, msgs[i].val, AgentWords)
    BY DEF TellA, AgentWords, Msg
  <2> HIDE DEF msgs
  <2>5. /\ "gcm" \in ASigned \ {"cfok"} /\ "ct" \in ASigned \ {"cfok"}
    BY DEF ASigned
  <2>6. /\ SentAt[1]["ct"] = SentAt[1]["gcm"] + Len(msgs)
        /\ \A i \in 1 .. Len(msgs) :
             TellA(SentAt[1]["gcm"] + i, msgs[i].val, AgentWords)
    BY <2>2, <2>3, <2>4
  <2> QED
    BY <2>1, <2>3, <2>5, <2>6, AgentIdles
<1>4. CASE AOpenRecord
  <2> DEFINE msgs == <<>>
  <2>1. /\ At(A, "ct") /\ Goes(A, "resp") /\ a' = a /\ r' = r /\ srv' = srv
        /\ Takes(A, "ct") /\ Passes(A, msgs)
    BY <1>4 DEF AOpenRecord, Takes
  <2>2. SentAt[1]["ct"] = 14 /\ SentAt[1]["resp"] = 14
    BY DEF SentAt
  <2>3. Len(msgs) = 0 /\ \E T : msgs \in Seq(T)
    BY Listed
  <2>4. \A i \in 1 .. Len(msgs) :
          TellA(14 + i, msgs[i].val, AgentWords)
    BY DEF TellA, AgentWords, Msg
  <2> HIDE DEF msgs
  <2>5. /\ "ct" \in ASigned \ {"cfok"} /\ "resp" \in ASigned \ {"cfok"}
    BY DEF ASigned
  <2>6. /\ SentAt[1]["resp"] = SentAt[1]["ct"] + Len(msgs)
        /\ \A i \in 1 .. Len(msgs) :
             TellA(SentAt[1]["ct"] + i, msgs[i].val, AgentWords)
    BY <2>2, <2>3, <2>4
  <2> QED
    BY <2>1, <2>3, <2>5, <2>6, AgentIdles
<1>5. CASE AResponse /\ Goes(A, "done")
  <2> DEFINE msgs == <<>>
  <2>1. /\ At(A, "resp") /\ Goes(A, "done") /\ a' = a /\ r' = r /\ srv' = srv
        /\ Takes(A, "resp") /\ Passes(A, msgs)
    BY <1>5 DEF AResponse, Takes
  <2>2. SentAt[1]["resp"] = 14 /\ SentAt[1]["done"] = 14
    BY DEF SentAt
  <2>3. Len(msgs) = 0 /\ \E T : msgs \in Seq(T)
    BY Listed
  <2>4. \A i \in 1 .. Len(msgs) :
          TellA(14 + i, msgs[i].val, AgentWords)
    BY DEF TellA, AgentWords, Msg
  <2> HIDE DEF msgs
  <2>5. /\ "resp" \in ASigned \ {"cfok"} /\ "done" \in ASigned \ {"cfok"}
    BY DEF ASigned
  <2>6. /\ SentAt[1]["done"] = SentAt[1]["resp"] + Len(msgs)
        /\ \A i \in 1 .. Len(msgs) :
             TellA(SentAt[1]["resp"] + i, msgs[i].val, AgentWords)
    BY <2>2, <2>3, <2>4
  <2> QED
    BY <2>1, <2>3, <2>5, <2>6, AgentIdles
<1> QED
  BY <1>1, <1>2, <1>3, <1>4, <1>5

\* The agent's thread ends where it stands, or the timeout ends it.
LEMMA AgentStops ==
    ASSUME PInv, KInv, pc' = pc, a' = a, r' = r, srv' = srv,
           fate'[R] = fate[R],
           \/ q' = q
           \/ q[Peer(A)] # <<>> /\ Passes(A, <<>>)
    PROVE  KInv'
<1> DEFINE msgs == <<>>
<1>1. /\ q'[A] = q[A] \o msgs
      /\ \/ q'[R] = q[R]
         \/ q[R] # <<>> /\ q'[R] = Tail(q[R])
  <2>1. PICK S : q[A] \in Seq(S)
    BY DEF PInv, Typed
  <2>2. CASE q' = q
    BY <2>1, <2>2, ConcatEmptySeq
  <2>3. CASE q[Peer(A)] # <<>> /\ Passes(A, <<>>)
    BY <2>3, Sides, Listed, PassQueues DEF PInv
  <2> QED
    BY <2>2, <2>3
<1>2. /\ Len(msgs) = 0 /\ 1 .. Len(msgs) = {} /\ \E T : msgs \in Seq(T)
  BY Listed
<1> HIDE DEF msgs
<1>3. AgentPuts(msgs)
  BY <1>1, <1>2, Lengths DEF AgentPuts, PInv, Typed
<1>4. AgentSame
  BY DEF AgentSame
<1>5. /\ HsOf' = HsOf /\ SfOf' = SfOf
      /\ AgentCapp' = AgentCapp /\ AgentSapp' = AgentSapp
      /\ RelayCapp' = RelayCapp /\ RelaySapp' = RelaySapp
  BY <1>4, AgentTerms, RelayTerms
<1>6. AgentKnows'
  BY <1>5 DEF KInv, AgentKnows
<1>7. AgentFields \subseteq DOMAIN a'
  BY DEF KInv, Fielded
<1> QED
  BY <1>2, <1>3, <1>4, <1>6, <1>7, AgentLate

LEMMA AgentFails ==
    ASSUME PInv, KInv,
           \/ ABadFlight
           \/ AResponse /\ Dies(A, "raised")
           \/ RecvFails(A)
    PROVE  KInv'
<1>1. /\ a' = a /\ r' = r /\ srv' = srv
      /\ \E how : Dies(A, how)
      /\ \/ q' = q
         \/ q[Peer(A)] # <<>> /\ Passes(A, <<>>)
  <2>1. CASE ABadFlight
    BY <2>1 DEF ABadFlight, Takes
  <2>2. CASE AResponse /\ Dies(A, "raised")
    BY <2>2 DEF AResponse, Takes
  <2>3. CASE RecvFails(A)
    BY <2>3 DEF RecvFails, Desync, Expire
  <2> QED
    BY <2>1, <2>2, <2>3
<1>2. pc' = pc /\ fate'[R] = fate[R]
  BY <1>1, Sides DEF Dies, PInv, Typed
<1> QED
  BY <1>1, <1>2, AgentStops

-----------------------------------------------------------------------------
(***************************************************************************)
(* A step of the relay.                                                    *)
(***************************************************************************)
\* What the agent knows is not touched by a step of the relay.
LEMMA AgentStill ==
    ASSUME PInv, AgentKnows, a' = a, pc'[A] = pc[A],
           pc[R] \in {"za", "ch", "x1", "y1"} \/ (r'.x = r.x /\ r'.tr = r.tr),
           pc[R] \in {"za", "ch", "x1", "y1", "dx", "h2"} \/ r'.h2 = r.h2,
           pc[R] \notin RHolds \/ r'.sapp = r.sapp,
           r.ok => r'.ok
    PROVE  AgentKnows'
<1>1. /\ HsOf' = HsOf /\ SfOf' = SfOf
      /\ AgentCapp' = AgentCapp /\ AgentSapp' = AgentSapp
  BY DEF HsOf, SfOf, AgentCapp, AgentSapp
<1>2. pc[A] \in AOpenedH => r'.x = r.x /\ r'.tr = r.tr
  BY Order
<1>3. pc[A] \in AOpenedC => RelayCapp' = RelayCapp /\ RelaySapp' = RelaySapp
  <2>1. pc[A] \in AOpenedC => r'.h2 = r.h2 /\ r'.x = r.x
    BY <1>2, Order DEF AOpenedH, APhase2
  <2> QED
    BY <2>1 DEF RelayCapp, RelaySapp
<1>4. pc[A] \in ASigned => r'.sapp = r.sapp
  BY Order
<1>5. pc[A] \in ACommitted => pc[A] \in AOpenedC
  BY DEF AOpenedC
<1> QED
  BY <1>1, <1>2, <1>3, <1>4, <1>5 DEF AgentKnows

LEMMA RelayShape ==
    ASSUME PInv, NEW p, NEW p2 \in RelayPc, NEW msgs, \E T : msgs \in Seq(T),
           At(R, p), Goes(R, p2), a' = a,
           \/ Takes(R, p) /\ Passes(R, msgs)
           \/ q' = q /\ msgs = <<>>,
           SentAt[2][p2] = SentAt[2][p] + Len(msgs)
    PROVE  /\ RelayPuts(msgs)
           /\ pc[R] = p /\ pc'[R] = p2 /\ pc'[A] = pc[A] /\ fate' = fate
<1>1. /\ pc[R] = p /\ pc'[R] = p2 /\ pc'[A] = pc[A] /\ fate' = fate
  BY Sides DEF PInv, Typed, At, Goes
<1>2. /\ q'[R] = q[R] \o msgs
      /\ \/ q'[A] = q[A]
         \/ q[A] # <<>> /\ q'[A] = Tail(q[A])
  <2>1. CASE Takes(R, p) /\ Passes(R, msgs)
    BY <2>1, Sides, PassQueues DEF Takes, PInv
  <2>2. CASE q' = q /\ msgs = <<>>
    <3>1. PICK S : q[R] \in Seq(S)
      BY DEF PInv, Typed
    <3> QED
      BY <2>2, <3>1, ConcatEmptySeq
  <2> QED
    BY <2>1, <2>2
<1> QED
  BY <1>1, <1>2 DEF RelayPuts

LEMMA RelayDone ==
    ASSUME PInv, KInv, NEW msgs, RelayPuts(msgs),
           \A k \in 1 .. SentAt[2][pc[R]] : \A v :
               TellR(k, v, RelayWords) => TellR(k, v, RelayWords'),
           \A i \in 1 .. Len(msgs) :
               TellR(SentAt[2][pc[R]] + i, msgs[i].val, RelayWords'),
           pc[R] \in {"za", "ch", "x1", "y1"} \/ (r'.x = r.x /\ r'.tr = r.tr),
           pc[R] \in {"za", "ch", "x1", "y1", "dx", "h2"} \/ r'.h2 = r.h2,
           pc[R] \notin RHolds \/ r'.sapp = r.sapp,
           r.ok => r'.ok,
           RelayFields \subseteq DOMAIN r', ServerFields \subseteq DOMAIN srv',
           RelayKnows', ProviderKnows'
    PROVE  KInv'
<1>1. AgentSaid' /\ RelaySaid'
  BY RelaySays DEF KInv
<1>2. a' = a /\ pc'[A] = pc[A]
  BY DEF RelayPuts
<1>3. AgentKnows'
  BY <1>2, AgentStill DEF KInv
<1>4. Fielded'
  BY <1>2 DEF KInv, Fielded
<1> QED
  BY <1>1, <1>3, <1>4 DEF KInv

\* Before the parties derive anything, nothing said matters yet.
LEMMA RelayEarly ==
    ASSUME PInv, KInv, NEW msgs, RelayPuts(msgs),
           pc[R] \in {"za", "ch", "x1", "y1"},
           pc'[R] \in {"ch", "x1", "y1", "dx"}, r'.ok = r.ok,
           RelayFields \subseteq DOMAIN r', ServerFields \subseteq DOMAIN srv',
           ProviderKnows'
    PROVE  KInv'
<1>1. SentAt[2][pc[R]] <= 5 /\ SentAt[2][pc'[R]] <= 5
  BY DEF SentAt
<1>2. SentAt[2][pc[R]] \in Nat /\ SentAt[2][pc'[R]] = SentAt[2][pc[R]] + Len(msgs)
  BY Lengths DEF RelayPuts
<1>3. PICK T : msgs \in Seq(T)
  BY DEF RelayPuts
<1>4. Len(msgs) \in Nat
  BY <1>3, LenProperties
<1>a. PICK m \in Nat : m = SentAt[2][pc[R]]
  BY <1>2
<1>b. PICK l \in Nat : l = Len(msgs)
  BY <1>4
<1>c. m + l <= 5 /\ m <= 5
  BY <1>1, <1>2, <1>a, <1>b
<1>5. \A k \in 1 .. SentAt[2][pc[R]] : \A v :
          TellR(k, v, RelayWords) => TellR(k, v, RelayWords')
  <2> SUFFICES ASSUME NEW k \in 1 .. m, NEW v PROVE TellR(k, v, RelayWords')
    BY <1>a
  <2>1. k \in Int /\ k <= 5
    BY ONLY <1>c
  <2> QED
    BY <2>1, TellFirst
<1>6. \A i \in 1 .. Len(msgs) :
          TellR(SentAt[2][pc[R]] + i, msgs[i].val, RelayWords')
  <2> SUFFICES ASSUME NEW i \in 1 .. l
               PROVE TellR(m + i, msgs[i].val, RelayWords')
    BY <1>a, <1>b
  <2>1. m + i \in Int /\ m + i <= 5
    BY ONLY <1>c
  <2> QED
    BY <2>1, TellFirst
<1>7. ~ r.ok
  BY DEF KInv, RelayKnows, ROver2
<1>8. RelayKnows'
  BY <1>7 DEF RelayKnows, RPhase2Pc, ROpenedC, ROpenedS, RHolds, ROver2
<1>9. pc[R] \notin RHolds
  BY DEF RHolds, ROver2
<1> QED
  BY <1>5, <1>6, <1>7, <1>8, <1>9, RelayDone

\* A step of the relay does not move the provider, and its own position
\* moves on within the handshake or within the query.
LEMMA ProviderWaits ==
    ASSUME PInv, KInv, srv' = srv, Alive(R), pc[R] # "done",
           pc'[R] \in {"x1", "y1", "dx", "h2", "ivc", "ivs", "com", "cf"} =>
               pc[R] \in {"x1", "y1", "dx", "h2", "ivc", "ivs", "com"}
    PROVE  ProviderKnows' /\ ServerFields \subseteq DOMAIN srv'
BY DEF KInv, ProviderKnows, Fielded

\* on_client_hello starts the connection over in the provider.
LEMMA ProviderGreeted ==
    ASSUME KInv, NEW ks, ClientHello(ks), Alive(R), pc[R] = "ch"
    PROVE  ProviderKnows' /\ ServerFields \subseteq DOMAIN srv'
<1>1. PICK xc, hs, sf :
        srv' = [srv EXCEPT !.transcript = sf, !.sfTr = sf,
                  !.chts = Secret("c hs traffic", xc, hs),
                  !.shts = Secret("s hs traffic", xc, hs),
                  !.capp = Secret("c ap traffic", xc, sf),
                  !.sapp = Secret("s ap traffic", xc, sf),
                  !.hsSeqS = 1, !.hsSeqC = 0, !.hello = TRUE]
  BY DEF ClientHello, Greeted
<1>2. ServerFields \subseteq DOMAIN srv
  BY DEF KInv, Fielded
<1>3. /\ ServerFields \subseteq DOMAIN srv'
      /\ srv'.transcript = sf /\ srv'.sfTr = sf /\ srv'.hello
      /\ srv'.chts = Secret("c hs traffic", xc, hs)
      /\ srv'.capp = Secret("c ap traffic", xc, sf)
      /\ srv'.sapp = Secret("s ap traffic", xc, sf)
      /\ srv'.seqC = srv.seqC /\ srv'.seqS = srv.seqS
  BY <1>1, <1>2 DEF ServerFields
<1>4. /\ srv'.chts = ChtsOf(srv'.chts.x, srv'.chts.tr)
      /\ srv'.capp = CappOf(srv'.chts.x, srv'.sfTr)
      /\ srv'.sapp = SappOf(srv'.chts.x, srv'.sfTr)
  <2>1. /\ Secret("c hs traffic", xc, hs).x = xc
        /\ Secret("c hs traffic", xc, hs).tr = hs
    BY DEF Secret
  <2>2. srv'.chts.x = xc /\ srv'.chts.tr = hs
    BY <1>3, <2>1
  <2> QED
    BY <1>3, <2>2 DEF ChtsOf, CappOf, SappOf
<1> QED
  BY <1>3, <1>4 DEF KInv, ProviderKnows

LEMMA RelayEarlySteps ==
    ASSUME PInv, KInv,
           \/ RShare
           \/ RClientHello
           \/ RInputX
           \/ RInputY
    PROVE  KInv'
<1>1. CASE RShare
  <2> DEFINE msgs == <<Msg("zb", r.k)>>
  <2>1. /\ At(R, "za") /\ Goes(R, "ch") /\ a' = a
        /\ Takes(R, "za") /\ Passes(R, msgs) /\ srv' = srv
    BY <1>1 DEF RShare, Takes
  <2>2. RelayFields \subseteq DOMAIN r' /\ r'.ok = r.ok
    BY <1>1 DEF RShare, KInv, Fielded, RelayFields
  <2>3. Len(msgs) = 1 /\ \E T : msgs \in Seq(T)
    BY Listed
  <2> HIDE DEF msgs
  <2>4. SentAt[2]["ch"] = SentAt[2]["za"] + Len(msgs)
    BY <2>3 DEF SentAt
  <2>5. /\ RelayPuts(msgs) /\ pc[R] = "za" /\ pc'[R] = "ch"
    BY <2>1, <2>3, <2>4, RelayShape DEF RelayPc
  <2>6. ProviderKnows' /\ ServerFields \subseteq DOMAIN srv'
    BY <2>1, <2>5, ProviderWaits DEF At
  <2> QED
    BY <2>2, <2>5, <2>6, RelayEarly
<1>2. CASE RClientHello
  <2> DEFINE f == Flight(srv')
             msgs == <<Msg("shf", f)>>
  <2>1. /\ At(R, "ch") /\ Goes(R, "x1") /\ a' = a
        /\ Takes(R, "ch") /\ Passes(R, msgs) /\ ClientHello(r.cks)
    BY <1>2 DEF RClientHello, Takes
  <2>2. RelayFields \subseteq DOMAIN r' /\ r'.ok = r.ok
    BY <1>2 DEF RClientHello, KInv, Fielded, RelayFields
  <2> HIDE DEF f
  <2>3. Len(msgs) = 1 /\ \E T : msgs \in Seq(T)
    BY Listed
  <2> HIDE DEF msgs
  <2>4. SentAt[2]["x1"] = SentAt[2]["ch"] + Len(msgs)
    BY <2>3 DEF SentAt
  <2>5. /\ RelayPuts(msgs) /\ pc[R] = "ch" /\ pc'[R] = "x1"
    BY <2>1, <2>3, <2>4, RelayShape DEF RelayPc
  <2>6. ProviderKnows' /\ ServerFields \subseteq DOMAIN srv'
    BY <2>1, <2>5, ProviderGreeted DEF At
  <2> QED
    BY <2>2, <2>5, <2>6, RelayEarly
<1>3. CASE RInputX
  <2> DEFINE msgs == <<>>
  <2>1. /\ At(R, "x1") /\ Goes(R, "y1") /\ a' = a
        /\ Takes(R, "x1") /\ Passes(R, msgs) /\ srv' = srv
    BY <1>3 DEF RInputX, Takes
  <2>2. RelayFields \subseteq DOMAIN r' /\ r'.ok = r.ok
    BY <1>3 DEF RInputX, KInv, Fielded, RelayFields
  <2>3. Len(msgs) = 0 /\ \E T : msgs \in Seq(T)
    BY Listed
  <2> HIDE DEF msgs
  <2>4. SentAt[2]["y1"] = SentAt[2]["x1"] + Len(msgs)
    BY <2>3 DEF SentAt
  <2>5. /\ RelayPuts(msgs) /\ pc[R] = "x1" /\ pc'[R] = "y1"
    BY <2>1, <2>3, <2>4, RelayShape DEF RelayPc
  <2>6. ProviderKnows' /\ ServerFields \subseteq DOMAIN srv'
    BY <2>1, <2>5, ProviderWaits DEF At
  <2> QED
    BY <2>2, <2>5, <2>6, RelayEarly
<1>4. CASE RInputY
  <2> DEFINE msgs == <<Msg("sim.t", r.ssk), Msg("sim.t", r.ssk),
                       Msg("op", None)>>
  <2>1. /\ At(R, "y1") /\ Goes(R, "dx") /\ a' = a
        /\ Takes(R, "y1") /\ Passes(R, msgs) /\ srv' = srv
    BY <1>4 DEF RInputY, Takes
  <2>2. RelayFields \subseteq DOMAIN r' /\ r'.ok = r.ok
    BY <1>4 DEF RInputY, KInv, Fielded, RelayFields
  <2>3. Len(msgs) = 3 /\ \E T : msgs \in Seq(T)
    BY Listed
  <2> HIDE DEF msgs
  <2>4. SentAt[2]["dx"] = SentAt[2]["y1"] + Len(msgs)
    BY <2>3 DEF SentAt
  <2>5. /\ RelayPuts(msgs) /\ pc[R] = "y1" /\ pc'[R] = "dx"
    BY <2>1, <2>3, <2>4, RelayShape DEF RelayPc
  <2>6. ProviderKnows' /\ ServerFields \subseteq DOMAIN srv'
    BY <2>1, <2>5, ProviderWaits DEF At
  <2> QED
    BY <2>2, <2>5, <2>6, RelayEarly
<1> QED
  BY <1>1, <1>2, <1>3, <1>4

\* What the relay has said stays true while the fields it is made of stay.
LEMMA RelayWordsKept ==
    ASSUME NEW m \in Nat, r'.x = r.x, r'.tr = r.tr,
           m < 8 \/ r'.h2 = r.h2, m < 10 \/ r'.sapp = r.sapp,
           m < 11 \/ r'.ok = r.ok, m < 15 \/ a'.tk = a.tk
    PROVE  \A k \in 1 .. m : \A v :
               TellR(k, v, RelayWords) => TellR(k, v, RelayWords')
<1>1. RelayWords'.chts = RelayWords.chts
  BY DEF RelayWords
<1>2. m < 8 \/ (/\ RelayWords'.capp = RelayWords.capp
                /\ RelayWords'.sapp = RelayWords.sapp)
  BY DEF RelayWords, RelayCapp, RelaySapp
<1>3. m < 10 \/ RelayWords'.reveal = RelayWords.reveal
  BY DEF RelayWords
<1>4. m < 11 \/ RelayWords'.ok = RelayWords.ok
  BY DEF RelayWords
<1>5. m < 15 \/ RelayWords'.tk = RelayWords.tk
  BY DEF RelayWords
<1> QED
  BY <1>1, <1>2, <1>3, <1>4, <1>5 DEF TellR

\* The relay from the release of its secrets to the reveal.
LEMMA RelayPhase2Steps ==
    ASSUME PInv, KInv,
           \/ RRelease
           \/ RPhase2
           \/ ROpenIvC
           \/ ROpenIvS
           \/ RReveal
    PROVE  KInv'
<1>1. CASE RRelease
  <2> DEFINE msgs == <<Msg("op", ChtsOf(r.x, r.tr)), Msg("op", ShtsOf(r.x, r.tr))>>
  <2>1. /\ At(R, "dx") /\ Goes(R, "h2") /\ a' = a
        /\ Takes(R, "dx") /\ Passes(R, msgs) /\ srv' = srv
    BY <1>1 DEF RRelease, Takes
  <2>2. /\ RelayFields \subseteq DOMAIN r' /\ r'.ok = r.ok
        /\ r'.x = r.x /\ r'.tr = r.tr
        /\ r' = r
    BY <1>1 DEF RRelease, KInv, Fielded, RelayFields
  <2>3. SentAt[2]["dx"] = 5 /\ SentAt[2]["h2"] = 7
    BY DEF SentAt, ReadAt
  <2>4. /\ Len(msgs) = 2 /\ \E T : msgs \in Seq(T)
        /\ msgs[1].val = ChtsOf(r.x, r.tr)
    BY Listed DEF Msg
  <2> HIDE DEF msgs
  <2>5. SentAt[2]["h2"] = SentAt[2]["dx"] + Len(msgs)
    BY <2>3, <2>4
  <2>6. /\ RelayPuts(msgs) /\ pc[R] = "dx" /\ pc'[R] = "h2"
        /\ Alive(R)
    BY <2>1, <2>4, <2>5, RelayShape DEF RelayPc, At
  <2>7. ProviderKnows' /\ ServerFields \subseteq DOMAIN srv'
    BY <2>1, <2>6, ProviderWaits
  <2>8. /\ SfOf' = SfOf /\ AgentCapp' = AgentCapp /\ AgentSapp' = AgentSapp
    BY <2>1, AgentTerms DEF AgentSame
  <2>10. RelayKnows'
    BY <2>2, <2>6, <2>8
       DEF KInv, RelayKnows, RelayCapp, RelaySapp, RPhase2Pc, ROpenedC,
           ROpenedS, RHolds, ROver2
  <2>11. \A k \in 1 .. SentAt[2][pc[R]] : \A v :
            TellR(k, v, RelayWords) => TellR(k, v, RelayWords')
    BY <2>1, <2>2, <2>3, <2>6, RelayWordsKept
  <2>12. \A i \in 1 .. Len(msgs) :
            TellR(SentAt[2][pc[R]] + i, msgs[i].val, RelayWords')
    <3>1. SentAt[2][pc[R]] = 5
      BY <2>3, <2>6
    <3>2. \A i \in 1 .. Len(msgs) : i \in {1, 2}
      BY <2>4
    <3> QED
      BY <2>2, <2>4, <3>1, <3>2 DEF TellR, RelayWords
  <2> QED
    BY <2>1, <2>2, <2>6, <2>7, <2>10, <2>11, <2>12, RelayDone
       DEF RHolds, ROver2
<1>2. CASE RPhase2
  <2> DEFINE msgs == <<Msg("op", r'.capp)>>
  <2>1. /\ At(R, "h2") /\ Goes(R, "ivc") /\ a' = a
        /\ Takes(R, "h2") /\ Passes(R, msgs) /\ srv' = srv
    BY <1>2 DEF RPhase2, Takes
  <2>2. /\ RelayFields \subseteq DOMAIN r' /\ r'.ok = r.ok
        /\ r'.x = r.x /\ r'.tr = r.tr
        /\ r'.h2 = Got(R)
        /\ r'.capp = CappOf(r.x, Got(R)) /\ r'.sapp = SappOf(r.x, Got(R))
    BY <1>2 DEF RPhase2, KInv, Fielded, RelayFields
  <2>3. /\ SentAt[2]["h2"] = 7 /\ SentAt[2]["ivc"] = 8
        /\ ReadAt[2]["h2"] = 5
    BY DEF SentAt, ReadAt
  <2>4. /\ Len(msgs) = 1 /\ \E T : msgs \in Seq(T)
        /\ msgs[1].val = r'.capp
    BY Listed DEF Msg
  <2> HIDE DEF msgs
  <2>5. SentAt[2]["ivc"] = SentAt[2]["h2"] + Len(msgs)
    BY <2>3, <2>4
  <2>6. /\ RelayPuts(msgs) /\ pc[R] = "h2" /\ pc'[R] = "ivc"
        /\ Alive(R)
    BY <2>1, <2>4, <2>5, RelayShape DEF RelayPc, At
  <2>7. ProviderKnows' /\ ServerFields \subseteq DOMAIN srv'
    BY <2>1, <2>6, ProviderWaits
  <2>8. /\ SfOf' = SfOf /\ AgentCapp' = AgentCapp /\ AgentSapp' = AgentSapp
    BY <2>1, AgentTerms DEF AgentSame
  <2>9. Got(R) = SfOf
    <3>1. TellA(ReadAt[2]["h2"] + 1, Got(R), AgentWords)
      BY <2>1, RelayHears DEF RelayPc, KInv
    <3>2. TellA(6, Got(R), AgentWords)
      BY <2>3, <3>1
    <3> QED
      BY <3>2 DEF TellA, AgentWords
  <2>10. RelayKnows'
    BY <2>2, <2>6, <2>8, <2>9
       DEF KInv, RelayKnows, RelayCapp, RelaySapp, RPhase2Pc, ROpenedC,
           ROpenedS, RHolds, ROver2
  <2>11. \A k \in 1 .. SentAt[2][pc[R]] : \A v :
            TellR(k, v, RelayWords) => TellR(k, v, RelayWords')
    BY <2>1, <2>2, <2>3, <2>6, RelayWordsKept
  <2>12. \A i \in 1 .. Len(msgs) :
            TellR(SentAt[2][pc[R]] + i, msgs[i].val, RelayWords')
    <3>1. SentAt[2][pc[R]] = 7
      BY <2>3, <2>6
    <3>2. \A i \in 1 .. Len(msgs) : i = 1
      BY <2>4
    <3> QED
      BY <2>2, <2>4, <2>6, <3>1, <3>2
         DEF TellR, RelayWords, RelayCapp, RelaySapp, KInv, RelayKnows
  <2> QED
    BY <2>1, <2>2, <2>6, <2>7, <2>10, <2>11, <2>12, RelayDone
       DEF RHolds, ROver2
<1>3. CASE ROpenIvC
  <2> DEFINE msgs == <<Msg("op", r.sapp)>>
  <2>1. /\ At(R, "ivc") /\ Goes(R, "ivs") /\ a' = a
        /\ Takes(R, "ivc") /\ Passes(R, msgs) /\ srv' = srv
    BY <1>3 DEF ROpenIvC, Takes
  <2>2. /\ RelayFields \subseteq DOMAIN r' /\ r'.ok = r.ok
        /\ r'.x = r.x /\ r'.tr = r.tr
        /\ r'.h2 = r.h2 /\ r'.sapp = r.sapp
        /\ r'.capp = Open(r.capp, Got(R))
    BY <1>3 DEF ROpenIvC, KInv, Fielded, RelayFields
  <2>3. /\ SentAt[2]["ivc"] = 8 /\ SentAt[2]["ivs"] = 9
        /\ ReadAt[2]["ivc"] = 6
    BY DEF SentAt, ReadAt
  <2>4. /\ Len(msgs) = 1 /\ \E T : msgs \in Seq(T)
        /\ msgs[1].val = r.sapp
    BY Listed DEF Msg
  <2> HIDE DEF msgs
  <2>5. SentAt[2]["ivs"] = SentAt[2]["ivc"] + Len(msgs)
    BY <2>3, <2>4
  <2>6. /\ RelayPuts(msgs) /\ pc[R] = "ivc" /\ pc'[R] = "ivs"
        /\ Alive(R)
    BY <2>1, <2>4, <2>5, RelayShape DEF RelayPc, At
  <2>7. ProviderKnows' /\ ServerFields \subseteq DOMAIN srv'
    BY <2>1, <2>6, ProviderWaits
  <2>8. /\ SfOf' = SfOf /\ AgentCapp' = AgentCapp /\ AgentSapp' = AgentSapp
    BY <2>1, AgentTerms DEF AgentSame
  <2>9. Got(R) = AgentCapp
    <3>1. TellA(ReadAt[2]["ivc"] + 1, Got(R), AgentWords)
      BY <2>1, RelayHears DEF RelayPc, KInv
    <3>2. TellA(7, Got(R), AgentWords)
      BY <2>3, <3>1
    <3> QED
      BY <3>2 DEF TellA, AgentWords
  <2>10. RelayKnows'
    BY <2>2, <2>6, <2>8, <2>9
       DEF KInv, RelayKnows, RelayCapp, RelaySapp, RPhase2Pc, ROpenedC,
           ROpenedS, RHolds, ROver2
  <2>11. \A k \in 1 .. SentAt[2][pc[R]] : \A v :
            TellR(k, v, RelayWords) => TellR(k, v, RelayWords')
    BY <2>1, <2>2, <2>3, <2>6, RelayWordsKept
  <2>12. \A i \in 1 .. Len(msgs) :
            TellR(SentAt[2][pc[R]] + i, msgs[i].val, RelayWords')
    <3>1. SentAt[2][pc[R]] = 8
      BY <2>3, <2>6
    <3>2. \A i \in 1 .. Len(msgs) : i = 1
      BY <2>4
    <3> QED
      BY <2>2, <2>4, <2>6, <3>1, <3>2
         DEF TellR, RelayWords, RelayCapp, RelaySapp, KInv, RelayKnows
  <2> QED
    BY <2>1, <2>2, <2>6, <2>7, <2>10, <2>11, <2>12, RelayDone
       DEF RHolds, ROver2
<1>4. CASE ROpenIvS
  <2> DEFINE msgs == <<>>
  <2>1. /\ At(R, "ivs") /\ Goes(R, "com") /\ a' = a
        /\ Takes(R, "ivs") /\ Passes(R, msgs) /\ srv' = srv
    BY <1>4 DEF ROpenIvS, Takes
  <2>2. /\ RelayFields \subseteq DOMAIN r' /\ r'.ok = r.ok
        /\ r'.x = r.x /\ r'.tr = r.tr
        /\ r'.h2 = r.h2 /\ r'.capp = r.capp
        /\ r'.sapp = Open(r.sapp, Got(R))
    BY <1>4 DEF ROpenIvS, KInv, Fielded, RelayFields
  <2>3. /\ SentAt[2]["ivs"] = 9 /\ SentAt[2]["com"] = 9
        /\ ReadAt[2]["ivs"] = 7
    BY DEF SentAt, ReadAt
  <2>4. /\ Len(msgs) = 0 /\ \E T : msgs \in Seq(T)
        /\ 1 .. Len(msgs) = {}
    BY Listed DEF Msg
  <2> HIDE DEF msgs
  <2>5. SentAt[2]["com"] = SentAt[2]["ivs"] + Len(msgs)
    BY <2>3, <2>4
  <2>6. /\ RelayPuts(msgs) /\ pc[R] = "ivs" /\ pc'[R] = "com"
        /\ Alive(R)
    BY <2>1, <2>4, <2>5, RelayShape DEF RelayPc, At
  <2>7. ProviderKnows' /\ ServerFields \subseteq DOMAIN srv'
    BY <2>1, <2>6, ProviderWaits
  <2>8. /\ SfOf' = SfOf /\ AgentCapp' = AgentCapp /\ AgentSapp' = AgentSapp
    BY <2>1, AgentTerms DEF AgentSame
  <2>9. Got(R) = AgentSapp
    <3>1. TellA(ReadAt[2]["ivs"] + 1, Got(R), AgentWords)
      BY <2>1, RelayHears DEF RelayPc, KInv
    <3>2. TellA(8, Got(R), AgentWords)
      BY <2>3, <3>1
    <3> QED
      BY <3>2 DEF TellA, AgentWords
  <2>10. RelayKnows'
    BY <2>2, <2>6, <2>8, <2>9
       DEF KInv, RelayKnows, RelayCapp, RelaySapp, RPhase2Pc, ROpenedC,
           ROpenedS, RHolds, ROver2
  <2>11. \A k \in 1 .. SentAt[2][pc[R]] : \A v :
            TellR(k, v, RelayWords) => TellR(k, v, RelayWords')
    BY <2>1, <2>2, <2>3, <2>6, RelayWordsKept
  <2>12. \A i \in 1 .. Len(msgs) :
            TellR(SentAt[2][pc[R]] + i, msgs[i].val, RelayWords')
    BY <2>4
  <2> QED
    BY <2>1, <2>2, <2>6, <2>7, <2>10, <2>11, <2>12, RelayDone
       DEF RHolds, ROver2
<1>5. CASE RReveal
  <2> DEFINE msgs == <<Msg("tksr", r.sapp)>>
  <2>1. /\ At(R, "com") /\ Goes(R, "cf") /\ a' = a
        /\ Takes(R, "com") /\ Passes(R, msgs) /\ srv' = srv
    BY <1>5 DEF RReveal, Takes
  <2>2. /\ RelayFields \subseteq DOMAIN r' /\ r'.ok = r.ok
        /\ r'.x = r.x /\ r'.tr = r.tr
        /\ r'.h2 = r.h2 /\ r'.capp = r.capp /\ r'.sapp = r.sapp
        /\ r'.com = Got(R)
    BY <1>5 DEF RReveal, KInv, Fielded, RelayFields
  <2>3. /\ SentAt[2]["com"] = 9 /\ SentAt[2]["cf"] = 10
        /\ ReadAt[2]["com"] = 8
    BY DEF SentAt, ReadAt
  <2>4. /\ Len(msgs) = 1 /\ \E T : msgs \in Seq(T)
        /\ msgs[1].val = r.sapp
    BY Listed DEF Msg
  <2> HIDE DEF msgs
  <2>5. SentAt[2]["cf"] = SentAt[2]["com"] + Len(msgs)
    BY <2>3, <2>4
  <2>6. /\ RelayPuts(msgs) /\ pc[R] = "com" /\ pc'[R] = "cf"
        /\ Alive(R)
    BY <2>1, <2>4, <2>5, RelayShape DEF RelayPc, At
  <2>7. ProviderKnows' /\ ServerFields \subseteq DOMAIN srv'
    BY <2>1, <2>6, ProviderWaits
  <2>8. /\ SfOf' = SfOf /\ AgentCapp' = AgentCapp /\ AgentSapp' = AgentSapp
    BY <2>1, AgentTerms DEF AgentSame
  <2>9. Got(R) = AgentSapp
    <3>1. TellA(ReadAt[2]["com"] + 1, Got(R), AgentWords)
      BY <2>1, RelayHears DEF RelayPc, KInv
    <3>2. TellA(9, Got(R), AgentWords)
      BY <2>3, <3>1
    <3> QED
      BY <3>2 DEF TellA, AgentWords
  <2>10. RelayKnows'
    BY <2>2, <2>6, <2>8, <2>9
       DEF KInv, RelayKnows, RelayCapp, RelaySapp, RPhase2Pc, ROpenedC,
           ROpenedS, RHolds, ROver2
  <2>11. \A k \in 1 .. SentAt[2][pc[R]] : \A v :
            TellR(k, v, RelayWords) => TellR(k, v, RelayWords')
    BY <2>1, <2>2, <2>3, <2>6, RelayWordsKept
  <2>12. \A i \in 1 .. Len(msgs) :
            TellR(SentAt[2][pc[R]] + i, msgs[i].val, RelayWords')
    <3>1. SentAt[2][pc[R]] = 9
      BY <2>3, <2>6
    <3>2. \A i \in 1 .. Len(msgs) : i = 1
      BY <2>4
    <3> QED
      BY <2>2, <2>4, <2>6, <3>1, <3>2
         DEF TellR, RelayWords, RelayCapp, RelaySapp, KInv, RelayKnows
  <2> QED
    BY <2>1, <2>2, <2>6, <2>7, <2>10, <2>11, <2>12, RelayDone
       DEF RHolds, ROver2
<1> QED
  BY <1>1, <1>2, <1>3, <1>4, <1>5

\* on_client_finished on the record the agent made.
LEMMA ProviderFinishes ==
    ASSUME KInv, NEW rec, ClientFinished(rec), ~ FinishedRaises(rec),
           pc[R] = "cf", pc'[R] = "over", Alive(R),
           rec = Rec(a.chts, 0, "hs", Finished(a.chts, SfOf))
    PROVE  /\ ProviderKnows' /\ ServerFields \subseteq DOMAIN srv'
           /\ FinishedOk(rec) =>
                /\ srv'.established /\ srv'.chts = a.chts /\ srv'.sfTr = SfOf
                /\ srv'.transcript = Append(srv'.sfTr, CF)
<1>1. srv.hello /\ srv.transcript = srv.sfTr
  BY DEF FinishedRaises, KInv, ProviderKnows
<1>2. ServerFields \subseteq DOMAIN srv
  BY DEF KInv, Fielded
<1>3. CASE ~ FinishedOk(rec) /\ srv' = [srv EXCEPT !.hsSeqC = @ + 1]
  <2>1. /\ ServerFields \subseteq DOMAIN srv'
        /\ srv'.chts = srv.chts /\ srv'.capp = srv.capp
        /\ srv'.sapp = srv.sapp /\ srv'.sfTr = srv.sfTr /\ srv'.hello
        /\ srv'.seqC = srv.seqC /\ srv'.seqS = srv.seqS
    BY <1>1, <1>2, <1>3 DEF ServerFields
  <2>2. ProviderKnows'
    BY <1>1, <2>1 DEF KInv, ProviderKnows, Alive
  <2> QED
    BY <1>3, <2>1, <2>2
<1>4. CASE FinishedOk(rec) /\ srv' = Confirmed(srv)
  <2>1. /\ ServerFields \subseteq DOMAIN srv'
        /\ srv'.chts = srv.chts /\ srv'.capp = srv.capp
        /\ srv'.sapp = srv.sapp /\ srv'.sfTr = srv.sfTr /\ srv'.hello
        /\ srv'.seqC = srv.seqC /\ srv'.seqS = srv.seqS
        /\ srv'.established /\ srv'.transcript = Append(srv.transcript, CF)
    BY <1>1, <1>2, <1>4 DEF ServerFields, Confirmed
  <2>2. ProviderKnows'
    BY <1>1, <2>1 DEF KInv, ProviderKnows, Alive
  <2>3. rec.key = srv.chts /\ rec.body = Finished(srv.chts, srv.sfTr)
    BY <1>4 DEF FinishedOk, Opens
  <2>4. rec.key = a.chts /\ rec.body = Finished(a.chts, SfOf)
    BY DEF Rec
  <2>5. Finished(a.chts, SfOf).over = SfOf
    BY DEF Finished
  <2>6. Finished(srv.chts, srv.sfTr).over = srv.sfTr
    BY DEF Finished
  <2>7. srv.chts = a.chts /\ srv.sfTr = SfOf
    BY <2>3, <2>4, <2>5, <2>6
  <2> QED
    BY <1>1, <2>1, <2>2, <2>7
<1> QED
  BY <1>1, <1>3, <1>4 DEF ClientFinished

LEMMA RelayConfirms ==
    ASSUME PInv, KInv, RFinished PROVE KInv'
<1> DEFINE rec == Got(R)
           msgs == <<Msg("cfok", FinishedOk(rec))>>
<1>1. /\ At(R, "cf") /\ Goes(R, "over") /\ a' = a
      /\ Takes(R, "cf") /\ Passes(R, msgs)
      /\ ClientFinished(rec) /\ ~ FinishedRaises(rec)
  BY DEF RFinished, Takes
<1>2. /\ RelayFields \subseteq DOMAIN r' /\ r'.ok = FinishedOk(rec)
      /\ r'.x = r.x /\ r'.tr = r.tr /\ r'.h2 = r.h2
      /\ r'.capp = r.capp /\ r'.sapp = r.sapp /\ r'.com = r.com
  BY DEF RFinished, KInv, Fielded, RelayFields
<1>3. /\ SentAt[2]["cf"] = 10 /\ SentAt[2]["over"] = 11
      /\ ReadAt[2]["cf"] = 9
  BY DEF SentAt, ReadAt
<1>4. /\ Len(msgs) = 1 /\ \E T : msgs \in Seq(T)
      /\ msgs[1].val = FinishedOk(rec)
  BY Listed DEF Msg
<1> HIDE DEF msgs
<1>5. SentAt[2]["over"] = SentAt[2]["cf"] + Len(msgs)
  BY <1>3, <1>4
<1>6. /\ RelayPuts(msgs) /\ pc[R] = "cf" /\ pc'[R] = "over"
      /\ Alive(R)
  BY <1>1, <1>4, <1>5, RelayShape DEF RelayPc, At
<1>7. rec = Rec(a.chts, 0, "hs", Finished(a.chts, SfOf))
  <2>1. TellA(ReadAt[2]["cf"] + 1, Got(R), AgentWords)
    BY <1>1, RelayHears DEF RelayPc, KInv
  <2>2. TellA(10, Got(R), AgentWords)
    BY <1>3, <2>1
  <2> QED
    BY <2>2 DEF TellA, AgentWords
<1> HIDE DEF rec
<1>8. /\ ProviderKnows' /\ ServerFields \subseteq DOMAIN srv'
      /\ FinishedOk(rec) =>
           /\ srv'.established /\ srv'.chts = a.chts /\ srv'.sfTr = SfOf
           /\ srv'.transcript = Append(srv'.sfTr, CF)
  BY <1>1, <1>6, <1>7, ProviderFinishes
<1>9. /\ SfOf' = SfOf /\ AgentCapp' = AgentCapp /\ AgentSapp' = AgentSapp
  BY <1>1, AgentTerms DEF AgentSame
<1>10. RelayKnows'
  <2>1. r'.ok => FinishedOk(rec)
    BY <1>2
  <2> QED
    BY <1>1, <1>2, <1>6, <1>8, <1>9, <2>1
       DEF KInv, RelayKnows, RelayCapp, RelaySapp, RPhase2Pc, ROpenedC,
           ROpenedS, RHolds, ROver2
<1>11. \A k \in 1 .. SentAt[2][pc[R]] : \A v :
          TellR(k, v, RelayWords) => TellR(k, v, RelayWords')
  BY <1>1, <1>2, <1>3, <1>6, RelayWordsKept
<1>12. \A i \in 1 .. Len(msgs) :
          TellR(SentAt[2][pc[R]] + i, msgs[i].val, RelayWords')
  <2>1. SentAt[2][pc[R]] = 10
    BY <1>3, <1>6
  <2>2. \A i \in 1 .. Len(msgs) : i = 1
    BY <1>4
  <2> QED
    BY <1>2, <1>4, <2>1, <2>2 DEF TellR, RelayWords
<1>13. ~ r.ok
  BY <1>6 DEF KInv, RelayKnows, ROver2
<1> QED
  BY <1>1, <1>2, <1>6, <1>8, <1>10, <1>11, <1>12, <1>13, RelayDone

\* Steps after the handshake: what the relay says then, apart from the
\* answer, is said by the agent's side of the query too.
LEMMA RelayIdles ==
    ASSUME PInv, KInv, NEW p \in ROver2 \ {"done"},
           NEW p2 \in ROver2 \ {"done"}, NEW msgs, \E T : msgs \in Seq(T),
           At(R, p), Goes(R, p2), a' = a, r' = r, srv' = srv,
           \/ Takes(R, p) /\ Passes(R, msgs)
           \/ q' = q /\ msgs = <<>>,
           SentAt[2][p2] = SentAt[2][p] + Len(msgs)
    PROVE  KInv'
<1>1. p2 \in RelayPc
  BY DEF ROver2, RelayPc
<1>2. /\ RelayPuts(msgs) /\ pc[R] = p /\ pc'[R] = p2 /\ Alive(R)
  BY <1>1, RelayShape DEF At
<1>3. ProviderKnows' /\ ServerFields \subseteq DOMAIN srv'
  BY <1>2, ProviderWaits DEF ROver2
<1>4. /\ SfOf' = SfOf /\ AgentCapp' = AgentCapp /\ AgentSapp' = AgentSapp
      /\ RelayCapp' = RelayCapp /\ RelaySapp' = RelaySapp
  BY AgentTerms, RelayTerms DEF AgentSame
<1>5. RelayKnows'
  BY <1>2, <1>4
     DEF KInv, RelayKnows, RPhase2Pc, ROpenedC, ROpenedS, RHolds, ROver2
<1>6. SentAt[2][p] \in 11 .. 14 /\ SentAt[2][p2] \in 11 .. 14
  BY DEF ROver2, SentAt
<1>7. \A k \in 1 .. SentAt[2][pc[R]] : \A v :
          TellR(k, v, RelayWords) => TellR(k, v, RelayWords')
  BY <1>2, <1>6, RelayWordsKept
<1>8. \A i \in 1 .. Len(msgs) :
          TellR(SentAt[2][pc[R]] + i, msgs[i].val, RelayWords')
  <2>1. PICK T : msgs \in Seq(T)
    OBVIOUS
  <2>2. Len(msgs) \in Nat
    BY <2>1, LenProperties
  <2>3. \A i \in 1 .. Len(msgs) : SentAt[2][p] + i \in 12 .. 14
    BY <1>6, <2>2
  <2> QED
    BY <1>2, <2>3 DEF TellR
<1>9. RelayFields \subseteq DOMAIN r'
  BY DEF KInv, Fielded
<1> QED
  BY <1>2, <1>3, <1>5, <1>7, <1>8, <1>9, RelayDone

LEMMA RelayQuerySteps ==
    ASSUME PInv, KInv,
           \/ RBuild
           \/ RSegments
           \/ RKeyShare
           \/ RSeal
    PROVE  KInv'
<1>1. CASE RBuild
  <2> DEFINE msgs == <<>>
  <2>1. /\ At(R, "over") /\ Goes(R, "seg") /\ a' = a /\ r' = r /\ srv' = srv
        /\ q' = q /\ msgs = <<>>
    BY <1>1 DEF RBuild, Takes
  <2>2. SentAt[2]["over"] = 11 /\ SentAt[2]["seg"] = 11
    BY DEF SentAt
  <2>3. Len(msgs) = 0 /\ \E T : msgs \in Seq(T)
    BY Listed
  <2> HIDE DEF msgs
  <2>4. /\ "over" \in ROver2 \ {"done"} /\ "seg" \in ROver2 \ {"done"}
    BY DEF ROver2
  <2>5. SentAt[2]["seg"] = SentAt[2]["over"] + Len(msgs)
    BY <2>2, <2>3
  <2> QED
    BY <2>1, <2>3, <2>4, <2>5, RelayIdles
<1>2. CASE RSegments
  <2> DEFINE msgs == <<>>
  <2>1. /\ At(R, "seg") /\ Goes(R, "tka") /\ a' = a /\ r' = r /\ srv' = srv
        /\ Takes(R, "seg") /\ Passes(R, msgs)
    BY <1>2 DEF RSegments, Takes
  <2>2. SentAt[2]["seg"] = 11 /\ SentAt[2]["tka"] = 11
    BY DEF SentAt
  <2>3. Len(msgs) = 0 /\ \E T : msgs \in Seq(T)
    BY Listed
  <2> HIDE DEF msgs
  <2>4. /\ "seg" \in ROver2 \ {"done"} /\ "tka" \in ROver2 \ {"done"}
    BY DEF ROver2
  <2>5. SentAt[2]["tka"] = SentAt[2]["seg"] + Len(msgs)
    BY <2>2, <2>3
  <2> QED
    BY <2>1, <2>3, <2>4, <2>5, RelayIdles
<1>3. CASE RKeyShare
  <2> DEFINE msgs == <<Msg("sim.t", r.capp), Msg("op", None)>>
  <2>1. /\ At(R, "tka") /\ Goes(R, "gcm") /\ a' = a /\ r' = r /\ srv' = srv
        /\ Takes(R, "tka") /\ Passes(R, msgs)
    BY <1>3 DEF RKeyShare, Takes
  <2>2. SentAt[2]["tka"] = 11 /\ SentAt[2]["gcm"] = 13
    BY DEF SentAt
  <2>3. Len(msgs) = 2 /\ \E T : msgs \in Seq(T)
    BY Listed
  <2> HIDE DEF msgs
  <2>4. /\ "tka" \in ROver2 \ {"done"} /\ "gcm" \in ROver2 \ {"done"}
    BY DEF ROver2
  <2>5. SentAt[2]["gcm"] = SentAt[2]["tka"] + Len(msgs)
    BY <2>2, <2>3
  <2> QED
    BY <2>1, <2>3, <2>4, <2>5, RelayIdles
<1>4. CASE RSeal
  <2> DEFINE msgs == <<Msg("op", r.capp)>>
  <2>1. /\ At(R, "gcm") /\ Goes(R, "ct") /\ a' = a /\ r' = r /\ srv' = srv
        /\ Takes(R, "gcm") /\ Passes(R, msgs)
    BY <1>4 DEF RSeal, Takes
  <2>2. SentAt[2]["gcm"] = 13 /\ SentAt[2]["ct"] = 14
    BY DEF SentAt
  <2>3. Len(msgs) = 1 /\ \E T : msgs \in Seq(T)
    BY Listed
  <2> HIDE DEF msgs
  <2>4. /\ "gcm" \in ROver2 \ {"done"} /\ "ct" \in ROver2 \ {"done"}
    BY DEF ROver2
  <2>5. SentAt[2]["ct"] = SentAt[2]["gcm"] + Len(msgs)
    BY <2>2, <2>3
  <2> QED
    BY <2>1, <2>3, <2>4, <2>5, RelayIdles
<1> QED
  BY <1>1, <1>2, <1>3, <1>4

-----------------------------------------------------------------------------
(***************************************************************************)
(* The record of the query: that it opens means the three parties derived  *)
(* the same application keys.                                              *)
(***************************************************************************)
LEMMA Opened ==
    ASSUME NEW u, NEW v, NEW w, Open(u, v) = w, w # Garbage
    PROVE  u = w /\ v = w
BY DEF Open

LEMMA CappReal ==
    ASSUME NEW x, NEW t PROVE CappOf(x, t) # Garbage
<1>1. CappOf(x, t).label = "c ap traffic" /\ Garbage.label = "none"
  BY DEF CappOf, Garbage, Secret
<1> QED
  BY <1>1

LEMMA ChtsReal ==
    ASSUME NEW x, NEW t PROVE ChtsOf(x, t) # Garbage
<1>1. ChtsOf(x, t).label = "c hs traffic" /\ Garbage.label = "none"
  BY DEF ChtsOf, Garbage, Secret
<1> QED
  BY <1>1

LEMMA KeysOfCapp ==
    ASSUME NEW x1, NEW t1, NEW x2, NEW t2, NEW x3, NEW t3,
           Open(Open(CappOf(x2, t2), CappOf(x1, t1)),
                Open(CappOf(x1, t1), CappOf(x2, t2))) = CappOf(x3, t3)
    PROVE  x1 = x3 /\ x2 = x3 /\ t1 = t3 /\ t2 = t3
<1>1. Open(CappOf(x2, t2), CappOf(x1, t1)) = CappOf(x3, t3)
  BY CappReal, Opened
<1>2. CappOf(x2, t2) = CappOf(x3, t3) /\ CappOf(x1, t1) = CappOf(x3, t3)
  BY <1>1, CappReal, Opened
<1>3. /\ CappOf(x1, t1).x = x1 /\ CappOf(x1, t1).tr = t1
      /\ CappOf(x2, t2).x = x2 /\ CappOf(x2, t2).tr = t2
      /\ CappOf(x3, t3).x = x3 /\ CappOf(x3, t3).tr = t3
  BY DEF CappOf, Secret
<1> QED
  BY <1>2, <1>3

\* The answer to a query that opens is sealed under the key the agent
\* joined, as record 0.
LEMMA AnswerFits ==
    ASSUME PInv, KInv, At(R, "ct"), Got(R) = a.capp,
           QueryAnswered(QueryRecord(r.capp, Got(R)))
    PROVE  Opens(Response(Answered(srv)), a.tk, 0)
<1>1. pc[A] \in ASigned /\ pc[R] = "ct" /\ Alive(R)
  BY Order DEF At, ROver2
<1>2. /\ a.tk = Open(a.com, r.sapp) /\ a.com = AgentSapp
      /\ a.capp = Open(AgentCapp, RelayCapp)
  BY <1>1 DEF KInv, AgentKnows, AOpenedC, ACommitted
<1>3. /\ r.capp = Open(RelayCapp, AgentCapp)
      /\ r.sapp = Open(RelaySapp, AgentSapp)
  BY <1>1 DEF KInv, RelayKnows, ROpenedC, ROpenedS, RHolds, ROver2
<1>4. /\ Rec(Open(r.capp, a.capp), 0, "app", Plain("QUERY")).key = srv.capp
      /\ Rec(Open(r.capp, a.capp), 0, "app", Plain("QUERY")).seq = srv.seqC
      /\ srv.established
  BY DEF QueryAnswered, QueryOpens, QueryRecord, Opens
<1>5. Open(r.capp, a.capp) = srv.capp /\ srv.seqC = 0
  BY <1>4 DEF Rec
<1>6. /\ srv.capp = CappOf(srv.chts.x, srv.sfTr)
      /\ srv.sapp = SappOf(srv.chts.x, srv.sfTr)
      /\ srv.seqS = 0
  BY <1>1, <1>4, <1>5 DEF KInv, ProviderKnows
<1>7. /\ a.x = srv.chts.x /\ r.x = srv.chts.x
      /\ SfOf = srv.sfTr /\ r.h2 = srv.sfTr
  BY <1>2, <1>3, <1>5, <1>6, KeysOfCapp DEF AgentCapp, RelayCapp
<1>8. AgentSapp = srv.sapp /\ RelaySapp = srv.sapp
  BY <1>6, <1>7 DEF AgentSapp, RelaySapp
<1>9. a.tk = srv.sapp
  BY <1>2, <1>3, <1>8 DEF Open
<1>10. Answered(srv).sapp = srv.sapp /\ Answered(srv).seqS = 0 + 1
  BY <1>6 DEF Answered, KInv, Fielded, ServerFields
<1>11. /\ Response(Answered(srv)).key = srv.sapp
       /\ Response(Answered(srv)).seq = 0
  BY <1>10 DEF Response, Rec
<1> QED
  BY <1>9, <1>11 DEF Opens

\* on_query moves nothing but the two sequence numbers.
LEMMA ProviderQueried ==
    ASSUME KInv, NEW rec, Query(rec)
    PROVE  /\ ServerFields \subseteq DOMAIN srv'
           /\ srv'.established = srv.established /\ srv'.hello = srv.hello
           /\ srv'.chts = srv.chts /\ srv'.capp = srv.capp
           /\ srv'.sapp = srv.sapp /\ srv'.sfTr = srv.sfTr
           /\ srv'.transcript = srv.transcript
<1>1. ServerFields \subseteq DOMAIN srv
  BY DEF KInv, Fielded
<1>2. CASE srv' = srv
  BY <1>1, <1>2
<1>3. CASE srv' = [srv EXCEPT !.seqC = @ + 1]
  BY <1>1, <1>3 DEF ServerFields
<1>4. CASE srv' = Answered(srv)
  BY <1>1, <1>4 DEF ServerFields, Answered
<1> QED
  BY <1>2, <1>3, <1>4 DEF Query

LEMMA RelayAnswers ==
    ASSUME PInv, KInv, RForward,
           NEW rec, rec = QueryRecord(r.capp, Got(R))
    PROVE  KInv'
<1>1. /\ Takes(R, "ct") /\ At(R, "ct") /\ Query(rec) /\ a' = a /\ r' = r
      /\ QueryAnswered(rec) =>
           /\ Passes(R, <<Msg("resp", Response(srv'))>>)
           /\ Goes(R, "done")
      /\ ~ QueryAnswered(rec) => Passes(R, <<>>) /\ Dies(R, "raised")
  BY DEF RForward, Takes
<1>2. Got(R) = a.capp
  <2>1. TellA(ReadAt[2]["ct"] + 1, Got(R), AgentWords)
    BY <1>1, RelayHears DEF RelayPc, KInv
  <2>2. ReadAt[2]["ct"] = 13
    BY DEF ReadAt
  <2>3. TellA(14, Got(R), AgentWords)
    BY <2>1, <2>2
  <2> QED
    BY <2>3 DEF TellA, AgentWords
<1>3. /\ ServerFields \subseteq DOMAIN srv'
      /\ srv'.established = srv.established /\ srv'.hello = srv.hello
      /\ srv'.chts = srv.chts /\ srv'.capp = srv.capp
      /\ srv'.sapp = srv.sapp /\ srv'.sfTr = srv.sfTr
      /\ srv'.transcript = srv.transcript
  BY <1>1, ProviderQueried
<1>4. /\ SfOf' = SfOf /\ AgentCapp' = AgentCapp /\ AgentSapp' = AgentSapp
      /\ RelayCapp' = RelayCapp /\ RelaySapp' = RelaySapp
  BY <1>1, AgentTerms, RelayTerms DEF AgentSame
<1>5. /\ SentAt[2]["ct"] = 14 /\ SentAt[2]["done"] = 15
      /\ pc[R] = "ct" /\ "ct" \in RelayPc /\ "done" \in RelayPc
      /\ RelayFields \subseteq DOMAIN r'
  BY <1>1 DEF SentAt, At, RelayPc, KInv, Fielded
<1>6. \A k \in 1 .. SentAt[2][pc[R]] : \A v :
          TellR(k, v, RelayWords) => TellR(k, v, RelayWords')
  BY <1>1, <1>5, RelayWordsKept
<1>7. CASE QueryAnswered(rec)
  <2> DEFINE msgs == <<Msg("resp", Response(srv'))>>
  <2>1. srv' = Answered(srv)
    BY <1>1, <1>7 DEF Query, QueryAnswered
  <2>2. Opens(Response(srv'), a.tk, 0)
    BY <1>1, <1>2, <1>7, <2>1, AnswerFits
  <2>3. /\ Len(msgs) = 1 /\ \E T : msgs \in Seq(T)
        /\ msgs[1].val = Response(srv')
    BY Listed DEF Msg
  <2>4. Passes(R, msgs) /\ Goes(R, "done")
    BY <1>1, <1>7
  <2> HIDE DEF msgs
  <2>5. SentAt[2]["done"] = SentAt[2]["ct"] + Len(msgs)
    BY <1>5, <2>3
  <2>6. RelayPuts(msgs) /\ pc'[R] = "done"
    BY <1>1, <1>5, <2>3, <2>4, <2>5, RelayShape
  <2>7. RelayKnows'
    BY <1>1, <1>3, <1>4, <1>5, <2>6
       DEF KInv, RelayKnows, RPhase2Pc, ROpenedC, ROpenedS, RHolds, ROver2
  <2>8. ProviderKnows'
    BY <1>3, <2>6 DEF KInv, ProviderKnows
  <2>9. \A i \in 1 .. Len(msgs) :
          TellR(SentAt[2][pc[R]] + i, msgs[i].val, RelayWords')
    <3>1. \A i \in 1 .. Len(msgs) : i = 1 /\ SentAt[2][pc[R]] + i = 15
      BY <1>5, <2>3
    <3>2. RelayWords'.tk = a.tk
      BY <1>1 DEF RelayWords
    <3>3. TellR(15, Response(srv'), RelayWords')
      BY <2>2, <3>2 DEF TellR
    <3> QED
      BY <2>3, <3>1, <3>3
  <2> QED
    BY <1>1, <1>3, <1>5, <1>6, <2>6, <2>7, <2>8, <2>9, RelayDone
<1>8. CASE ~ QueryAnswered(rec)
  <2> DEFINE msgs == <<>>
  <2>1. Passes(R, msgs) /\ Dies(R, "raised")
    BY <1>1, <1>8
  <2>2. /\ pc' = pc /\ ~ Alive(R)'
    BY <2>1, Sides DEF Dies, Alive, PInv, Typed
  <2>3. Len(msgs) = 0 /\ \E T : msgs \in Seq(T)
    BY Listed
  <2> HIDE DEF msgs
  <2>4. /\ q'[R] = q[R] \o msgs
        /\ q[A] # <<>> /\ q'[A] = Tail(q[A])
    BY <1>1, <2>1, <2>3, Sides, PassQueues DEF Takes, PInv
  <2>5. RelayPuts(msgs)
    BY <1>1, <1>5, <2>2, <2>3, <2>4 DEF RelayPuts
  <2>6. RelayKnows'
    BY <1>1, <1>3, <1>4, <1>5, <2>2
       DEF KInv, RelayKnows, RPhase2Pc, ROpenedC, ROpenedS, RHolds, ROver2
  <2>7. ProviderKnows'
    BY <1>3, <1>5, <2>2 DEF KInv, ProviderKnows
  <2>8. \A i \in 1 .. Len(msgs) :
          TellR(SentAt[2][pc[R]] + i, msgs[i].val, RelayWords')
    BY <2>3
  <2> QED
    BY <1>1, <1>3, <1>5, <1>6, <2>5, <2>6, <2>7, <2>8, RelayDone
<1> QED
  BY <1>7, <1>8

\* The relay's thread ends where it stands.
LEMMA RelayFails ==
    ASSUME PInv, KInv, RecvFails(R) PROVE KInv'
<1> DEFINE msgs == <<>>
<1>1. /\ a' = a /\ r' = r /\ srv' = srv /\ Alive(R)
      /\ \E how : Dies(R, how)
      /\ \/ q' = q
         \/ q[Peer(R)] # <<>> /\ Passes(R, <<>>)
  BY DEF RecvFails, Desync, Expire, Waiting
<1>2. pc' = pc
  BY <1>1 DEF Dies
<1>3. /\ q'[R] = q[R] \o msgs
      /\ \/ q'[A] = q[A]
         \/ q[A] # <<>> /\ q'[A] = Tail(q[A])
  <2>1. PICK S : q[R] \in Seq(S)
    BY DEF PInv, Typed
  <2>2. CASE q' = q
    BY <2>1, <2>2, ConcatEmptySeq
  <2>3. CASE q[Peer(R)] # <<>> /\ Passes(R, <<>>)
    BY <2>3, Sides, Listed, PassQueues DEF PInv
  <2> QED
    BY <1>1, <2>2, <2>3
<1>4. Len(msgs) = 0 /\ 1 .. Len(msgs) = {} /\ \E T : msgs \in Seq(T)
  BY Listed
<1> HIDE DEF msgs
<1>5. RelayPuts(msgs)
  BY <1>1, <1>2, <1>3, <1>4, Lengths DEF RelayPuts, PInv, Typed
<1>6. /\ SfOf' = SfOf /\ AgentCapp' = AgentCapp /\ AgentSapp' = AgentSapp
      /\ RelayCapp' = RelayCapp /\ RelaySapp' = RelaySapp
  BY <1>1, AgentTerms, RelayTerms DEF AgentSame
<1>7. RelayKnows'
  BY <1>1, <1>2, <1>6 DEF KInv, RelayKnows
<1>8. ProviderKnows' /\ ServerFields \subseteq DOMAIN srv'
  BY <1>1, <1>2, ProviderStill DEF KInv, Fielded
<1>9. RelayWords' = RelayWords
  BY <1>1 DEF RelayWords, RelayCapp, RelaySapp
<1>10. RelayFields \subseteq DOMAIN r'
  BY <1>1 DEF KInv, Fielded
<1>11. \A k \in 1 .. SentAt[2][pc[R]] : \A v :
          TellR(k, v, RelayWords) => TellR(k, v, RelayWords')
  BY <1>9
<1> QED
  BY <1>1, <1>4, <1>5, <1>7, <1>8, <1>10, <1>11, RelayDone

-----------------------------------------------------------------------------
(***************************************************************************)
(* A provider that has served a connection already, and the first state.   *)
(***************************************************************************)
LEMMA UsedProvider ==
    ASSUME NEW n, NEW c, NEW y, NEW s, s = Used(n, c, y)
    PROVE  /\ ServerFields \subseteq DOMAIN s /\ s.hello
           /\ s.chts = ChtsOf(s.chts.x, s.chts.tr)
           /\ s.capp = CappOf(s.chts.x, s.sfTr)
           /\ s.sapp = SappOf(s.chts.x, s.sfTr)
           /\ s.seqC = s.seqS
<1>1. PICK f : f = Fresh(n, c, y)
  OBVIOUS
<1>2. /\ ServerFields \subseteq DOMAIN f /\ f.seqC = 0 /\ f.seqS = 0
  BY <1>1 DEF Fresh, ServerFields
<1>3. PICK g : g = Greeted(f, 0)
  OBVIOUS
<1>4. PICK xc, hs, sf :
        g = [f EXCEPT !.transcript = sf, !.sfTr = sf,
                  !.chts = Secret("c hs traffic", xc, hs),
                  !.shts = Secret("s hs traffic", xc, hs),
                  !.capp = Secret("c ap traffic", xc, sf),
                  !.sapp = Secret("s ap traffic", xc, sf),
                  !.hsSeqS = 1, !.hsSeqC = 0, !.hello = TRUE]
  BY <1>3 DEF Greeted
<1>5. /\ ServerFields \subseteq DOMAIN g
      /\ g.sfTr = sf /\ g.hello
      /\ g.chts = Secret("c hs traffic", xc, hs)
      /\ g.capp = Secret("c ap traffic", xc, sf)
      /\ g.sapp = Secret("s ap traffic", xc, sf)
      /\ g.seqC = 0 /\ g.seqS = 0
  BY <1>2, <1>4 DEF ServerFields
<1>6. PICK h : h = Confirmed(g)
  OBVIOUS
<1>7. /\ ServerFields \subseteq DOMAIN h
      /\ h.sfTr = g.sfTr /\ h.hello /\ h.chts = g.chts
      /\ h.capp = g.capp /\ h.sapp = g.sapp /\ h.seqC = 0 /\ h.seqS = 0
  BY <1>5, <1>6 DEF Confirmed, ServerFields
<1>8. s = Answered(h)
  BY <1>1, <1>3, <1>6 DEF Used
<1>9. /\ ServerFields \subseteq DOMAIN s
      /\ s.sfTr = h.sfTr /\ s.hello /\ s.chts = h.chts
      /\ s.capp = h.capp /\ s.sapp = h.sapp
      /\ s.seqC = 0 + 1 /\ s.seqS = 0 + 1
  BY <1>7, <1>8 DEF Answered, ServerFields
<1>10. /\ s.sfTr = sf /\ s.chts = Secret("c hs traffic", xc, hs)
       /\ s.capp = Secret("c ap traffic", xc, sf)
       /\ s.sapp = Secret("s ap traffic", xc, sf)
  BY <1>5, <1>7, <1>9
<1>11. /\ Secret("c hs traffic", xc, hs).x = xc
       /\ Secret("c hs traffic", xc, hs).tr = hs
  BY DEF Secret
<1>12. s.chts.x = xc /\ s.chts.tr = hs
  BY <1>10, <1>11
<1> QED
  BY <1>9, <1>10, <1>12 DEF ChtsOf, CappOf, SappOf

LEMMA KeyStart == PInit => KInv
<1> SUFFICES ASSUME PInit PROVE KInv
  OBVIOUS
<1>1. /\ pc[A] = "start" /\ pc[R] = "za" /\ q[A] = <<>> /\ q[R] = <<>>
  BY Sides DEF PInit, Init
<1>2. /\ AgentFields \subseteq DOMAIN a /\ a.tk = None /\ ~ a.ok
      /\ RelayFields \subseteq DOMAIN r /\ ~ r.ok
  BY DEF PInit, Init, AgentFields, RelayFields
<1>3. ServerFields \subseteq DOMAIN srv /\ ProviderKnows
  <2>1. PICK n \in Name, c \in CA, y \in Scalar :
          srv = Fresh(n, c, y) \/ srv = Used(n, c, y)
    BY DEF PInit, Init
  <2>2. CASE srv = Fresh(n, c, y)
    <3>1. /\ ServerFields \subseteq DOMAIN srv
          /\ ~ srv.hello /\ ~ srv.established /\ srv.seqC = srv.seqS
      BY <2>2 DEF Fresh, ServerFields
    <3> QED
      BY <1>1, <3>1 DEF ProviderKnows
  <2>3. CASE srv = Used(n, c, y)
    BY <1>1, <2>3, UsedProvider DEF ProviderKnows
  <2> QED
    BY <2>1, <2>2, <2>3
<1>4. AgentSaid /\ RelaySaid
  BY <1>1 DEF AgentSaid, RelaySaid, Say
<1>5. AgentKnows /\ RelayKnows
  BY <1>1, <1>2
     DEF AgentKnows, RelayKnows, AOpenedH, APhase2, AOpenedC, ACommitted,
         ASigned, RPhase2Pc, ROpenedC, ROpenedS, RHolds, ROver2
<1> QED
  BY <1>2, <1>3, <1>4, <1>5 DEF KInv, Fielded

LEMMA KeyStep == PInv /\ KInv /\ [PNext]_pvars => KInv'
<1> SUFFICES ASSUME PInv, KInv, [PNext]_pvars PROVE KInv'
  OBVIOUS
<1>1. CASE AStep
  <2>1. CASE AHandshake
    BY <2>1, AgentEarlySteps, AgentVerifySteps, AgentConfirms, AgentFails
       DEF AHandshake
  <2>2. CASE AQuery
    BY <2>2, AgentQuerySteps, AgentFails DEF AQuery, AResponse
  <2>3. CASE RecvFails(A)
    BY <2>3, AgentFails
  <2> QED
    BY <1>1, <2>1, <2>2, <2>3 DEF AStep
<1>2. CASE RStep
  <2>1. CASE RHandshake
    BY <2>1, RelayEarlySteps, RelayPhase2Steps, RelayConfirms DEF RHandshake
  <2>2. CASE RQuery
    BY <2>2, RelayQuerySteps DEF RQuery
  <2>3. CASE RecvFails(R)
    BY <2>3, RelayFails
  <2>4. CASE RForward
    BY <2>4, RelayAnswers
  <2> QED
    BY <1>2, <2>1, <2>2, <2>3, <2>4 DEF RStep
<1>3. CASE UNCHANGED pvars
  <2>1. /\ pc' = pc /\ fate' = fate /\ q' = q /\ a' = a /\ r' = r /\ srv' = srv
    BY <1>3 DEF pvars
  <2>2. /\ HsOf' = HsOf /\ SfOf' = SfOf
        /\ AgentCapp' = AgentCapp /\ AgentSapp' = AgentSapp
        /\ RelayCapp' = RelayCapp /\ RelaySapp' = RelaySapp
    BY <2>1, AgentTerms, RelayTerms DEF AgentSame
  <2>3. AgentSaid' /\ RelaySaid'
    BY <2>1, <2>2
       DEF KInv, AgentSaid, RelaySaid, SentBy, AgentWords, RelayWords
  <2>4. AgentKnows' /\ RelayKnows' /\ ProviderKnows' /\ Fielded'
    BY <2>1, <2>2
       DEF KInv, AgentKnows, RelayKnows, ProviderKnows, Fielded, Alive
  <2> QED
    BY <2>3, <2>4 DEF KInv
<1> QED
  BY <1>1, <1>2, <1>3 DEF PNext

-----------------------------------------------------------------------------
(***************************************************************************)
(* What follows.                                                           *)
(***************************************************************************)
\* The provider confirmed the agent's Finished: the three derived the same.
LEMMA Bound ==
    ASSUME PInv, KInv, r.ok
    PROVE  /\ srv.established
           /\ a.capp = srv.capp /\ r.capp = srv.capp
           /\ a.sapp = srv.sapp /\ r.sapp = srv.sapp
           /\ a.com = srv.sapp /\ r.com = srv.sapp /\ a.tk = srv.sapp
           /\ a.tr = srv.transcript
<1>1. /\ srv.established /\ srv.chts = a.chts /\ srv.sfTr = SfOf
      /\ srv.transcript = Append(srv.sfTr, CF)
      /\ pc[R] \in ROver2
  BY DEF KInv, RelayKnows
<1>2. pc[A] \in ASigned
  BY <1>1, Order
<1>3. /\ srv.chts = ChtsOf(srv.chts.x, srv.chts.tr)
      /\ srv.capp = CappOf(srv.chts.x, srv.sfTr)
      /\ srv.sapp = SappOf(srv.chts.x, srv.sfTr)
  BY <1>1 DEF KInv, ProviderKnows
<1>4. /\ a.chts = Open(ChtsOf(a.x, HsOf), ChtsOf(r.x, r.tr))
      /\ a.capp = Open(AgentCapp, RelayCapp)
      /\ a.sapp = Open(AgentSapp, RelaySapp) /\ a.com = AgentSapp
      /\ a.tk = Open(a.com, r.sapp)
      /\ a.tr = Append(SfOf, CF)
  BY <1>2 DEF KInv, AgentKnows, AOpenedH, APhase2, AOpenedC, ACommitted
<1>5. /\ r.h2 = SfOf /\ r.com = AgentSapp
      /\ r.capp = Open(RelayCapp, AgentCapp)
      /\ r.sapp = Open(RelaySapp, AgentSapp)
  BY <1>1 DEF KInv, RelayKnows, RPhase2Pc, ROpenedC, ROpenedS, RHolds
<1>6. a.x = srv.chts.x /\ r.x = srv.chts.x
  <2>1. PICK xs, ts : srv.chts = ChtsOf(xs, ts)
    BY <1>3
  <2>2. ChtsOf(a.x, HsOf) = ChtsOf(xs, ts) /\ ChtsOf(r.x, r.tr) = ChtsOf(xs, ts)
    BY <1>1, <1>4, <2>1, ChtsReal, Opened
  <2>3. /\ ChtsOf(a.x, HsOf).x = a.x /\ ChtsOf(r.x, r.tr).x = r.x
        /\ ChtsOf(xs, ts).x = xs
    BY DEF ChtsOf, Secret
  <2>4. a.x = xs /\ r.x = xs
    BY <2>2, <2>3
  <2>5. srv.chts.x = xs
    BY <2>1, <2>3
  <2> QED
    BY <2>4, <2>5
<1>7. /\ AgentCapp = srv.capp /\ RelayCapp = srv.capp
      /\ AgentSapp = srv.sapp /\ RelaySapp = srv.sapp
  BY <1>1, <1>3, <1>5, <1>6 DEF AgentCapp, RelayCapp, AgentSapp, RelaySapp
<1> QED
  BY <1>1, <1>4, <1>5, <1>7 DEF Open

\* The place of a message of the relay in its script.
LEMMA Placed ==
    ASSUME PInv, NEW i \in DOMAIN q[R]
    PROVE  \E k \in 1 .. SentBy(R) :
               /\ k = (SentBy(R) - Len(q[R])) + i
               /\ q[R][i].tag = Script[2][k]
<1>1. PICK S : q[R] \in Seq(S)
  BY DEF PInv, Typed
<1>2. Len(q[R]) \in Nat /\ i \in 1 .. Len(q[R])
  BY <1>1, LenProperties
<1>3. SentBy(R) \in Nat /\ ReadBy(A) \in Nat /\ Len(q[R]) <= SentBy(R)
  BY Lengths, CountsBy DEF PInv
<1>4. PICK n \in {ReadBy(A), ReadBy(A) - 1} : Fits(q[R], Script[2], n, SentBy(R))
  BY DEF PInv, Lockstep
<1>5. Len(q[R]) = SentBy(R) - n /\ q[R][i].tag = Script[2][n + i]
  BY <1>2, <1>4 DEF Fits
<1>6. n + i = (SentBy(R) - Len(q[R])) + i /\ n + i \in 1 .. SentBy(R)
  BY <1>2, <1>3, <1>5
<1> QED
  BY <1>5, <1>6

LEMMA RelayScript ==
    ASSUME NEW k \in 1 .. 15
    PROVE  /\ Script[2][k] = "tksr" => k = 10
           /\ Script[2][k] = "resp" => k = 15
BY DEF Script

LEMMA CommitsFirst ==
    ASSUME PInv, KInv PROVE CommitFirst
<1>1. /\ SentBy(R) = SentAt[2][pc[R]] /\ pc[R] \in RelayPc
  BY Lengths DEF PInv, Typed
<1>2. SentBy(R) \in Nat /\ SentBy(R) <= 15
  BY <1>1 DEF RelayPc, SentAt
<1>3. AgentSapp # None
  <2>1. AgentSapp.label = "s ap traffic" /\ None.label = "none"
    BY DEF AgentSapp, SappOf, None, Secret
  <2> QED
    BY <2>1
<1>4. ASSUME NEW i \in DOMAIN q[R], q[R][i].tag = "tksr"
      PROVE  r.com # None
  <2>1. PICK k \in 1 .. SentBy(R) : q[R][i].tag = Script[2][k]
    BY Placed
  <2>2. k \in 1 .. 15
    BY <1>2
  <2>3. k = 10
    BY <1>4, <2>1, <2>2, RelayScript
  <2>4. SentAt[2][pc[R]] >= 10
    BY <1>1, <1>2, <2>3
  <2>5. pc[R] \in RHolds
    BY <1>1, <2>4 DEF RelayPc, SentAt, RHolds, ROver2
  <2> QED
    BY <1>3, <2>5 DEF KInv, RelayKnows
<1>5. ASSUME a.tk # None PROVE r.com = a.com /\ a.com # None
  <2>1. pc[A] \in ASigned
    BY <1>5 DEF KInv, AgentKnows
  <2>2. pc[R] \in RHolds
    BY <2>1, Order
  <2>3. r.com = AgentSapp /\ a.com = AgentSapp
    BY <2>1, <2>2 DEF KInv, RelayKnows, AgentKnows, ACommitted
  <2> QED
    BY <1>3, <2>3
<1> QED
  BY <1>4, <1>5 DEF CommitFirst

LEMMA ReadsAnswer ==
    ASSUME PInv, KInv PROVE AnswerReadable
<1> SUFFICES ASSUME NEW i \in DOMAIN q[R], q[R][i].tag = "resp"
             PROVE  Opens(q[R][i].val, a.tk, 0)
  BY DEF AnswerReadable
<1>1. /\ SentBy(R) = SentAt[2][pc[R]] /\ pc[R] \in RelayPc
  BY Lengths DEF PInv, Typed
<1>2. SentBy(R) \in Nat /\ SentBy(R) <= 15
  BY <1>1 DEF RelayPc, SentAt
<1>3. PICK k \in 1 .. SentBy(R) : /\ k = (SentBy(R) - Len(q[R])) + i
                                  /\ q[R][i].tag = Script[2][k]
  BY Placed
<1>4. k \in 1 .. 15
  BY <1>2
<1>5. k = 15
  BY <1>3, <1>4, RelayScript
<1>6. i \in 1 .. Len(q[R])
  <2>1. PICK S : q[R] \in Seq(S)
    BY DEF PInv, Typed
  <2> QED
    BY <2>1, LenProperties
<1>7. TellR(15, q[R][i].val, RelayWords)
  BY <1>3, <1>5, <1>6, Sides DEF KInv, RelaySaid, Say, Tell
<1> QED
  BY <1>7 DEF TellR, RelayWords

LEMMA KInvAlways == PSpec => [](PInv /\ KInv)
<1>1. PInit => PInv /\ KInv
  BY Start, KeyStart
<1>2. (PInv /\ KInv) /\ [PNext]_pvars => (PInv /\ KInv)'
  BY Step, KeyStep
<1> QED
  BY <1>1, <1>2, PTL DEF PSpec

\* In every run of the two parties, whatever the group order and the
\* interleaving, an agent or a relay that ends its handshake with ok holds
\* the provider's own application keys, over the provider's transcript.
THEOREM KeysAgreeAlways == PSpec => []KeysAgree
<1>1. PInv /\ KInv => KeysAgree
  <2> SUFFICES ASSUME PInv, KInv PROVE KeysAgree
    OBVIOUS
  <2>1. AOver /\ a.ok => r.ok
    BY DEF AOver, KInv, AgentKnows, ASigned
  <2> QED
    BY <2>1, Bound DEF KeysAgree, Open
<1> QED
  BY <1>1, KInvAlways, PTL

\* The relay reveals its share of tk_sapp, and the agent joins the key, only
\* when the relay holds the agent's commitment to its own share.
THEOREM CommitFirstAlways == PSpec => []CommitFirst
<1>1. PInv /\ KInv => CommitFirst
  BY CommitsFirst
<1> QED
  BY <1>1, KInvAlways, PTL

\* An answer of the provider under way to the agent opens under the key the
\* agent joined, as record number 0, also when the agent's verdict is no.
THEOREM AnswerReadableAlways == PSpec => []AnswerReadable
<1>1. PInv /\ KInv => AnswerReadable
  BY ReadsAnswer
<1> QED
  BY <1>1, KInvAlways, PTL

-----------------------------------------------------------------------------
(***************************************************************************)
(* Remainders modulo the group order.                                      *)
(***************************************************************************)
LEMMA RestOf ==
    ASSUME NEW m \in Int
    PROVE  /\ m = Q * (m \div Q) + (m % Q)
           /\ m \div Q \in Int /\ m % Q \in 0 .. Q - 1
BY QAssumption

LEMMA RestOnce ==
    ASSUME NEW u \in Int, NEW w \in Int,
           NEW s \in 0 .. Q - 1, NEW t \in 0 .. Q - 1,
           Q * u + s = Q * w + t
    PROVE  s = t
<1>1. ASSUME NEW m \in Int, NEW n \in Int, m < n
      PROVE  Q * m + Q <= Q * n
  <2>1. n - m >= 1
    BY <1>1
  <2>2. Q * (n - m) >= Q
    BY <2>1, QAssumption
  <2>3. Q * (n - m) = Q * n - Q * m /\ Q * n \in Int /\ Q * m \in Int
    BY QAssumption
  <2> QED
    BY <2>2, <2>3, QAssumption
<1>2. Q * u \in Int /\ Q * w \in Int
  BY QAssumption
<1>3. ~ u < w
  BY <1>1, <1>2, QAssumption
<1>4. ~ w < u
  BY <1>1, <1>2, QAssumption
<1>5. u = w
  BY <1>3, <1>4
<1> QED
  BY <1>2, <1>5, QAssumption

\* A remainder is known from any way to write the number as a multiple and
\* a rest.
LEMMA RestIs ==
    ASSUME NEW m \in Int, NEW k \in Int, NEW t \in 0 .. Q - 1, m = Q * k + t
    PROVE  m % Q = t
<1>1. PICK u \in Int, s \in 0 .. Q - 1 : m = Q * u + s /\ s = m % Q
  BY RestOf
<1> QED
  BY <1>1, RestOnce

\* Sums of two remainders.
LEMMA RestSum ==
    ASSUME NEW m \in Int, NEW n \in Int
    PROVE  ((m % Q) + (n % Q)) % Q = (m + n) % Q
<1>1. PICK u \in Int, s \in 0 .. Q - 1 : m = Q * u + s /\ s = m % Q
  BY RestOf
<1>2. PICK w \in Int, t \in 0 .. Q - 1 : n = Q * w + t /\ t = n % Q
  BY RestOf
<1>3. PICK v \in Int, e \in 0 .. Q - 1 : s + t = Q * v + e /\ e = (s + t) % Q
  BY RestOf, s + t \in Int
<1>4. /\ Q * ((u + w) + v) = (Q * u + Q * w) + Q * v
      /\ Q * u \in Int /\ Q * w \in Int /\ Q * v \in Int
  BY QAssumption
<1>5. m + n = Q * ((u + w) + v) + e
  BY <1>1, <1>2, <1>3, <1>4
<1>6. (m + n) % Q = e
  BY <1>5, RestIs, m + n \in Int, (u + w) + v \in Int
<1> QED
  BY <1>1, <1>2, <1>3, <1>6

\* A factor can be reduced first.
LEMMA RestFactor ==
    ASSUME NEW m \in Int, NEW y \in Int
    PROVE  (y * (m % Q)) % Q = (y * m) % Q
<1>1. PICK u \in Int, s \in 0 .. Q - 1 : m = Q * u + s /\ s = m % Q
  BY RestOf
<1>2. PICK v \in Int, e \in 0 .. Q - 1 : y * s = Q * v + e /\ e = (y * s) % Q
  BY RestOf, y * s \in Int
<1>3. /\ y * (Q * u + s) = Q * (y * u) + y * s
      /\ Q * (y * u + v) = Q * (y * u) + Q * v
      /\ Q * (y * u) \in Int /\ Q * v \in Int /\ y * u + v \in Int
  BY QAssumption
<1>4. y * m = Q * (y * u + v) + e
  BY <1>1, <1>2, <1>3
<1>5. (y * m) % Q = e
  BY <1>3, <1>4, RestIs, y * m \in Int
<1> QED
  BY <1>1, <1>2, <1>5

LEMMA Scalars ==
    ASSUME NEW k \in Scalar
    PROVE  k \in Int /\ k > 0 /\ k < Q /\ k \in 0 .. Q - 1
BY QAssumption DEF Scalar

\* The two parts of the ECtF input add up to the provider's own secret.
LEMMA SharesMeet ==
    ASSUME NEW k \in Scalar, NEW l \in Scalar, NEW y \in Scalar
    PROVE  (Mul(k, y) + Mul(l, y)) % Q = Mul(y, (k + l) % Q)
<1>1. k \in Int /\ l \in Int /\ y \in Int
  BY Scalars
<1>2. k * y \in Int /\ l * y \in Int /\ k * y + l * y = y * (k + l)
  BY <1>1
<1>3. (((k * y) % Q) + ((l * y) % Q)) % Q = (k * y + l * y) % Q
  BY <1>2, RestSum
<1>4. (y * ((k + l) % Q)) % Q = (y * (k + l)) % Q
  BY <1>1, RestFactor, k + l \in Int
<1> QED
  BY <1>2, <1>3, <1>4 DEF Mul

\* Only 0 can make a product with a scalar vanish.
LEMMA NoDivisor ==
    ASSUME NEW m \in Int, NEW y \in Scalar, (y * m) % Q = 0
    PROVE  m % Q = 0
<1>1. m % Q \in 0 .. Q - 1 /\ y \in Int
  BY RestOf, Scalars
<1>2. Mul(y, m % Q) = 0
  BY <1>1, RestFactor DEF Mul
<1>3. m % Q \notin Scalar
  BY <1>2, PrimeAssumption
<1> QED
  BY <1>1, <1>3, QAssumption DEF Scalar

\* x-coordinates are equal only of a point and its inverse.
LEMMA SameX ==
    ASSUME NEW k \in 0 .. Q - 1, NEW l \in 0 .. Q - 1, X(k) = X(l)
    PROVE  k = l \/ k + l = Q
<1>1. k \in Int /\ l \in Int /\ Q \in Int /\ k >= 0 /\ l >= 0 /\ k < Q /\ l < Q
  BY QAssumption
<1> QED
  BY <1>1 DEF X

LEMMA StayApart ==
    ASSUME NEW k \in Scalar, NEW l \in Scalar, NEW y \in Scalar,
           X(k) # X(l), (k + l) % Q # 0
    PROVE  X(Mul(k, y)) # X(Mul(l, y))
<1> SUFFICES ASSUME X(Mul(k, y)) = X(Mul(l, y)) PROVE FALSE
  OBVIOUS
<1>1. /\ k \in Int /\ l \in Int /\ y \in Int
      /\ k > 0 /\ l > 0 /\ k < Q /\ l < Q
  BY Scalars
<1>2. k * y \in Int /\ l * y \in Int
  BY <1>1
<1>3. PICK u \in Int, s \in 0 .. Q - 1 : k * y = Q * u + s /\ s = Mul(k, y)
  BY <1>2, RestOf DEF Mul
<1>4. PICK w \in Int, t \in 0 .. Q - 1 : l * y = Q * w + t /\ t = Mul(l, y)
  BY <1>2, RestOf DEF Mul
<1>5. s = t \/ s + t = Q
  BY <1>3, <1>4, SameX
<1>6. CASE s = t
  <2>1. /\ y * (k - l) = k * y - l * y /\ Q * (u - w) = Q * u - Q * w
        /\ Q * u \in Int /\ Q * w \in Int /\ k - l \in Int /\ u - w \in Int
    BY <1>1, QAssumption
  <2>2. y * (k - l) = Q * (u - w) + 0
    BY <1>3, <1>4, <1>6, <2>1
  <2>3. (y * (k - l)) % Q = 0
    <3>1. y * (k - l) \in Int /\ 0 \in 0 .. Q - 1
      BY <1>1, QAssumption
    <3> QED
      BY <2>1, <2>2, <3>1, RestIs
  <2>4. (k - l) % Q = 0
    BY <2>1, <2>3, NoDivisor
  <2>5. k # l
    OBVIOUS
  <2>6. CASE k > l
    <3>1. k - l = Q * 0 + (k - l) /\ k - l \in 0 .. Q - 1
      BY <1>1, <2>6, QAssumption
    <3>2. (k - l) % Q = k - l
      BY <3>1, <2>1, RestIs
    <3> QED
      BY <2>4, <2>5, <3>2, <1>1
  <2>7. CASE k < l
    <3>1. k - l = Q * (-1) + (Q + (k - l)) /\ Q + (k - l) \in 0 .. Q - 1
      BY <1>1, <2>7, QAssumption
    <3>2. (k - l) % Q = Q + (k - l)
      BY <3>1, <2>1, RestIs
    <3> QED
      BY <2>4, <3>2, <1>1, QAssumption
  <2> QED
    BY <1>1, <2>5, <2>6, <2>7
<1>7. CASE s + t = Q
  <2>1. /\ y * (k + l) = k * y + l * y
        /\ Q * ((u + w) + 1) = (Q * u + Q * w) + Q
        /\ Q * u \in Int /\ Q * w \in Int /\ k + l \in Int
        /\ (u + w) + 1 \in Int
    BY <1>1, QAssumption
  <2>2. y * (k + l) = Q * ((u + w) + 1) + 0
    BY <1>3, <1>4, <1>7, <2>1, QAssumption
  <2>3. (y * (k + l)) % Q = 0
    <3>1. y * (k + l) \in Int /\ 0 \in 0 .. Q - 1
      BY <1>1, QAssumption
    <3> QED
      BY <2>1, <2>2, <3>1, RestIs
  <2> QED
    BY <2>1, <2>3, NoDivisor
<1> QED
  BY <1>5, <1>6, <1>7

-----------------------------------------------------------------------------
(***************************************************************************)
(* Up to the ECtF outputs: every message repeats a field its sender has    *)
(* set for good, so both parties and the provider work on the same group   *)
(* elements, and the relay never trips over its own assertion.             *)
(***************************************************************************)
JointShare == (a.k + r.k) % Q

\* The messages whose values matter, by their place in the script.
AgentFirst == [k \in 1 .. 4 |->
    IF k = 1 THEN a.k ELSE IF k = 2 THEN a.cks ELSE a.ssk]
RelayFirst == [k \in {1, 2, 3, 4, 7} |->
    IF k = 1 THEN r.k ELSE IF k = 2 THEN Flight(srv)
    ELSE IF k = 7 THEN ShtsOf(r.x, r.tr) ELSE r.ssk]

\* seq holds the last of m messages, whose values w gives.
Starts(seq, m, w) ==
    \A i \in 1 .. Len(seq) :
        (m - Len(seq)) + i \in DOMAIN w => seq[i].val = w[(m - Len(seq)) + i]

AgentDerives ==
    /\ pc[A] \notin {"start", "zb"} => a.cks = JointShare
    /\ pc[A] \notin {"start", "zb", "shf"} =>
           a.flight = Flight(srv) /\ a.ssk = Mul(a.k, srv.y)
    /\ pc[A] = "y2" => a.peer = r.ssk
    /\ pc[A] \notin {"start", "zb", "shf", "x2", "y2"} =>
           a.x = Ectf(a.ssk, r.ssk)

RelayDerives ==
    /\ pc[R] # "za" => r.cks = JointShare
    /\ pc[R] \notin {"za", "ch"} =>
           /\ r.ssk = Mul(r.k, srv.y)
           /\ r.tr = <<CH(JointShare), SH(srv.y)>>
           /\ srv.hello /\ srv.hsSeqS = 1
    /\ pc[R] = "y1" => r.peer = a.ssk
    /\ pc[R] \notin {"za", "ch", "x1", "y1"} => r.x = Ectf(a.ssk, r.ssk)

\* The record numbers the provider is at when the relay calls it.
ProviderCounts ==
    /\ pc[R] \in {"x1", "y1", "dx", "h2", "ivc", "ivs", "com", "cf"} =>
           srv.hsSeqC = 0
    /\ Alive(R) /\ pc[R] # "done" => srv.seqC \in {0, 1}

Shares == a.k \in Scalar /\ r.k \in Scalar /\ srv.y \in Scalar

EInv ==
    /\ Shares
    /\ Starts(q[A], SentBy(A), AgentFirst)
    /\ Starts(q[R], SentBy(R), RelayFirst)
    /\ AgentDerives /\ RelayDerives /\ ProviderCounts

LEMMA StartsTail ==
    ASSUME NEW S, NEW seq \in Seq(S), seq # <<>>, NEW m \in Nat, NEW w,
           Starts(seq, m, w)
    PROVE  Starts(Tail(seq), m, w)
<1>1. /\ Len(seq) \in Nat /\ Len(Tail(seq)) = Len(seq) - 1
      /\ \A i \in 1 .. Len(Tail(seq)) : Tail(seq)[i] = seq[i + 1]
  BY HeadTailProperties, LenProperties, EmptySeq
<1>2. ASSUME NEW i \in 1 .. Len(Tail(seq)),
             (m - Len(Tail(seq))) + i \in DOMAIN w
      PROVE  Tail(seq)[i].val = w[(m - Len(Tail(seq))) + i]
  <2>1. /\ i + 1 \in 1 .. Len(seq) /\ Tail(seq)[i] = seq[i + 1]
        /\ (m - Len(Tail(seq))) + i = (m - Len(seq)) + (i + 1)
    BY <1>1
  <2> QED
    BY <1>2, <2>1 DEF Starts
<1> QED
  BY <1>2 DEF Starts

LEMMA StartsConcat ==
    ASSUME NEW S, NEW seq \in Seq(S), NEW msgs \in Seq(S),
           NEW m \in Nat, NEW w, Starts(seq, m, w),
           \A i \in 1 .. Len(msgs) :
               m + i \in DOMAIN w => msgs[i].val = w[m + i]
    PROVE  Starts(seq \o msgs, m + Len(msgs), w)
<1>1. /\ Len(seq) \in Nat /\ Len(msgs) \in Nat
      /\ Len(seq \o msgs) = Len(seq) + Len(msgs)
      /\ \A i \in 1 .. Len(seq) + Len(msgs) :
           (seq \o msgs)[i] = IF i <= Len(seq) THEN seq[i]
                                               ELSE msgs[i - Len(seq)]
  BY ConcatProperties, LenProperties
<1>2. ASSUME NEW i \in 1 .. Len(seq) + Len(msgs),
             NEW k, k = ((m + Len(msgs)) - (Len(seq) + Len(msgs))) + i,
             k \in DOMAIN w
      PROVE  (seq \o msgs)[i].val = w[k]
  <2>1. k = (m - Len(seq)) + i
    BY <1>1, <1>2
  <2>2. CASE i <= Len(seq)
    <3>1. i \in 1 .. Len(seq) /\ (seq \o msgs)[i] = seq[i]
      BY <1>1, <2>2
    <3> QED
      BY <1>2, <2>1, <3>1 DEF Starts
  <2>3. CASE i > Len(seq)
    <3>1. /\ i - Len(seq) \in 1 .. Len(msgs)
          /\ k = m + (i - Len(seq))
          /\ (seq \o msgs)[i] = msgs[i - Len(seq)]
      BY <1>1, <2>1, <2>3
    <3> QED
      BY <1>2, <3>1
  <2> QED
    BY <1>1, <1>2, <2>2, <2>3
<1> QED
  BY <1>1, <1>2 DEF Starts

LEMMA StartsWords ==
    ASSUME NEW S, NEW seq \in Seq(S), NEW m \in Nat, Len(seq) <= m,
           NEW w, NEW w2, Starts(seq, m, w), DOMAIN w2 = DOMAIN w,
           \A k \in 1 .. m : k \in DOMAIN w => w2[k] = w[k]
    PROVE  Starts(seq, m, w2)
<1> SUFFICES ASSUME NEW i \in 1 .. Len(seq), NEW k,
                    k = (m - Len(seq)) + i, k \in DOMAIN w2
             PROVE  seq[i].val = w2[k]
  BY DEF Starts
<1>1. Len(seq) \in Nat
  BY LenProperties
<1>2. k \in 1 .. m
  BY <1>1
<1> QED
  BY <1>2 DEF Starts

\* A side that sends msgs, while the words of what it sent before stay.
LEMMA StartsMore ==
    ASSUME NEW S, NEW T, NEW seq \in Seq(S), NEW msgs \in Seq(T),
           NEW m \in Nat, Len(seq) <= m, NEW w, NEW w2, Starts(seq, m, w),
           DOMAIN w2 = DOMAIN w,
           \A k \in 1 .. m : k \in DOMAIN w => w2[k] = w[k],
           \A i \in 1 .. Len(msgs) :
               m + i \in DOMAIN w2 => msgs[i].val = w2[m + i]
    PROVE  Starts(seq \o msgs, m + Len(msgs), w2)
<1>1. Starts(seq, m, w2)
  BY StartsWords
<1>2. S \subseteq S \cup T /\ T \subseteq S \cup T
  OBVIOUS
<1>3. seq \in Seq(S \cup T) /\ msgs \in Seq(S \cup T)
  BY <1>2, SeqMonotonic
<1> QED
  BY <1>1, <1>3, StartsConcat

LEMMA AgentStarts ==
    ASSUME PInv, EInv, NEW msgs, AgentPuts(msgs), srv' = srv,
           \A k \in 1 .. SentAt[1][pc[A]] :
               k \in 1 .. 4 => AgentFirst'[k] = AgentFirst[k],
           \A i \in 1 .. Len(msgs) :
               SentAt[1][pc[A]] + i \in 1 .. 4 =>
                   msgs[i].val = AgentFirst'[SentAt[1][pc[A]] + i]
    PROVE  /\ Starts(q'[A], SentBy(A)', AgentFirst')
           /\ Starts(q'[R], SentBy(R)', RelayFirst')
<1> USE DEF AgentPuts
<1>1. PICK S, T : q[A] \in Seq(S) /\ q[R] \in Seq(S) /\ msgs \in Seq(T)
  BY DEF PInv, Typed
<1>2. /\ SentBy(A)' = SentBy(A) + Len(msgs) /\ SentBy(R)' = SentBy(R)
      /\ SentBy(A) = SentAt[1][pc[A]]
  BY Lengths, Sides DEF SentBy
<1>3. DOMAIN AgentFirst = 1 .. 4 /\ DOMAIN AgentFirst' = 1 .. 4
  BY DEF AgentFirst
<1>4. Starts(q[A] \o msgs, SentBy(A) + Len(msgs), AgentFirst')
  <2>1. /\ Starts(q[A], SentBy(A), AgentFirst)
        /\ SentBy(A) \in Nat /\ Len(q[A]) <= SentBy(A)
    BY Lengths DEF EInv
  <2>2. \A k \in 1 .. SentBy(A) :
            k \in DOMAIN AgentFirst => AgentFirst'[k] = AgentFirst[k]
    BY <1>2, <1>3
  <2>3. \A i \in 1 .. Len(msgs) : SentBy(A) + i \in DOMAIN AgentFirst' =>
            msgs[i].val = AgentFirst'[SentBy(A) + i]
    BY <1>2, <1>3
  <2> QED
    BY ONLY <1>1, <1>3, <2>1, <2>2, <2>3, StartsMore
<1>5. RelayFirst' = RelayFirst
  BY DEF RelayFirst
<1>6. Starts(q'[R], SentBy(R), RelayFirst)
  BY <1>1, Lengths, StartsTail DEF EInv
<1> QED
  BY <1>2, <1>4, <1>5, <1>6

LEMMA RelayStarts ==
    ASSUME PInv, EInv, NEW msgs, RelayPuts(msgs),
           \A k \in 1 .. SentAt[2][pc[R]] :
               k \in {1, 2, 3, 4, 7} => RelayFirst'[k] = RelayFirst[k],
           \A i \in 1 .. Len(msgs) :
               SentAt[2][pc[R]] + i \in {1, 2, 3, 4, 7} =>
                   msgs[i].val = RelayFirst'[SentAt[2][pc[R]] + i]
    PROVE  /\ Starts(q'[A], SentBy(A)', AgentFirst')
           /\ Starts(q'[R], SentBy(R)', RelayFirst')
<1> USE DEF RelayPuts
<1>1. PICK S, T : q[A] \in Seq(S) /\ q[R] \in Seq(S) /\ msgs \in Seq(T)
  BY DEF PInv, Typed
<1>2. /\ SentBy(R)' = SentBy(R) + Len(msgs) /\ SentBy(A)' = SentBy(A)
      /\ SentBy(R) = SentAt[2][pc[R]]
  BY Lengths, Sides DEF SentBy
<1>3. /\ DOMAIN RelayFirst = {1, 2, 3, 4, 7}
      /\ DOMAIN RelayFirst' = {1, 2, 3, 4, 7}
  BY DEF RelayFirst
<1>4. Starts(q[R] \o msgs, SentBy(R) + Len(msgs), RelayFirst')
  <2>1. /\ Starts(q[R], SentBy(R), RelayFirst)
        /\ SentBy(R) \in Nat /\ Len(q[R]) <= SentBy(R)
    BY Lengths DEF EInv
  <2>2. \A k \in 1 .. SentBy(R) :
            k \in DOMAIN RelayFirst => RelayFirst'[k] = RelayFirst[k]
    BY <1>2, <1>3
  <2>3. \A i \in 1 .. Len(msgs) : SentBy(R) + i \in DOMAIN RelayFirst' =>
            msgs[i].val = RelayFirst'[SentBy(R) + i]
    BY <1>2, <1>3
  <2> QED
    BY ONLY <1>1, <1>3, <2>1, <2>2, <2>3, StartsMore
<1>5. AgentFirst' = AgentFirst
  BY DEF AgentFirst
<1>6. Starts(q'[A], SentBy(A), AgentFirst)
  BY <1>1, Lengths, StartsTail DEF EInv
<1> QED
  BY <1>2, <1>4, <1>5, <1>6

\* The value of the message a party has in hand.
LEMMA AgentReads ==
    ASSUME PInv, EInv, NEW p \in AgentPc \ {"start", "over", "done"},
           Takes(A, p), ReadAt[1][p] + 1 \in {1, 2, 3, 4, 7}
    PROVE  Got(A) = RelayFirst[ReadAt[1][p] + 1]
<1>1. PICK S : q[R] \in Seq(S)
  BY DEF PInv, Typed
<1>2. /\ q[R] # <<>> /\ Got(A) = Head(q[R]).val
  BY Sides DEF Takes, Got
<1>3. /\ Len(q[R]) \in Nat /\ 1 \in 1 .. Len(q[R]) /\ Head(q[R]) = q[R][1]
  BY <1>1, <1>2, HeadTailProperties, LenProperties, EmptySeq
<1>4. Len(q[R]) = SentBy(R) - ReadAt[1][p]
  BY AgentInStep DEF Fits
<1>5. SentBy(R) \in Nat /\ ReadAt[1][p] \in Nat
  BY CountsBy, Counts DEF PInv
<1>6. (SentBy(R) - Len(q[R])) + 1 = ReadAt[1][p] + 1
  BY <1>3, <1>4, <1>5
<1>7. DOMAIN RelayFirst = {1, 2, 3, 4, 7}
  BY DEF RelayFirst
<1> QED
  BY <1>2, <1>3, <1>6, <1>7 DEF EInv, Starts

LEMMA RelayReads ==
    ASSUME PInv, EInv, NEW p \in RelayPc,
           Takes(R, p), ReadAt[2][p] + 1 \in 1 .. 4
    PROVE  Got(R) = AgentFirst[ReadAt[2][p] + 1]
<1>1. PICK S : q[A] \in Seq(S)
  BY DEF PInv, Typed
<1>2. /\ q[A] # <<>> /\ Got(R) = Head(q[A]).val
      /\ pc[R] = p /\ Alive(R)
  BY Sides DEF Takes, Got, At
<1>3. /\ Len(q[A]) \in Nat /\ 1 \in 1 .. Len(q[A]) /\ Head(q[A]) = q[A][1]
  BY <1>1, <1>2, HeadTailProperties, LenProperties, EmptySeq
<1>4. SentBy(A) \in Nat /\ ReadAt[2][p] \in Nat /\ ReadBy(R) = ReadAt[2][p]
  BY <1>2, CountsBy, Counts DEF PInv
<1>5. Len(q[A]) = SentBy(A) - ReadAt[2][p]
  BY <1>4 DEF PInv, Lockstep, Fits
<1>6. (SentBy(A) - Len(q[A])) + 1 = ReadAt[2][p] + 1
  BY <1>3, <1>4, <1>5
<1>7. DOMAIN AgentFirst = 1 .. 4
  BY DEF AgentFirst
<1> QED
  BY <1>2, <1>3, <1>6, <1>7 DEF EInv, Starts

\* How far apart the parties are at the start.
LEMMA FirstOrder ==
    ASSUME PInv
    PROVE  /\ pc[R] = "za" => pc[A] \in {"start", "zb"}
           /\ pc[R] \in {"za", "ch"} => pc[A] \in {"start", "zb", "shf"}
           /\ pc[R] \in {"za", "ch", "x1", "y1"} =>
                  pc[A] \in {"start", "zb", "shf", "x2"}
           /\ pc[A] \in {"start", "zb"} => pc[R] \in {"za", "ch"}
           /\ pc[A] = "shf" => pc[R] \in {"za", "ch", "x1"}
<1>1. pc[A] \in AgentPc /\ pc[R] \in RelayPc
  BY DEF PInv, Typed
<1>2. /\ pc[A] \in {"over", "tkr"} => ReadAt[1][pc[A]] = 11
      /\ pc[A] \notin {"start", "zb"} => ReadAt[1][pc[A]] >= 1
      /\ pc[A] \notin {"start", "zb", "shf"} => ReadAt[1][pc[A]] >= 2
      /\ pc[A] \notin {"start", "zb", "shf", "x2"} => ReadAt[1][pc[A]] >= 3
      /\ pc[A] \in {"start", "zb"} => SentAt[1][pc[A]] <= 1
      /\ pc[A] = "shf" => SentAt[1][pc[A]] <= 2
  BY <1>1 DEF AgentPc, SentAt, ReadAt
<1>3. /\ pc[R] = "za" => SentAt[2][pc[R]] = 0
      /\ pc[R] \in {"za", "ch"} => SentAt[2][pc[R]] <= 1
      /\ pc[R] \in {"za", "ch", "x1", "y1"} => SentAt[2][pc[R]] <= 2
      /\ pc[R] \notin {"za", "ch"} => ReadAt[2][pc[R]] >= 2
      /\ pc[R] \notin {"za", "ch", "x1"} => ReadAt[2][pc[R]] >= 3
  BY <1>1 DEF RelayPc, SentAt, ReadAt
<1>4. PICK sa \in Nat, ra \in Nat, sr \in Nat, rr \in Nat :
          /\ sa = SentAt[1][pc[A]] /\ ra = ReadAt[1][pc[A]]
          /\ sr = SentAt[2][pc[R]] /\ rr = ReadAt[2][pc[R]]
  BY <1>1, Counts
<1>5. /\ rr <= sa
      /\ ra <= sr \/ (pc[A] \in {"over", "tkr"} /\ ra - 1 <= sr)
  BY <1>4, Behind
<1> QED
  BY <1>2, <1>3, <1>4, <1>5

-----------------------------------------------------------------------------
LEMMA AgentWordsAre ==
    /\ AgentFirst[1] = a.k /\ AgentFirst[2] = a.cks
    /\ AgentFirst[3] = a.ssk /\ AgentFirst[4] = a.ssk
    /\ RelayFirst[1] = r.k /\ RelayFirst[2] = Flight(srv)
    /\ RelayFirst[3] = r.ssk /\ RelayFirst[4] = r.ssk
    /\ RelayFirst[7] = ShtsOf(r.x, r.tr)
BY DEF AgentFirst, RelayFirst

\* A step of the agent that says nothing of the first fields and sets none
\* that the other side's derivation rests on.
LEMMA AgentQuiet ==
    ASSUME PInv, EInv, NEW msgs, AgentPuts(msgs), srv' = srv,
           a'.k = a.k, a'.cks = a.cks, a'.ssk = a.ssk,
           Len(msgs) = 0 \/ SentAt[1][pc[A]] >= 4,
           fate'[R] = fate[R], AgentDerives'
    PROVE  EInv'
<1>1. r' = r /\ pc'[R] = pc[R] /\ \E T : msgs \in Seq(T)
  BY DEF AgentPuts
<1>2. AgentFirst' = AgentFirst
  BY DEF AgentFirst
<1>3. PICK m \in Nat, l \in Nat : m = SentAt[1][pc[A]] /\ l = Len(msgs)
  BY <1>1, Lengths, LenProperties
<1>4. \A i \in 1 .. l : m + i \notin 1 .. 4
  BY <1>3
<1>5. /\ Starts(q'[A], SentBy(A)', AgentFirst')
      /\ Starts(q'[R], SentBy(R)', RelayFirst')
  BY <1>2, <1>3, <1>4, AgentStarts
<1>6. JointShare' = JointShare
  BY <1>1 DEF JointShare
<1>7. RelayDerives' /\ ProviderCounts' /\ Shares'
  BY <1>1, <1>6 DEF EInv, RelayDerives, ProviderCounts, Shares, Alive
<1> QED
  BY <1>5, <1>7 DEF EInv

LEMMA AgentFirstSteps ==
    ASSUME PInv, KInv, EInv,
           \/ AStart
           \/ AHello
           \/ AServerHello
           \/ AInputX
           \/ AInputY
    PROVE  EInv'
<1>0. AgentFields \subseteq DOMAIN a
  BY DEF KInv, Fielded
<1>1. CASE AStart
  <2> DEFINE msgs == <<Msg("za", a.k)>>
  <2>1. /\ At(A, "start") /\ Goes(A, "zb") /\ r' = r /\ srv' = srv /\ a' = a
        /\ q' = [q EXCEPT ![A] = @ \o msgs]
    BY <1>1 DEF AStart
  <2>2. /\ SentAt[1]["start"] = 0 /\ SentAt[1]["zb"] = 1
        /\ Len(msgs) = 1 /\ msgs[1].val = a.k /\ \E T : msgs \in Seq(T)
    BY Listed DEF SentAt, Msg
  <2> HIDE DEF msgs
  <2>a. SentAt[1]["zb"] = SentAt[1]["start"] + Len(msgs)
    BY <2>2
  <2>3. /\ AgentPuts(msgs) /\ pc[A] = "start" /\ pc'[A] = "zb"
        /\ pc'[R] = pc[R] /\ fate' = fate
    BY <2>1, <2>2, <2>a, AgentShape DEF AgentPc
  <2>4. AgentFirst' = AgentFirst
    BY <2>1 DEF AgentFirst
  <2>5. \A i \in 1 .. Len(msgs) : SentAt[1][pc[A]] + i \in 1 .. 4 =>
            msgs[i].val = AgentFirst'[SentAt[1][pc[A]] + i]
    <3>1. \A i \in 1 .. Len(msgs) : i = 1 /\ SentAt[1][pc[A]] + i = 1
      BY <2>2, <2>3
    <3> QED
      BY <2>2, <2>4, <3>1, AgentWordsAre
  <2>6. /\ Starts(q'[A], SentBy(A)', AgentFirst')
        /\ Starts(q'[R], SentBy(R)', RelayFirst')
    BY <2>1, <2>3, <2>4, <2>5, AgentStarts
  <2>7. JointShare' = JointShare
    BY <2>1 DEF JointShare
  <2> QED
    BY <2>1, <2>3, <2>6, <2>7
       DEF EInv, AgentDerives, RelayDerives, ProviderCounts, Shares, Alive
<1>2. CASE AHello
  <2> DEFINE cks == (a.k + Got(A)) % Q
             msgs == <<Msg("ch", cks)>>
  <2>1. /\ At(A, "zb") /\ Goes(A, "shf") /\ r' = r /\ srv' = srv
        /\ Takes(A, "zb") /\ Passes(A, msgs) /\ a' = [a EXCEPT !.cks = cks]
    BY <1>2 DEF AHello, Takes
  <2>2. /\ SentAt[1]["zb"] = 1 /\ SentAt[1]["shf"] = 2
        /\ Len(msgs) = 1 /\ msgs[1].val = cks /\ \E T : msgs \in Seq(T)
    BY Listed DEF SentAt, Msg
  <2>3. Got(A) = r.k
    <3>1. "zb" \in AgentPc \ {"start", "over", "done"} /\ ReadAt[1]["zb"] = 0
      BY DEF AgentPc, ReadAt
    <3> QED
      BY <2>1, <3>1, AgentReads, AgentWordsAre
  <2>4. cks = JointShare
    BY <2>3 DEF JointShare
  <2> HIDE DEF cks, msgs
  <2>a. SentAt[1]["shf"] = SentAt[1]["zb"] + Len(msgs)
    BY <2>2
  <2>5. /\ AgentPuts(msgs) /\ pc[A] = "zb" /\ pc'[A] = "shf"
        /\ pc'[R] = pc[R] /\ fate' = fate
    BY <2>1, <2>2, <2>a, AgentShape DEF AgentPc
  <2>6. a'.k = a.k /\ a'.ssk = a.ssk /\ a'.cks = cks
    BY <1>0, <2>1 DEF AgentFields
  <2>7. /\ \A k \in 1 .. 4 : k # 2 => k \in 1 .. 4 /\ k \in {1, 3, 4}
        /\ AgentFirst'[1] = a'.k /\ AgentFirst'[2] = a'.cks
        /\ AgentFirst'[3] = a'.ssk /\ AgentFirst'[4] = a'.ssk
    BY DEF AgentFirst
  <2>8. \A k \in 1 .. SentAt[1][pc[A]] :
            k \in 1 .. 4 => AgentFirst'[k] = AgentFirst[k]
    BY <2>2, <2>5, <2>6, <2>7, AgentWordsAre
  <2>9. \A i \in 1 .. Len(msgs) : SentAt[1][pc[A]] + i \in 1 .. 4 =>
            msgs[i].val = AgentFirst'[SentAt[1][pc[A]] + i]
    <3>1. \A i \in 1 .. Len(msgs) : i = 1 /\ SentAt[1][pc[A]] + i = 2
      BY <2>2, <2>5
    <3> QED
      BY <2>2, <2>6, <2>7, <3>1
  <2>10. /\ Starts(q'[A], SentBy(A)', AgentFirst')
         /\ Starts(q'[R], SentBy(R)', RelayFirst')
    BY <2>1, <2>5, <2>8, <2>9, AgentStarts
  <2>11. JointShare' = JointShare
    BY <2>1, <2>6 DEF JointShare
  <2> QED
    BY <2>1, <2>4, <2>5, <2>6, <2>10, <2>11
       DEF EInv, AgentDerives, RelayDerives, ProviderCounts, Shares, Alive
<1>3. CASE AServerHello
  <2> DEFINE f == Got(A)
             ssk == Mul(a.k, f.share)
             msgs == <<Msg("sim.t", ssk), Msg("sim.t", ssk)>>
  <2>1. /\ At(A, "shf") /\ Goes(A, "x2") /\ r' = r /\ srv' = srv
        /\ Takes(A, "shf") /\ Passes(A, msgs)
        /\ a' = [a EXCEPT !.flight = f, !.ssk = ssk,
                          !.tr = <<CH(a.cks), SH(f.share)>>]
    BY <1>3 DEF AServerHello, Takes
  <2>2. /\ SentAt[1]["shf"] = 2 /\ SentAt[1]["x2"] = 4
        /\ Len(msgs) = 2 /\ msgs[1].val = ssk /\ msgs[2].val = ssk
        /\ \E T : msgs \in Seq(T)
    BY Listed DEF SentAt, Msg
  <2>3. f = Flight(srv)
    <3>1. "shf" \in AgentPc \ {"start", "over", "done"} /\ ReadAt[1]["shf"] = 1
      BY DEF AgentPc, ReadAt
    <3> QED
      BY <2>1, <3>1, AgentReads, AgentWordsAre
  <2>4. ssk = Mul(a.k, srv.y)
    BY <2>3 DEF Flight
  <2> HIDE DEF f, ssk, msgs
  <2>a. SentAt[1]["x2"] = SentAt[1]["shf"] + Len(msgs)
    BY <2>2
  <2>5. /\ AgentPuts(msgs) /\ pc[A] = "shf" /\ pc'[A] = "x2"
        /\ pc'[R] = pc[R] /\ fate' = fate
    BY <2>1, <2>2, <2>a, AgentShape DEF AgentPc
  <2>6. a'.k = a.k /\ a'.ssk = ssk /\ a'.cks = a.cks /\ a'.flight = f
    BY <1>0, <2>1 DEF AgentFields
  <2>7. /\ AgentFirst'[1] = a'.k /\ AgentFirst'[2] = a'.cks
        /\ AgentFirst'[3] = a'.ssk /\ AgentFirst'[4] = a'.ssk
    BY DEF AgentFirst
  <2>8. \A k \in 1 .. SentAt[1][pc[A]] :
            k \in 1 .. 4 => AgentFirst'[k] = AgentFirst[k]
    <3>1. \A k \in 1 .. SentAt[1][pc[A]] : k = 1 \/ k = 2
      BY <2>2, <2>5
    <3> QED
      BY <2>6, <2>7, <3>1, AgentWordsAre
  <2>9. \A i \in 1 .. Len(msgs) : SentAt[1][pc[A]] + i \in 1 .. 4 =>
            msgs[i].val = AgentFirst'[SentAt[1][pc[A]] + i]
    <3>1. \A i \in 1 .. Len(msgs) : \/ i = 1 /\ SentAt[1][pc[A]] + i = 3
                                    \/ i = 2 /\ SentAt[1][pc[A]] + i = 4
      BY <2>2, <2>5
    <3> QED
      BY <2>2, <2>6, <2>7, <3>1
  <2>10. /\ Starts(q'[A], SentBy(A)', AgentFirst')
         /\ Starts(q'[R], SentBy(R)', RelayFirst')
    BY <2>1, <2>5, <2>8, <2>9, AgentStarts
  <2>11. JointShare' = JointShare
    BY <2>1, <2>6 DEF JointShare
  <2>12. pc[R] \in {"za", "ch", "x1"}
    BY <2>5, FirstOrder
  <2>13. Flight(srv)' = Flight(srv)
    BY <2>1 DEF Flight
  <2>14. a.cks = JointShare
    BY <2>5 DEF EInv, AgentDerives
  <2>15. AgentDerives'
    BY <2>1, <2>3, <2>4, <2>5, <2>6, <2>11, <2>13, <2>14 DEF AgentDerives
  <2>16. RelayDerives' /\ ProviderCounts' /\ Shares'
    BY <2>1, <2>5, <2>6, <2>11, <2>12
       DEF EInv, RelayDerives, ProviderCounts, Shares, Alive
  <2> QED
    BY <2>10, <2>15, <2>16 DEF EInv
<1>4. CASE AInputX
  <2> DEFINE msgs == <<>>
  <2>1. /\ At(A, "x2") /\ Goes(A, "y2") /\ r' = r /\ srv' = srv
        /\ Takes(A, "x2") /\ Passes(A, msgs) /\ a' = [a EXCEPT !.peer = Got(A)]
    BY <1>4 DEF AInputX, Takes
  <2>2. /\ SentAt[1]["x2"] = 4 /\ SentAt[1]["y2"] = 4
        /\ Len(msgs) = 0 /\ \E T : msgs \in Seq(T)
    BY Listed DEF SentAt
  <2>3. Got(A) = r.ssk
    <3>1. "x2" \in AgentPc \ {"start", "over", "done"} /\ ReadAt[1]["x2"] = 2
      BY DEF AgentPc, ReadAt
    <3> QED
      BY <2>1, <3>1, AgentReads, AgentWordsAre
  <2> HIDE DEF msgs
  <2>a. SentAt[1]["y2"] = SentAt[1]["x2"] + Len(msgs)
    BY <2>2
  <2>4. /\ AgentPuts(msgs) /\ pc[A] = "x2" /\ pc'[A] = "y2" /\ fate' = fate
    BY <2>1, <2>2, <2>a, AgentShape DEF AgentPc
  <2>5. /\ a'.k = a.k /\ a'.ssk = a.ssk /\ a'.cks = a.cks
        /\ a'.flight = a.flight /\ a'.peer = r.ssk
    BY <1>0, <2>1, <2>3 DEF AgentFields
  <2>6. JointShare' = JointShare /\ Flight(srv)' = Flight(srv)
    BY <2>1, <2>5 DEF JointShare, Flight
  <2>7. AgentDerives'
    BY <2>1, <2>4, <2>5, <2>6 DEF EInv, AgentDerives
  <2> QED
    BY <2>1, <2>2, <2>4, <2>5, <2>7, AgentQuiet
<1>5. CASE AInputY
  <2> DEFINE msgs == <<Msg("op", None)>>
  <2>1. /\ At(A, "y2") /\ Goes(A, "dx") /\ r' = r /\ srv' = srv
        /\ Takes(A, "y2") /\ Passes(A, msgs)
        /\ a' = [a EXCEPT !.x = Ectf(a.ssk, a.peer)]
    BY <1>5 DEF AInputY, Takes
  <2>2. /\ SentAt[1]["y2"] = 4 /\ SentAt[1]["dx"] = 5
        /\ Len(msgs) = 1 /\ \E T : msgs \in Seq(T)
    BY Listed DEF SentAt
  <2> HIDE DEF msgs
  <2>a. SentAt[1]["dx"] = SentAt[1]["y2"] + Len(msgs)
    BY <2>2
  <2>3. /\ AgentPuts(msgs) /\ pc[A] = "y2" /\ pc'[A] = "dx" /\ fate' = fate
    BY <2>1, <2>2, <2>a, AgentShape DEF AgentPc
  <2>4. a.peer = r.ssk
    BY <2>3 DEF EInv, AgentDerives
  <2>5. /\ a'.k = a.k /\ a'.ssk = a.ssk /\ a'.cks = a.cks
        /\ a'.flight = a.flight /\ a'.x = Ectf(a.ssk, r.ssk)
    BY <1>0, <2>1, <2>4 DEF AgentFields
  <2>6. JointShare' = JointShare /\ Flight(srv)' = Flight(srv)
    BY <2>1, <2>5 DEF JointShare, Flight
  <2>7. Ectf(a.ssk, r.ssk)' = Ectf(a.ssk, r.ssk)
    BY <2>1, <2>5
  <2>8. AgentDerives'
    BY <2>1, <2>3, <2>5, <2>6, <2>7 DEF EInv, AgentDerives
  <2> QED
    BY <2>1, <2>2, <2>3, <2>5, <2>8, AgentQuiet
<1> QED
  BY <1>1, <1>2, <1>3, <1>4, <1>5

-----------------------------------------------------------------------------
\* The control points before the ECtF output is there.
AgentOpening == {"start", "zb", "shf", "x2", "y2"}

AgentBase == /\ a'.k = a.k /\ a'.cks = a.cks /\ a'.ssk = a.ssk
             /\ a'.flight = a.flight /\ a'.x = a.x

\* A step behind them: the agent goes from p to p2 and sends msgs.
AgentLater(p, msgs, p2) ==
    /\ p \in AgentPc \ AgentOpening /\ p2 \in AgentPc \ AgentOpening
    /\ \E T : msgs \in Seq(T)
    /\ At(A, p) /\ Goes(A, p2) /\ r' = r /\ srv' = srv /\ AgentBase
    /\ \/ Takes(A, p) /\ Passes(A, msgs)
       \/ q' = [q EXCEPT ![A] = @ \o msgs]
    /\ SentAt[1][p2] = SentAt[1][p] + Len(msgs)

LEMMA AgentLaterSteps ==
    ASSUME PInv, KInv,
           \/ AInverse \/ AOpenChts \/ AVerify \/ AOpenIvC \/ ACommit
           \/ AFinish \/ AConfirmed \/ ABuild \/ AKeyShare \/ ASeal
           \/ AOpenRecord
           \/ AResponse /\ Goes(A, "done")
    PROVE  \E p, p2, msgs : AgentLater(p, msgs, p2)
<1>0. AgentFields \subseteq DOMAIN a
  BY DEF KInv, Fielded
<1>1. CASE AInverse
  <2> DEFINE msgs == <<>>
  <2>1. /\ At(A, "dx") /\ Goes(A, "chts") /\ r' = r /\ srv' = srv
        /\ Takes(A, "dx") /\ Passes(A, msgs)
    BY <1>1 DEF AInverse, Takes
  <2>2. AgentBase
    BY <1>0, <1>1 DEF AInverse, AgentBase, AgentFields
  <2>3. Len(msgs) = 0 /\ \E T : msgs \in Seq(T)
    BY Listed
  <2> HIDE DEF msgs
  <2>4. SentAt[1]["chts"] = SentAt[1]["dx"] + Len(msgs)
    BY <2>3 DEF SentAt
  <2>5. AgentLater("dx", msgs, "chts")
    BY <2>1, <2>2, <2>3, <2>4 DEF AgentLater, AgentPc, AgentOpening
  <2> QED
    BY <2>5
<1>2. CASE AOpenChts
  <2> DEFINE msgs == <<>>
  <2>1. /\ At(A, "chts") /\ Goes(A, "shts") /\ r' = r /\ srv' = srv
        /\ Takes(A, "chts") /\ Passes(A, msgs)
    BY <1>2 DEF AOpenChts, Takes
  <2>2. AgentBase
    BY <1>0, <1>2 DEF AOpenChts, AgentBase, AgentFields
  <2>3. Len(msgs) = 0 /\ \E T : msgs \in Seq(T)
    BY Listed
  <2> HIDE DEF msgs
  <2>4. SentAt[1]["shts"] = SentAt[1]["chts"] + Len(msgs)
    BY <2>3 DEF SentAt
  <2>5. AgentLater("chts", msgs, "shts")
    BY <2>1, <2>2, <2>3, <2>4 DEF AgentLater, AgentPc, AgentOpening
  <2> QED
    BY <2>5
<1>3. CASE AVerify
  <2> DEFINE msgs == <<Msg("h2", Flown(a.tr)), Msg("op", a'.capp)>>
  <2>1. /\ At(A, "shts") /\ Goes(A, "ivc") /\ r' = r /\ srv' = srv
        /\ Takes(A, "shts") /\ Passes(A, msgs)
    BY <1>3 DEF AVerify, Takes
  <2>2. AgentBase
    BY <1>0, <1>3 DEF AVerify, AgentBase, AgentFields
  <2>3. Len(msgs) = 2 /\ \E T : msgs \in Seq(T)
    BY Listed
  <2> HIDE DEF msgs
  <2>4. SentAt[1]["ivc"] = SentAt[1]["shts"] + Len(msgs)
    BY <2>3 DEF SentAt
  <2>5. AgentLater("shts", msgs, "ivc")
    BY <2>1, <2>2, <2>3, <2>4 DEF AgentLater, AgentPc, AgentOpening
  <2> QED
    BY <2>5
<1>4. CASE AOpenIvC
  <2> DEFINE msgs == <<Msg("op", a.sapp)>>
  <2>1. /\ At(A, "ivc") /\ Goes(A, "ivs") /\ r' = r /\ srv' = srv
        /\ Takes(A, "ivc") /\ Passes(A, msgs)
    BY <1>4 DEF AOpenIvC, Takes
  <2>2. AgentBase
    BY <1>0, <1>4 DEF AOpenIvC, AgentBase, AgentFields
  <2>3. Len(msgs) = 1 /\ \E T : msgs \in Seq(T)
    BY Listed
  <2> HIDE DEF msgs
  <2>4. SentAt[1]["ivs"] = SentAt[1]["ivc"] + Len(msgs)
    BY <2>3 DEF SentAt
  <2>5. AgentLater("ivc", msgs, "ivs")
    BY <2>1, <2>2, <2>3, <2>4 DEF AgentLater, AgentPc, AgentOpening
  <2> QED
    BY <2>5
<1>5. CASE ACommit
  <2> DEFINE msgs == <<Msg("com", a.sapp)>>
  <2>1. /\ At(A, "ivs") /\ Goes(A, "tksr") /\ r' = r /\ srv' = srv
        /\ Takes(A, "ivs") /\ Passes(A, msgs)
    BY <1>5 DEF ACommit, Takes
  <2>2. AgentBase
    BY <1>0, <1>5 DEF ACommit, AgentBase, AgentFields
  <2>3. Len(msgs) = 1 /\ \E T : msgs \in Seq(T)
    BY Listed
  <2> HIDE DEF msgs
  <2>4. SentAt[1]["tksr"] = SentAt[1]["ivs"] + Len(msgs)
    BY <2>3 DEF SentAt
  <2>5. AgentLater("ivs", msgs, "tksr")
    BY <2>1, <2>2, <2>3, <2>4 DEF AgentLater, AgentPc, AgentOpening
  <2> QED
    BY <2>5
<1>6. CASE AConfirmed
  <2> DEFINE msgs == <<>>
  <2>1. /\ At(A, "cfok") /\ Goes(A, "over") /\ r' = r /\ srv' = srv
        /\ Takes(A, "cfok") /\ Passes(A, msgs)
    BY <1>6 DEF AConfirmed, Takes
  <2>2. AgentBase
    BY <1>0, <1>6 DEF AConfirmed, AgentBase, AgentFields
  <2>3. Len(msgs) = 0 /\ \E T : msgs \in Seq(T)
    BY Listed
  <2> HIDE DEF msgs
  <2>4. SentAt[1]["over"] = SentAt[1]["cfok"] + Len(msgs)
    BY <2>3 DEF SentAt
  <2>5. AgentLater("cfok", msgs, "over")
    BY <2>1, <2>2, <2>3, <2>4 DEF AgentLater, AgentPc, AgentOpening
  <2> QED
    BY <2>5
<1>7. CASE ABuild
  <2> DEFINE msgs == <<Msg("sim.t", None), Msg("sim.t", a.capp)>>
  <2>1. /\ At(A, "over") /\ Goes(A, "tkr") /\ r' = r /\ srv' = srv
        /\ q' = [q EXCEPT ![A] = @ \o msgs]
    BY <1>7 DEF ABuild, Takes
  <2>2. AgentBase
    BY <1>0, <1>7 DEF ABuild, AgentBase, AgentFields
  <2>3. Len(msgs) = 2 /\ \E T : msgs \in Seq(T)
    BY Listed
  <2> HIDE DEF msgs
  <2>4. SentAt[1]["tkr"] = SentAt[1]["over"] + Len(msgs)
    BY <2>3 DEF SentAt
  <2>5. AgentLater("over", msgs, "tkr")
    BY <2>1, <2>2, <2>3, <2>4 DEF AgentLater, AgentPc, AgentOpening
  <2> QED
    BY <2>5
<1>8. CASE AKeyShare
  <2> DEFINE msgs == <<Msg("op", None)>>
  <2>1. /\ At(A, "tkr") /\ Goes(A, "gcm") /\ r' = r /\ srv' = srv
        /\ Takes(A, "tkr") /\ Passes(A, msgs)
    BY <1>8 DEF AKeyShare, Takes
  <2>2. AgentBase
    BY <1>0, <1>8 DEF AKeyShare, AgentBase, AgentFields
  <2>3. Len(msgs) = 1 /\ \E T : msgs \in Seq(T)
    BY Listed
  <2> HIDE DEF msgs
  <2>4. SentAt[1]["gcm"] = SentAt[1]["tkr"] + Len(msgs)
    BY <2>3 DEF SentAt
  <2>5. AgentLater("tkr", msgs, "gcm")
    BY <2>1, <2>2, <2>3, <2>4 DEF AgentLater, AgentPc, AgentOpening
  <2> QED
    BY <2>5
<1>9. CASE ASeal
  <2> DEFINE msgs == <<Msg("op", a.capp)>>
  <2>1. /\ At(A, "gcm") /\ Goes(A, "ct") /\ r' = r /\ srv' = srv
        /\ Takes(A, "gcm") /\ Passes(A, msgs)
    BY <1>9 DEF ASeal, Takes
  <2>2. AgentBase
    BY <1>0, <1>9 DEF ASeal, AgentBase, AgentFields
  <2>3. Len(msgs) = 1 /\ \E T : msgs \in Seq(T)
    BY Listed
  <2> HIDE DEF msgs
  <2>4. SentAt[1]["ct"] = SentAt[1]["gcm"] + Len(msgs)
    BY <2>3 DEF SentAt
  <2>5. AgentLater("gcm", msgs, "ct")
    BY <2>1, <2>2, <2>3, <2>4 DEF AgentLater, AgentPc, AgentOpening
  <2> QED
    BY <2>5
<1>10. CASE AOpenRecord
  <2> DEFINE msgs == <<>>
  <2>1. /\ At(A, "ct") /\ Goes(A, "resp") /\ r' = r /\ srv' = srv
        /\ Takes(A, "ct") /\ Passes(A, msgs)
    BY <1>10 DEF AOpenRecord, Takes
  <2>2. AgentBase
    BY <1>0, <1>10 DEF AOpenRecord, AgentBase, AgentFields
  <2>3. Len(msgs) = 0 /\ \E T : msgs \in Seq(T)
    BY Listed
  <2> HIDE DEF msgs
  <2>4. SentAt[1]["resp"] = SentAt[1]["ct"] + Len(msgs)
    BY <2>3 DEF SentAt
  <2>5. AgentLater("ct", msgs, "resp")
    BY <2>1, <2>2, <2>3, <2>4 DEF AgentLater, AgentPc, AgentOpening
  <2> QED
    BY <2>5
<1>11. CASE AFinish /\ a.ok
  <2> DEFINE msgs ==
          <<Msg("cf", Rec(a.chts, 0, "hs", Finished(a.chts, a.tr)))>>
  <2>1. /\ At(A, "tksr") /\ Goes(A, "cfok") /\ r' = r /\ srv' = srv
        /\ Takes(A, "tksr") /\ Passes(A, msgs)
    BY <1>11 DEF AFinish, Takes
  <2>2. AgentBase
    BY <1>0, <1>11 DEF AFinish, AgentBase, AgentFields
  <2>3. Len(msgs) = 1 /\ \E T : msgs \in Seq(T)
    BY Listed
  <2> HIDE DEF msgs
  <2>4. SentAt[1]["cfok"] = SentAt[1]["tksr"] + Len(msgs)
    BY <2>3 DEF SentAt
  <2>5. AgentLater("tksr", msgs, "cfok")
    BY <2>1, <2>2, <2>3, <2>4 DEF AgentLater, AgentPc, AgentOpening
  <2> QED
    BY <2>5
<1>12. CASE AFinish /\ ~ a.ok
  <2> DEFINE msgs ==
          <<Msg("cf", Rec(a.chts, 0, "hs", Finished(a.chts, a.tr)))>>
  <2>1. /\ At(A, "tksr") /\ Goes(A, "over") /\ r' = r /\ srv' = srv
        /\ Takes(A, "tksr") /\ Passes(A, msgs)
    BY <1>12 DEF AFinish, Takes
  <2>2. AgentBase
    BY <1>0, <1>12 DEF AFinish, AgentBase, AgentFields
  <2>3. Len(msgs) = 1 /\ \E T : msgs \in Seq(T)
    BY Listed
  <2> HIDE DEF msgs
  <2>4. SentAt[1]["over"] = SentAt[1]["tksr"] + Len(msgs)
    BY <2>3 DEF SentAt
  <2>5. AgentLater("tksr", msgs, "over")
    BY <2>1, <2>2, <2>3, <2>4 DEF AgentLater, AgentPc, AgentOpening
  <2> QED
    BY <2>5
<1>13. CASE AResponse /\ Goes(A, "done")
  <2> DEFINE msgs == <<>>
  <2>1. /\ At(A, "resp") /\ Goes(A, "done") /\ r' = r /\ srv' = srv
        /\ Takes(A, "resp") /\ Passes(A, msgs)
    BY <1>13 DEF AResponse, Takes
  <2>2. AgentBase
    BY <1>0, <1>13 DEF AResponse, AgentBase, AgentFields
  <2>3. Len(msgs) = 0 /\ \E T : msgs \in Seq(T)
    BY Listed
  <2> HIDE DEF msgs
  <2>4. SentAt[1]["done"] = SentAt[1]["resp"] + Len(msgs)
    BY <2>3 DEF SentAt
  <2>5. AgentLater("resp", msgs, "done")
    BY <2>1, <2>2, <2>3, <2>4 DEF AgentLater, AgentPc, AgentOpening
  <2> QED
    BY <2>5
<1> QED
  BY <1>1, <1>2, <1>3, <1>4, <1>5, <1>6, <1>7, <1>8, <1>9, <1>10, <1>11,
     <1>12, <1>13

LEMMA AgentLaterKeeps ==
    ASSUME PInv, EInv, NEW p, NEW p2, NEW msgs, AgentLater(p, msgs, p2)
    PROVE  EInv'
<1> USE DEF AgentLater
<1>1. /\ AgentPuts(msgs) /\ pc[A] = p /\ pc'[A] = p2 /\ fate' = fate
  BY AgentShape
<1>2. Flight(srv)' = Flight(srv) /\ JointShare' = JointShare
      /\ Ectf(a.ssk, r.ssk)' = Ectf(a.ssk, r.ssk)
  BY DEF Flight, JointShare, AgentBase
<1>3. AgentDerives'
  BY <1>1, <1>2 DEF EInv, AgentDerives, AgentBase, AgentOpening
<1>4. SentAt[1][pc[A]] >= 4
  BY <1>1 DEF AgentPc, AgentOpening, SentAt
<1> QED
  BY <1>1, <1>3, <1>4, AgentQuiet DEF AgentBase

\* The agent's thread ends where it stands.
AgentDies ==
    \/ ABadFlight
    \/ AResponse /\ Dies(A, "raised")
    \/ RecvFails(A)

LEMMA AgentDiesKeeps ==
    ASSUME PInv, EInv, AgentDies
    PROVE  EInv'
<1> DEFINE msgs == <<>>
<1>1. /\ a' = a /\ r' = r /\ srv' = srv
      /\ \E how : Dies(A, how)
      /\ \/ q' = q
         \/ q[Peer(A)] # <<>> /\ Passes(A, <<>>)
  <2>1. CASE ABadFlight
    BY <2>1 DEF ABadFlight, Takes
  <2>2. CASE AResponse /\ Dies(A, "raised")
    BY <2>2 DEF AResponse, Takes
  <2>3. CASE RecvFails(A)
    BY <2>3 DEF RecvFails, Desync, Expire
  <2> QED
    BY <2>1, <2>2, <2>3 DEF AgentDies
<1>2. pc' = pc /\ fate'[R] = fate[R]
  BY <1>1, Sides DEF Dies, PInv, Typed
<1>3. /\ q'[A] = q[A] \o msgs
      /\ \/ q'[R] = q[R]
         \/ q[R] # <<>> /\ q'[R] = Tail(q[R])
  <2>1. PICK S : q[A] \in Seq(S)
    BY DEF PInv, Typed
  <2>2. CASE q' = q
    BY <2>1, <2>2, ConcatEmptySeq
  <2>3. CASE q[Peer(A)] # <<>> /\ Passes(A, <<>>)
    BY <2>3, Sides, Listed, PassQueues DEF PInv
  <2> QED
    BY <1>1, <2>2, <2>3
<1>4. /\ Len(msgs) = 0 /\ 1 .. Len(msgs) = {} /\ \E T : msgs \in Seq(T)
  BY Listed
<1> HIDE DEF msgs
<1>5. AgentPuts(msgs)
  BY <1>1, <1>2, <1>3, <1>4, Lengths DEF AgentPuts, PInv, Typed
<1>6. AgentDerives'
  <2>1. Flight(srv)' = Flight(srv) /\ JointShare' = JointShare
    BY <1>1 DEF Flight, JointShare
  <2> QED
    BY <1>1, <1>2, <2>1 DEF EInv, AgentDerives
<1> QED
  BY <1>1, <1>2, <1>4, <1>5, <1>6, AgentQuiet

-----------------------------------------------------------------------------
RelayBase == /\ r'.k = r.k /\ r'.cks = r.cks /\ r'.ssk = r.ssk
             /\ r'.x = r.x /\ r'.tr = r.tr
ProviderBase == /\ Flight(srv') = Flight(srv) /\ srv'.y = srv.y
                /\ srv'.hello = srv.hello /\ srv'.hsSeqS = srv.hsSeqS

LEMMA RelayQuiet ==
    ASSUME PInv, EInv, NEW msgs, RelayPuts(msgs), ProviderBase,
           r'.k = r.k, r'.ssk = r.ssk, r'.x = r.x, r'.tr = r.tr,
           Len(msgs) = 0 \/ SentAt[2][pc[R]] >= 7,
           RelayDerives', ProviderCounts'
    PROVE  EInv'
<1>1. a' = a /\ pc'[A] = pc[A] /\ \E T : msgs \in Seq(T)
  BY DEF RelayPuts
<1>2. RelayFirst' = RelayFirst
  BY DEF RelayFirst, ProviderBase
<1>3. PICK m \in Nat, l \in Nat : m = SentAt[2][pc[R]] /\ l = Len(msgs)
  BY <1>1, Lengths, LenProperties
<1>4. \A i \in 1 .. l : m + i \notin {1, 2, 3, 4, 7}
  BY <1>3
<1>5. /\ Starts(q'[A], SentBy(A)', AgentFirst')
      /\ Starts(q'[R], SentBy(R)', RelayFirst')
  BY <1>2, <1>3, <1>4, RelayStarts
<1>6. JointShare' = JointShare
  BY <1>1 DEF JointShare
<1>7. AgentDerives' /\ Shares'
  BY <1>1, <1>6 DEF EInv, AgentDerives, Shares, ProviderBase
<1> QED
  BY <1>5, <1>7 DEF EInv

LEMMA Greets ==
    ASSUME NEW s, ServerFields \subseteq DOMAIN s, NEW ks
    PROVE  LET g == Greeted(s, ks)
               x == X(Mul(s.y, ks))
               hs == s.transcript \o <<CH(ks), SH(s.y)>>
           IN  /\ g.y = s.y /\ g.name = s.name /\ g.ca = s.ca
               /\ g.hello /\ g.hsSeqS = 1 /\ g.hsSeqC = 0
               /\ g.seqC = s.seqC /\ g.seqS = s.seqS
               /\ g.shts = ShtsOf(x, hs) /\ g.chts = ChtsOf(x, hs)
               /\ g.sfTr = Flown(hs) /\ g.established = s.established
<1> DEFINE x == X(Mul(s.y, ks))
           hs == s.transcript \o <<CH(ks), SH(s.y)>>
           sf == Flown(hs)
<1>1. Greeted(s, ks) =
        [s EXCEPT !.transcript = sf, !.sfTr = sf,
                  !.chts = Secret("c hs traffic", x, hs),
                  !.shts = Secret("s hs traffic", x, hs),
                  !.capp = Secret("c ap traffic", x, sf),
                  !.sapp = Secret("s ap traffic", x, sf),
                  !.hsSeqS = 1, !.hsSeqC = 0, !.hello = TRUE]
  BY DEF Greeted
<1> HIDE DEF x, hs, sf
<1>2. PICK g : g = Greeted(s, ks)
  OBVIOUS
<1>3. /\ g.y = s.y /\ g.name = s.name /\ g.ca = s.ca
      /\ g.hello /\ g.hsSeqS = 1 /\ g.hsSeqC = 0
      /\ g.seqC = s.seqC /\ g.seqS = s.seqS
      /\ g.shts = Secret("s hs traffic", x, hs)
      /\ g.chts = Secret("c hs traffic", x, hs)
      /\ g.sfTr = sf /\ g.established = s.established
  BY <1>1, <1>2 DEF ServerFields
<1> QED
  BY <1>2, <1>3 DEF x, hs, sf, ShtsOf, ChtsOf

LEMMA RelayFirstSteps ==
    ASSUME PInv, KInv, EInv,
           \/ RShare
           \/ RClientHello
           \/ RInputX
           \/ RInputY
           \/ RRelease
    PROVE  EInv'
<1>0. RelayFields \subseteq DOMAIN r /\ ServerFields \subseteq DOMAIN srv
  BY DEF KInv, Fielded
<1>1. CASE RShare
  <2> DEFINE cks == (r.k + Got(R)) % Q
             msgs == <<Msg("zb", r.k)>>
  <2>1. /\ At(R, "za") /\ Goes(R, "ch") /\ a' = a /\ srv' = srv
        /\ Takes(R, "za") /\ Passes(R, msgs) /\ r' = [r EXCEPT !.cks = cks]
    BY <1>1 DEF RShare, Takes
  <2>2. /\ SentAt[2]["za"] = 0 /\ SentAt[2]["ch"] = 1
        /\ Len(msgs) = 1 /\ msgs[1].val = r.k /\ \E T : msgs \in Seq(T)
    BY Listed DEF SentAt, Msg
  <2>3. Got(R) = a.k
    <3>1. "za" \in RelayPc /\ ReadAt[2]["za"] = 0
      BY DEF RelayPc, ReadAt
    <3> QED
      BY <2>1, <3>1, RelayReads, AgentWordsAre
  <2>4. cks = JointShare
    <3>1. a.k \in Int /\ r.k \in Int
      BY Scalars DEF EInv, Shares
    <3>2. r.k + a.k = a.k + r.k
      BY <3>1
    <3> QED
      BY <2>3, <3>2 DEF JointShare
  <2> HIDE DEF cks, msgs
  <2>a. SentAt[2]["ch"] = SentAt[2]["za"] + Len(msgs)
    BY <2>2
  <2>5. /\ RelayPuts(msgs) /\ pc[R] = "za" /\ pc'[R] = "ch"
        /\ pc'[A] = pc[A] /\ fate' = fate
    BY <2>1, <2>2, <2>a, RelayShape DEF RelayPc
  <2>6. /\ r'.k = r.k /\ r'.ssk = r.ssk /\ r'.cks = cks
        /\ r'.x = r.x /\ r'.tr = r.tr
    BY <1>0, <2>1 DEF RelayFields
  <2>7. RelayFirst' = RelayFirst
    BY <2>1, <2>6 DEF RelayFirst
  <2>8. \A i \in 1 .. Len(msgs) : SentAt[2][pc[R]] + i \in {1, 2, 3, 4, 7} =>
            msgs[i].val = RelayFirst'[SentAt[2][pc[R]] + i]
    <3>1. \A i \in 1 .. Len(msgs) : i = 1 /\ SentAt[2][pc[R]] + i = 1
      BY <2>2, <2>5
    <3> QED
      BY <2>2, <2>7, <3>1, AgentWordsAre
  <2>9. /\ Starts(q'[A], SentBy(A)', AgentFirst')
        /\ Starts(q'[R], SentBy(R)', RelayFirst')
    BY <2>5, <2>7, <2>8, RelayStarts
  <2>10. JointShare' = JointShare
    BY <2>1, <2>6 DEF JointShare
  <2>11. pc[A] \in {"start", "zb"}
    BY <2>5, FirstOrder
  <2> QED
    BY <2>1, <2>4, <2>5, <2>6, <2>9, <2>10, <2>11
       DEF EInv, AgentDerives, RelayDerives, ProviderCounts, Shares, Alive
<1>2. CASE RClientHello
  <2> DEFINE ssk == Mul(r.k, srv'.y)
             msgs == <<Msg("shf", Flight(srv'))>>
  <2>1. /\ At(R, "ch") /\ Goes(R, "x1") /\ a' = a
        /\ Takes(R, "ch") /\ Passes(R, msgs) /\ srv' = Greeted(srv, r.cks)
        /\ r' = [r EXCEPT !.ssk = ssk, !.tr = <<CH(r.cks), SH(srv'.y)>>]
    BY <1>2 DEF RClientHello, Takes, ClientHello
  <2>2. /\ SentAt[2]["ch"] = 1 /\ SentAt[2]["x1"] = 2
        /\ Len(msgs) = 1 /\ msgs[1].val = Flight(srv')
        /\ \E T : msgs \in Seq(T)
    BY Listed DEF SentAt, Msg
  <2>3. /\ srv'.y = srv.y /\ srv'.hello /\ srv'.hsSeqS = 1
        /\ srv'.hsSeqC = 0 /\ srv'.seqC = srv.seqC
    BY <1>0, <2>1, Greets
  <2> HIDE DEF ssk, msgs
  <2>a. SentAt[2]["x1"] = SentAt[2]["ch"] + Len(msgs)
    BY <2>2
  <2>4. /\ RelayPuts(msgs) /\ pc[R] = "ch" /\ pc'[R] = "x1"
        /\ pc'[A] = pc[A] /\ fate' = fate
    BY <2>1, <2>2, <2>a, RelayShape DEF RelayPc
  <2>5. /\ r'.k = r.k /\ r'.ssk = ssk /\ r'.cks = r.cks
        /\ r'.tr = <<CH(r.cks), SH(srv.y)>>
    BY <1>0, <2>1, <2>3 DEF RelayFields
  <2>6. ssk = Mul(r.k, srv.y)
    BY <2>3 DEF ssk
  <2>7. RelayFirst'[1] = r'.k /\ RelayFirst'[2] = Flight(srv')
    BY DEF RelayFirst
  <2>8. \A k \in 1 .. SentAt[2][pc[R]] :
            k \in {1, 2, 3, 4, 7} => RelayFirst'[k] = RelayFirst[k]
    <3>1. \A k \in 1 .. SentAt[2][pc[R]] : k = 1
      BY <2>2, <2>4
    <3> QED
      BY <2>5, <2>7, <3>1, AgentWordsAre
  <2>9. \A i \in 1 .. Len(msgs) : SentAt[2][pc[R]] + i \in {1, 2, 3, 4, 7} =>
            msgs[i].val = RelayFirst'[SentAt[2][pc[R]] + i]
    <3>1. \A i \in 1 .. Len(msgs) : i = 1 /\ SentAt[2][pc[R]] + i = 2
      BY <2>2, <2>4
    <3> QED
      BY <2>2, <2>7, <3>1
  <2>10. /\ Starts(q'[A], SentBy(A)', AgentFirst')
         /\ Starts(q'[R], SentBy(R)', RelayFirst')
    BY <2>4, <2>8, <2>9, RelayStarts
  <2>11. JointShare' = JointShare
    BY <2>1, <2>5 DEF JointShare
  <2>12. pc[A] \in {"start", "zb", "shf"}
    BY <2>4, FirstOrder
  <2>13. r.cks = JointShare
    BY <2>4 DEF EInv, RelayDerives
  <2>14. AgentDerives'
    BY <2>1, <2>4, <2>11, <2>12 DEF EInv, AgentDerives
  <2>15. RelayDerives'
    BY <2>3, <2>4, <2>5, <2>6, <2>11, <2>13 DEF RelayDerives
  <2>16. ProviderCounts' /\ Shares'
    BY <2>1, <2>3, <2>4, <2>5 DEF EInv, ProviderCounts, Shares, Alive
  <2> QED
    BY <2>10, <2>14, <2>15, <2>16 DEF EInv
<1>3. CASE RInputX
  <2> DEFINE msgs == <<>>
  <2>1. /\ At(R, "x1") /\ Goes(R, "y1") /\ a' = a /\ srv' = srv
        /\ Takes(R, "x1") /\ Passes(R, msgs) /\ r' = [r EXCEPT !.peer = Got(R)]
    BY <1>3 DEF RInputX, Takes
  <2>2. /\ SentAt[2]["x1"] = 2 /\ SentAt[2]["y1"] = 2
        /\ Len(msgs) = 0 /\ \E T : msgs \in Seq(T)
    BY Listed DEF SentAt
  <2>3. Got(R) = a.ssk
    <3>1. "x1" \in RelayPc /\ ReadAt[2]["x1"] = 2
      BY DEF RelayPc, ReadAt
    <3> QED
      BY <2>1, <3>1, RelayReads, AgentWordsAre
  <2> HIDE DEF msgs
  <2>a. SentAt[2]["y1"] = SentAt[2]["x1"] + Len(msgs)
    BY <2>2
  <2>4. /\ RelayPuts(msgs) /\ pc[R] = "x1" /\ pc'[R] = "y1" /\ fate' = fate
    BY <2>1, <2>2, <2>a, RelayShape DEF RelayPc
  <2>5. RelayBase /\ r'.peer = a.ssk
    BY <1>0, <2>1, <2>3 DEF RelayBase, RelayFields
  <2>6. JointShare' = JointShare /\ ProviderBase
    BY <2>1, <2>5 DEF JointShare, RelayBase, ProviderBase
  <2>7. RelayDerives' /\ ProviderCounts'
    BY <2>1, <2>4, <2>5, <2>6
       DEF EInv, RelayDerives, ProviderCounts, RelayBase, Alive
  <2> QED
    BY <2>2, <2>4, <2>5, <2>6, <2>7, RelayQuiet DEF RelayBase
<1>4. CASE RInputY
  <2> DEFINE msgs ==
          <<Msg("sim.t", r.ssk), Msg("sim.t", r.ssk), Msg("op", None)>>
  <2>1. /\ At(R, "y1") /\ Goes(R, "dx") /\ a' = a /\ srv' = srv
        /\ Takes(R, "y1") /\ Passes(R, msgs)
        /\ r' = [r EXCEPT !.x = Ectf(r.peer, r.ssk)]
    BY <1>4 DEF RInputY, Takes
  <2>2. /\ SentAt[2]["y1"] = 2 /\ SentAt[2]["dx"] = 5
    BY DEF SentAt
  <2>b. /\ Len(msgs) = 3 /\ msgs[1].val = r.ssk /\ msgs[2].val = r.ssk
        /\ \E T : msgs \in Seq(T)
    BY Listed DEF Msg
  <2> HIDE DEF msgs
  <2>a. SentAt[2]["dx"] = SentAt[2]["y1"] + Len(msgs)
    BY <2>2, <2>b
  <2>3. /\ RelayPuts(msgs) /\ pc[R] = "y1" /\ pc'[R] = "dx"
        /\ pc'[A] = pc[A] /\ fate' = fate
    BY <2>1, <2>b, <2>a, RelayShape DEF RelayPc
  <2>4. r.peer = a.ssk
    BY <2>3 DEF EInv, RelayDerives
  <2>5. /\ r'.k = r.k /\ r'.ssk = r.ssk /\ r'.cks = r.cks /\ r'.tr = r.tr
        /\ r'.x = Ectf(a.ssk, r.ssk)
    BY <1>0, <2>1, <2>4 DEF RelayFields
  <2>6. /\ JointShare' = JointShare /\ Flight(srv)' = Flight(srv)
        /\ Ectf(a.ssk, r.ssk)' = Ectf(a.ssk, r.ssk)
    BY <2>1, <2>5 DEF JointShare, Flight
  <2>7. /\ RelayFirst'[1] = r'.k /\ RelayFirst'[2] = Flight(srv')
        /\ RelayFirst'[3] = r'.ssk /\ RelayFirst'[4] = r'.ssk
    BY DEF RelayFirst
  <2>8. \A k \in 1 .. SentAt[2][pc[R]] :
            k \in {1, 2, 3, 4, 7} => RelayFirst'[k] = RelayFirst[k]
    <3>1. \A k \in 1 .. SentAt[2][pc[R]] : k = 1 \/ k = 2
      BY <2>2, <2>3
    <3> QED
      BY <2>1, <2>5, <2>6, <2>7, <3>1, AgentWordsAre
  <2>9. \A i \in 1 .. Len(msgs) : SentAt[2][pc[R]] + i \in {1, 2, 3, 4, 7} =>
            msgs[i].val = RelayFirst'[SentAt[2][pc[R]] + i]
    <3>1. \A i \in 1 .. Len(msgs) :
              \/ i = 1 /\ SentAt[2][pc[R]] + i = 3
              \/ i = 2 /\ SentAt[2][pc[R]] + i = 4
              \/ SentAt[2][pc[R]] + i = 5
      BY <2>2, <2>b, <2>3
    <3> QED
      BY <2>b, <2>5, <2>7, <3>1
  <2>10. /\ Starts(q'[A], SentBy(A)', AgentFirst')
         /\ Starts(q'[R], SentBy(R)', RelayFirst')
    BY <2>3, <2>8, <2>9, RelayStarts
  <2>11. pc[A] \in {"start", "zb", "shf", "x2"}
    BY <2>3, FirstOrder
  <2>12. AgentDerives'
    BY <2>1, <2>3, <2>5, <2>6, <2>11 DEF EInv, AgentDerives
  <2>13. RelayDerives'
    BY <2>1, <2>3, <2>5, <2>6 DEF EInv, RelayDerives
  <2>14. ProviderCounts' /\ Shares'
    BY <2>1, <2>3, <2>5 DEF EInv, ProviderCounts, Shares, Alive
  <2> QED
    BY <2>10, <2>12, <2>13, <2>14 DEF EInv
<1>5. CASE RRelease
  <2> DEFINE msgs == <<Msg("op", ChtsOf(r.x, r.tr)),
                       Msg("op", ShtsOf(r.x, r.tr))>>
  <2>1. /\ At(R, "dx") /\ Goes(R, "h2") /\ a' = a /\ srv' = srv /\ r' = r
        /\ Takes(R, "dx") /\ Passes(R, msgs)
    BY <1>5 DEF RRelease, Takes
  <2>2. /\ SentAt[2]["dx"] = 5 /\ SentAt[2]["h2"] = 7
    BY DEF SentAt
  <2>b. /\ Len(msgs) = 2 /\ msgs[2].val = ShtsOf(r.x, r.tr)
        /\ \E T : msgs \in Seq(T)
    BY Listed DEF Msg
  <2> HIDE DEF msgs
  <2>a. SentAt[2]["h2"] = SentAt[2]["dx"] + Len(msgs)
    BY <2>2, <2>b
  <2>3. /\ RelayPuts(msgs) /\ pc[R] = "dx" /\ pc'[R] = "h2"
        /\ pc'[A] = pc[A] /\ fate' = fate
    BY <2>1, <2>b, <2>a, RelayShape DEF RelayPc
  <2>4. RelayFirst' = RelayFirst /\ JointShare' = JointShare
    BY <2>1 DEF RelayFirst, JointShare
  <2>5. \A i \in 1 .. Len(msgs) : SentAt[2][pc[R]] + i \in {1, 2, 3, 4, 7} =>
            msgs[i].val = RelayFirst'[SentAt[2][pc[R]] + i]
    <3>1. \A i \in 1 .. Len(msgs) :
              \/ SentAt[2][pc[R]] + i = 6
              \/ i = 2 /\ SentAt[2][pc[R]] + i = 7
      BY <2>2, <2>b, <2>3
    <3> QED
      BY <2>b, <2>4, <3>1, AgentWordsAre
  <2>6. /\ Starts(q'[A], SentBy(A)', AgentFirst')
        /\ Starts(q'[R], SentBy(R)', RelayFirst')
    BY <2>3, <2>4, <2>5, RelayStarts
  <2> QED
    BY <2>1, <2>3, <2>4, <2>6
       DEF EInv, AgentDerives, RelayDerives, ProviderCounts, Shares, Alive
<1> QED
  BY <1>1, <1>2, <1>3, <1>4, <1>5

-----------------------------------------------------------------------------
RelayOpening == {"za", "ch", "x1", "y1", "dx"}

\* A step of the relay behind its release of the handshake secrets.
RelayLater(p, msgs, p2) ==
    /\ p \in RelayPc \ RelayOpening /\ p2 \in RelayPc \ RelayOpening
    /\ \E T : msgs \in Seq(T)
    /\ At(R, p) /\ Goes(R, p2) /\ a' = a /\ RelayBase /\ ProviderBase
    /\ \/ Takes(R, p) /\ Passes(R, msgs)
       \/ q' = q /\ msgs = <<>>
    /\ SentAt[2][p2] = SentAt[2][p] + Len(msgs)
    /\ p2 \in {"h2", "ivc", "ivs", "com", "cf"} =>
           p \in {"h2", "ivc", "ivs", "com"} /\ srv'.hsSeqC = srv.hsSeqC
    /\ p2 # "done" => srv'.seqC = srv.seqC
    /\ p # "done"

\* The provider's calls but the first leave what its flight is made of.
LEMMA ProviderFinished ==
    ASSUME KInv, NEW rec, ClientFinished(rec)
    PROVE  ProviderBase /\ srv'.seqC = srv.seqC
<1>0. ServerFields \subseteq DOMAIN srv
  BY DEF KInv, Fielded
<1>1. \/ srv' = srv
      \/ srv' = [srv EXCEPT !.hsSeqC = @ + 1]
      \/ srv' = Confirmed(srv)
  BY DEF ClientFinished
<1>2. /\ srv'.y = srv.y /\ srv'.shts = srv.shts /\ srv'.hsSeqS = srv.hsSeqS
      /\ srv'.name = srv.name /\ srv'.ca = srv.ca /\ srv'.hello = srv.hello
      /\ srv'.seqC = srv.seqC
  BY <1>0, <1>1 DEF ServerFields, Confirmed
<1> QED
  BY <1>2 DEF ProviderBase, Flight

LEMMA ProviderAsked ==
    ASSUME KInv, NEW rec, Query(rec)
    PROVE  ProviderBase /\ srv'.hsSeqC = srv.hsSeqC
<1>0. ServerFields \subseteq DOMAIN srv
  BY DEF KInv, Fielded
<1>1. \/ srv' = srv
      \/ srv' = [srv EXCEPT !.seqC = @ + 1]
      \/ srv' = Answered(srv)
  BY DEF Query
<1>2. /\ srv'.y = srv.y /\ srv'.shts = srv.shts /\ srv'.hsSeqS = srv.hsSeqS
      /\ srv'.name = srv.name /\ srv'.ca = srv.ca /\ srv'.hello = srv.hello
      /\ srv'.hsSeqC = srv.hsSeqC
  BY <1>0, <1>1 DEF ServerFields, Answered
<1> QED
  BY <1>2 DEF ProviderBase, Flight

\* The relay goes on after on_query exactly when it has an answer.
LEMMA RForwards ==
    ASSUME PInv, RForward
    PROVE  LET rec == QueryRecord(r.capp, Got(R))
           IN  \/ /\ QueryAnswered(rec) /\ Goes(R, "done")
                  /\ Passes(R, <<Msg("resp", Response(srv'))>>)
               \/ /\ ~ QueryAnswered(rec) /\ Dies(R, "raised")
                  /\ Passes(R, <<>>) /\ ~ Goes(R, "done")
<1>1. Dies(R, "raised") => ~ Goes(R, "done")
  <2> SUFFICES ASSUME Dies(R, "raised"), Goes(R, "done") PROVE FALSE
    OBVIOUS
  <2>1. /\ pc[R] = "ct" /\ pc' = pc
    BY Sides DEF RForward, Takes, At, Dies
  <2>2. pc'[R] = "done"
    BY Sides DEF Goes, PInv, Typed
  <2> QED
    BY <2>1, <2>2
<1> QED
  BY <1>1 DEF RForward

LEMMA RelayLaterSteps ==
    ASSUME PInv, KInv,
           \/ RPhase2 \/ ROpenIvC \/ ROpenIvS \/ RReveal \/ RFinished
           \/ RBuild \/ RSegments \/ RKeyShare \/ RSeal
           \/ RForward /\ Goes(R, "done")
    PROVE  \E p, p2, msgs : RelayLater(p, msgs, p2)
<1>0. RelayFields \subseteq DOMAIN r /\ ServerFields \subseteq DOMAIN srv
  BY DEF KInv, Fielded
<1>1. CASE RPhase2
  <2> DEFINE msgs == <<Msg("op", r'.capp)>>
  <2>1. /\ At(R, "h2") /\ Goes(R, "ivc") /\ a' = a
        /\ Takes(R, "h2") /\ Passes(R, msgs)
    BY <1>1 DEF RPhase2, Takes
  <2>2. RelayBase
    BY <1>0, <1>1 DEF RPhase2, RelayBase, RelayFields
  <2>3. ProviderBase /\ srv' = srv
    BY <1>1 DEF RPhase2, ProviderBase
  <2>4. Len(msgs) = 1 /\ \E T : msgs \in Seq(T)
    BY Listed
  <2> HIDE DEF msgs
  <2>5. SentAt[2]["ivc"] = SentAt[2]["h2"] + Len(msgs)
    BY <2>4 DEF SentAt
  <2>6. RelayLater("h2", msgs, "ivc")
    BY <2>1, <2>2, <2>3, <2>4, <2>5 DEF RelayLater, RelayPc, RelayOpening
  <2> QED
    BY <2>6
<1>2. CASE ROpenIvC
  <2> DEFINE msgs == <<Msg("op", r.sapp)>>
  <2>1. /\ At(R, "ivc") /\ Goes(R, "ivs") /\ a' = a
        /\ Takes(R, "ivc") /\ Passes(R, msgs)
    BY <1>2 DEF ROpenIvC, Takes
  <2>2. RelayBase
    BY <1>0, <1>2 DEF ROpenIvC, RelayBase, RelayFields
  <2>3. ProviderBase /\ srv' = srv
    BY <1>2 DEF ROpenIvC, ProviderBase
  <2>4. Len(msgs) = 1 /\ \E T : msgs \in Seq(T)
    BY Listed
  <2> HIDE DEF msgs
  <2>5. SentAt[2]["ivs"] = SentAt[2]["ivc"] + Len(msgs)
    BY <2>4 DEF SentAt
  <2>6. RelayLater("ivc", msgs, "ivs")
    BY <2>1, <2>2, <2>3, <2>4, <2>5 DEF RelayLater, RelayPc, RelayOpening
  <2> QED
    BY <2>6
<1>3. CASE ROpenIvS
  <2> DEFINE msgs == <<>>
  <2>1. /\ At(R, "ivs") /\ Goes(R, "com") /\ a' = a
        /\ Takes(R, "ivs") /\ Passes(R, msgs)
    BY <1>3 DEF ROpenIvS, Takes
  <2>2. RelayBase
    BY <1>0, <1>3 DEF ROpenIvS, RelayBase, RelayFields
  <2>3. ProviderBase /\ srv' = srv
    BY <1>3 DEF ROpenIvS, ProviderBase
  <2>4. Len(msgs) = 0 /\ \E T : msgs \in Seq(T)
    BY Listed
  <2> HIDE DEF msgs
  <2>5. SentAt[2]["com"] = SentAt[2]["ivs"] + Len(msgs)
    BY <2>4 DEF SentAt
  <2>6. RelayLater("ivs", msgs, "com")
    BY <2>1, <2>2, <2>3, <2>4, <2>5 DEF RelayLater, RelayPc, RelayOpening
  <2> QED
    BY <2>6
<1>4. CASE RReveal
  <2> DEFINE msgs == <<Msg("tksr", r.sapp)>>
  <2>1. /\ At(R, "com") /\ Goes(R, "cf") /\ a' = a
        /\ Takes(R, "com") /\ Passes(R, msgs)
    BY <1>4 DEF RReveal, Takes
  <2>2. RelayBase
    BY <1>0, <1>4 DEF RReveal, RelayBase, RelayFields
  <2>3. ProviderBase /\ srv' = srv
    BY <1>4 DEF RReveal, ProviderBase
  <2>4. Len(msgs) = 1 /\ \E T : msgs \in Seq(T)
    BY Listed
  <2> HIDE DEF msgs
  <2>5. SentAt[2]["cf"] = SentAt[2]["com"] + Len(msgs)
    BY <2>4 DEF SentAt
  <2>6. RelayLater("com", msgs, "cf")
    BY <2>1, <2>2, <2>3, <2>4, <2>5 DEF RelayLater, RelayPc, RelayOpening
  <2> QED
    BY <2>6
<1>5. CASE RFinished
  <2> DEFINE msgs == <<Msg("cfok", FinishedOk(Got(R)))>>
  <2>1. /\ At(R, "cf") /\ Goes(R, "over") /\ a' = a
        /\ Takes(R, "cf") /\ Passes(R, msgs)
    BY <1>5 DEF RFinished, Takes
  <2>2. RelayBase
    BY <1>0, <1>5 DEF RFinished, RelayBase, RelayFields
  <2>3. ProviderBase /\ srv'.seqC = srv.seqC
    BY <1>5, ProviderFinished DEF RFinished
  <2>4. Len(msgs) = 1 /\ \E T : msgs \in Seq(T)
    BY Listed
  <2> HIDE DEF msgs
  <2>5. SentAt[2]["over"] = SentAt[2]["cf"] + Len(msgs)
    BY <2>4 DEF SentAt
  <2>6. RelayLater("cf", msgs, "over")
    BY <2>1, <2>2, <2>3, <2>4, <2>5 DEF RelayLater, RelayPc, RelayOpening
  <2> QED
    BY <2>6
<1>6. CASE RBuild
  <2> DEFINE msgs == <<>>
  <2>1. /\ At(R, "over") /\ Goes(R, "seg") /\ a' = a /\ q' = q /\ msgs = <<>>
    BY <1>6 DEF RBuild, Takes
  <2>2. RelayBase
    BY <1>0, <1>6 DEF RBuild, RelayBase, RelayFields
  <2>3. ProviderBase /\ srv' = srv
    BY <1>6 DEF RBuild, ProviderBase
  <2>4. Len(msgs) = 0 /\ \E T : msgs \in Seq(T)
    BY Listed
  <2> HIDE DEF msgs
  <2>5. SentAt[2]["seg"] = SentAt[2]["over"] + Len(msgs)
    BY <2>4 DEF SentAt
  <2>6. RelayLater("over", msgs, "seg")
    BY <2>1, <2>2, <2>3, <2>4, <2>5 DEF RelayLater, RelayPc, RelayOpening
  <2> QED
    BY <2>6
<1>7. CASE RSegments
  <2> DEFINE msgs == <<>>
  <2>1. /\ At(R, "seg") /\ Goes(R, "tka") /\ a' = a
        /\ Takes(R, "seg") /\ Passes(R, msgs)
    BY <1>7 DEF RSegments, Takes
  <2>2. RelayBase
    BY <1>0, <1>7 DEF RSegments, RelayBase, RelayFields
  <2>3. ProviderBase /\ srv' = srv
    BY <1>7 DEF RSegments, ProviderBase
  <2>4. Len(msgs) = 0 /\ \E T : msgs \in Seq(T)
    BY Listed
  <2> HIDE DEF msgs
  <2>5. SentAt[2]["tka"] = SentAt[2]["seg"] + Len(msgs)
    BY <2>4 DEF SentAt
  <2>6. RelayLater("seg", msgs, "tka")
    BY <2>1, <2>2, <2>3, <2>4, <2>5 DEF RelayLater, RelayPc, RelayOpening
  <2> QED
    BY <2>6
<1>8. CASE RKeyShare
  <2> DEFINE msgs == <<Msg("sim.t", r.capp), Msg("op", None)>>
  <2>1. /\ At(R, "tka") /\ Goes(R, "gcm") /\ a' = a
        /\ Takes(R, "tka") /\ Passes(R, msgs)
    BY <1>8 DEF RKeyShare, Takes
  <2>2. RelayBase
    BY <1>0, <1>8 DEF RKeyShare, RelayBase, RelayFields
  <2>3. ProviderBase /\ srv' = srv
    BY <1>8 DEF RKeyShare, ProviderBase
  <2>4. Len(msgs) = 2 /\ \E T : msgs \in Seq(T)
    BY Listed
  <2> HIDE DEF msgs
  <2>5. SentAt[2]["gcm"] = SentAt[2]["tka"] + Len(msgs)
    BY <2>4 DEF SentAt
  <2>6. RelayLater("tka", msgs, "gcm")
    BY <2>1, <2>2, <2>3, <2>4, <2>5 DEF RelayLater, RelayPc, RelayOpening
  <2> QED
    BY <2>6
<1>9. CASE RSeal
  <2> DEFINE msgs == <<Msg("op", r.capp)>>
  <2>1. /\ At(R, "gcm") /\ Goes(R, "ct") /\ a' = a
        /\ Takes(R, "gcm") /\ Passes(R, msgs)
    BY <1>9 DEF RSeal, Takes
  <2>2. RelayBase
    BY <1>0, <1>9 DEF RSeal, RelayBase, RelayFields
  <2>3. ProviderBase /\ srv' = srv
    BY <1>9 DEF RSeal, ProviderBase
  <2>4. Len(msgs) = 1 /\ \E T : msgs \in Seq(T)
    BY Listed
  <2> HIDE DEF msgs
  <2>5. SentAt[2]["ct"] = SentAt[2]["gcm"] + Len(msgs)
    BY <2>4 DEF SentAt
  <2>6. RelayLater("gcm", msgs, "ct")
    BY <2>1, <2>2, <2>3, <2>4, <2>5 DEF RelayLater, RelayPc, RelayOpening
  <2> QED
    BY <2>6
<1>10. CASE RForward /\ Goes(R, "done")
  <2> DEFINE msgs == <<Msg("resp", Response(srv'))>>
  <2>1. /\ At(R, "ct") /\ Goes(R, "done") /\ a' = a
        /\ Takes(R, "ct") /\ Passes(R, msgs)
    BY <1>10, RForwards DEF RForward, Takes
  <2>2. RelayBase
    BY <1>0, <1>10 DEF RForward, RelayBase, RelayFields
  <2>3. ProviderBase
    BY <1>10, ProviderAsked DEF RForward
  <2>4. Len(msgs) = 1 /\ \E T : msgs \in Seq(T)
    BY Listed
  <2> HIDE DEF msgs
  <2>5. SentAt[2]["done"] = SentAt[2]["ct"] + Len(msgs)
    BY <2>4 DEF SentAt
  <2>6. RelayLater("ct", msgs, "done")
    BY <2>1, <2>2, <2>3, <2>4, <2>5 DEF RelayLater, RelayPc, RelayOpening
  <2> QED
    BY <2>6
<1> QED
  BY <1>1, <1>2, <1>3, <1>4, <1>5, <1>6, <1>7, <1>8, <1>9, <1>10

LEMMA RelayLaterKeeps ==
    ASSUME PInv, EInv, NEW p, NEW p2, NEW msgs, RelayLater(p, msgs, p2)
    PROVE  EInv'
<1> USE DEF RelayLater
<1>1. /\ RelayPuts(msgs) /\ pc[R] = p /\ pc'[R] = p2 /\ fate' = fate
  BY RelayShape
<1>2. JointShare' = JointShare /\ Ectf(a.ssk, r.ssk)' = Ectf(a.ssk, r.ssk)
  BY DEF JointShare, RelayBase
<1>3. RelayDerives'
  BY <1>1, <1>2 DEF EInv, RelayDerives, RelayBase, ProviderBase, RelayOpening
<1>4. ProviderCounts'
  BY <1>1 DEF EInv, ProviderCounts, RelayOpening, Alive
<1>5. SentAt[2][pc[R]] >= 7
  BY <1>1 DEF RelayPc, RelayOpening, SentAt
<1> QED
  BY <1>1, <1>3, <1>4, <1>5, RelayQuiet DEF RelayBase

RelayDies ==
    \/ RForward /\ ~ Goes(R, "done")
    \/ RecvFails(R)

LEMMA RelayDiesKeeps ==
    ASSUME PInv, KInv, EInv, RelayDies
    PROVE  EInv'
<1> DEFINE msgs == <<>>
<1>1. /\ a' = a /\ r' = r /\ ProviderBase /\ srv'.hsSeqC = srv.hsSeqC
      /\ \E how : Dies(R, how) /\ how # "alive"
      /\ \/ q' = q
         \/ q[Peer(R)] # <<>> /\ Passes(R, <<>>)
  <2>1. CASE RForward /\ ~ Goes(R, "done")
    BY <2>1, RForwards, ProviderAsked DEF RForward, Takes
  <2>2. CASE RecvFails(R)
    BY <2>2 DEF RecvFails, Desync, Expire, ProviderBase
  <2> QED
    BY <2>1, <2>2 DEF RelayDies
<1>2. pc' = pc /\ fate'[R] # "alive"
  BY <1>1, Sides DEF Dies, PInv, Typed
<1>3. /\ q'[R] = q[R] \o msgs
      /\ \/ q'[A] = q[A]
         \/ q[A] # <<>> /\ q'[A] = Tail(q[A])
  <2>1. PICK S : q[R] \in Seq(S)
    BY DEF PInv, Typed
  <2>2. CASE q' = q
    BY <2>1, <2>2, ConcatEmptySeq
  <2>3. CASE q[Peer(R)] # <<>> /\ Passes(R, <<>>)
    BY <2>3, Sides, Listed, PassQueues DEF PInv
  <2> QED
    BY <1>1, <2>2, <2>3
<1>4. /\ Len(msgs) = 0 /\ 1 .. Len(msgs) = {} /\ \E T : msgs \in Seq(T)
  BY Listed
<1> HIDE DEF msgs
<1>5. RelayPuts(msgs)
  <2>1. SentAt[2][pc'[R]] = SentAt[2][pc[R]] + Len(msgs)
    BY <1>2, <1>4, Lengths
  <2>2. pc'[A] = pc[A] /\ pc'[R] \in RelayPc /\ a' = a
    BY <1>1, <1>2 DEF PInv, Typed
  <2> QED
    BY <1>3, <1>4, <2>1, <2>2 DEF RelayPuts
<1>6. JointShare' = JointShare /\ Ectf(a.ssk, r.ssk)' = Ectf(a.ssk, r.ssk)
  BY <1>1 DEF JointShare
<1>7. RelayDerives'
  BY <1>1, <1>2, <1>6 DEF EInv, RelayDerives, ProviderBase
<1>8. ProviderCounts'
  BY <1>1, <1>2 DEF EInv, ProviderCounts, Alive
<1> QED
  BY <1>1, <1>4, <1>5, <1>7, <1>8, RelayQuiet

\* A provider that has served one connection.
LEMMA UsedCounts ==
    ASSUME NEW n, NEW c, NEW y, NEW s, s = Used(n, c, y)
    PROVE  s.y = y /\ s.seqC = 1 /\ s.transcript # <<>>
<1>1. PICK f : f = Fresh(n, c, y)
  OBVIOUS
<1>2. /\ ServerFields \subseteq DOMAIN f /\ f.seqC = 0 /\ f.y = y
  BY <1>1 DEF Fresh, ServerFields
<1>3. PICK g : g = Greeted(f, 0)
  OBVIOUS
<1>4. PICK hs, sf, xc :
        g = [f EXCEPT !.transcript = sf, !.sfTr = sf,
                  !.chts = Secret("c hs traffic", xc, hs),
                  !.shts = Secret("s hs traffic", xc, hs),
                  !.capp = Secret("c ap traffic", xc, sf),
                  !.sapp = Secret("s ap traffic", xc, sf),
                  !.hsSeqS = 1, !.hsSeqC = 0, !.hello = TRUE]
        /\ sf = Flown(f.transcript \o <<CH(0), SH(f.y)>>)
  BY <1>3 DEF Greeted
<1>5. /\ ServerFields \subseteq DOMAIN g
      /\ g.transcript = sf /\ g.seqC = 0 /\ g.y = y
  BY <1>2, <1>4 DEF ServerFields
<1>6. PICK h : h = Confirmed(g)
  OBVIOUS
<1>7. /\ ServerFields \subseteq DOMAIN h
      /\ h.transcript = Append(sf, CF) /\ h.seqC = 0 /\ h.y = y
  BY <1>5, <1>6 DEF Confirmed, ServerFields
<1>8. s = Answered(h)
  BY <1>1, <1>3, <1>6 DEF Used
<1>9. /\ s.transcript = Append(sf, CF) /\ s.seqC = 0 + 1 /\ s.y = y
  BY <1>7, <1>8 DEF Answered, ServerFields
<1>10. f.transcript = <<>>
  BY <1>1 DEF Fresh
<1>11. PICK S : sf \in Seq(S) /\ CF \in S
  <2> DEFINE S == {CH(0), SH(f.y), EE, CRT, CV, SF, CF}
  <2>1. /\ <<>> \in Seq(S) /\ <<CH(0), SH(f.y)>> \in Seq(S)
        /\ <<EE, CRT, CV, SF>> \in Seq(S) /\ CF \in S
    OBVIOUS
  <2> HIDE DEF S
  <2>2. sf \in Seq(S)
    BY <1>4, <1>10, <2>1, ConcatProperties DEF Flown
  <2> QED
    BY <2>1, <2>2
<1>12. Append(sf, CF) # <<>>
  BY <1>11, AppendProperties
<1> QED
  BY <1>9, <1>12

LEMMA FirstStart == PInit => EInv
<1> SUFFICES ASSUME PInit PROVE EInv
  OBVIOUS
<1>1. /\ pc[A] = "start" /\ pc[R] = "za" /\ q[A] = <<>> /\ q[R] = <<>>
  BY Sides DEF PInit, Init
<1>2. srv.y \in Scalar /\ srv.seqC \in {0, 1}
  <2>1. PICK n \in Name, c \in CA, y \in Scalar :
          srv = Fresh(n, c, y) \/ srv = Used(n, c, y)
    BY DEF PInit, Init
  <2>2. CASE srv = Fresh(n, c, y)
    BY <2>2 DEF Fresh
  <2>3. CASE srv = Used(n, c, y)
    BY <2>3, UsedCounts
  <2> QED
    BY <2>1, <2>2, <2>3
<1>3. a.k \in Scalar /\ r.k \in Scalar
  BY DEF PInit, Init
<1>4. /\ Starts(q[A], SentBy(A), AgentFirst)
      /\ Starts(q[R], SentBy(R), RelayFirst)
  BY <1>1 DEF Starts
<1> QED
  BY <1>1, <1>2, <1>3, <1>4
     DEF EInv, Shares, AgentDerives, RelayDerives, ProviderCounts

LEMMA FirstStep == PInv /\ KInv /\ EInv /\ [PNext]_pvars => EInv'
<1> SUFFICES ASSUME PInv, KInv, EInv, [PNext]_pvars PROVE EInv'
  OBVIOUS
<1>1. CASE AStep
  <2>1. CASE AHandshake \/ AQuery
    BY <2>1, AgentFirstSteps, AgentLaterSteps, AgentLaterKeeps, AgentDiesKeeps
       DEF AHandshake, AQuery, AResponse, AgentDies
  <2>2. CASE RecvFails(A)
    BY <2>2, AgentDiesKeeps DEF AgentDies
  <2> QED
    BY <1>1, <2>1, <2>2 DEF AStep
<1>2. CASE RStep
  <2>1. CASE RHandshake \/ RQuery \/ RForward
    BY <2>1, RelayFirstSteps, RelayLaterSteps, RelayLaterKeeps, RelayDiesKeeps
       DEF RHandshake, RQuery, RelayDies
  <2>2. CASE RecvFails(R)
    BY <2>2, RelayDiesKeeps DEF RelayDies
  <2> QED
    BY <1>2, <2>1, <2>2 DEF RStep
<1>3. CASE UNCHANGED pvars
  <2>1. /\ pc' = pc /\ fate' = fate /\ q' = q /\ a' = a /\ r' = r /\ srv' = srv
    BY <1>3 DEF pvars
  <2>2. /\ AgentFirst' = AgentFirst /\ RelayFirst' = RelayFirst
        /\ JointShare' = JointShare /\ SentBy(A)' = SentBy(A)
        /\ SentBy(R)' = SentBy(R)
    BY <2>1 DEF AgentFirst, RelayFirst, JointShare, SentBy
  <2> QED
    BY <2>1, <2>2
       DEF EInv, Shares, AgentDerives, RelayDerives, ProviderCounts, Alive
<1> QED
  BY <1>1, <1>2, <1>3 DEF PNext

-----------------------------------------------------------------------------
(***************************************************************************)
(* Nobody waits for ever: what can move in a state.                        *)
(***************************************************************************)
\* A thread whose queue is empty waits for its timeout, which is certain only
\* when the other thread has stopped.
AgentGoes ==
    /\ Alive(A)
    /\ \/ pc[A] \in {"start", "over"}
       \/ /\ Waiting(A)
          /\ q[R] = <<>> => Stopped(R) \/ A \in MayExpire

\* The relay's own assertion on the hello, and the calls it makes of the
\* provider, may not be in its way.
RelayGoes ==
    /\ Alive(R)
    /\ \/ pc[R] = "over"
       \/ /\ Waiting(R)
          /\ q[A] = <<>> => Stopped(A) \/ R \in MayExpire
          /\ Takes(R, "ch") => Got(R) = r.cks
          /\ Takes(R, "cf") => ~ FinishedRaises(Got(R)) /\ srv.hsSeqC < MaxSeq
          /\ Takes(R, "ct") => srv.seqC < MaxSeq

MainGoes ==
    \/ /\ stage = "run" /\ Stopped(A) /\ Stopped(R)
       /\ pc[A] = "done" /\ pc[R] = "done" /\ srv.established => Totals # {}
    \/ stage \in {"located", "checked", "returned"}

GoesOn == AgentGoes \/ RelayGoes \/ MainGoes
NeverStuck == stage \in Final \/ GoesOn

\* The hello the relay holds carries the share it has computed itself.
LEMMA HelloFits ==
    ASSUME PInv, EInv, Takes(R, "ch")
    PROVE  Got(R) = r.cks
<1>1. /\ pc[R] = "ch" /\ Alive(R) /\ "ch" \in RelayPc
      /\ ReadAt[2]["ch"] = 1 /\ q[A] # <<>>
  BY Sides DEF Takes, At, RelayPc, ReadAt
<1>2. Got(R) = a.cks
  BY <1>1, RelayReads, AgentWordsAre
<1>3. PICK S : q[A] \in Seq(S)
  BY DEF PInv, Typed
<1>4. Len(q[A]) \in Nat /\ Len(q[A]) # 0
  BY <1>1, <1>3, LenProperties, EmptySeq
<1>5. Len(q[A]) = SentAt[1][pc[A]] - 1 /\ SentAt[1][pc[A]] \in Nat
  BY <1>1, CountsBy, Lengths DEF PInv, Lockstep, Fits
<1>6. SentAt[1][pc[A]] >= 2
  BY <1>4, <1>5
<1>7. pc[A] \notin {"start", "zb"}
  BY <1>6 DEF SentAt
<1> QED
  BY <1>1, <1>2, <1>7 DEF EInv, AgentDerives, RelayDerives

\* The client Finished the relay holds can be handed to the provider.
LEMMA FinishedFits ==
    ASSUME PInv, KInv, EInv, Takes(R, "cf")
    PROVE  ~ FinishedRaises(Got(R)) /\ srv.hsSeqC = 0
<1>1. pc[R] = "cf" /\ "cf" \in RelayPc /\ ReadAt[2]["cf"] = 9
  BY DEF Takes, At, RelayPc, ReadAt
<1>2. TellA(10, Got(R), AgentWords)
  BY <1>1, RelayHears DEF KInv
<1>3. Got(R) = Rec(a.chts, 0, "hs", Finished(a.chts, SfOf))
  BY <1>2 DEF TellA, AgentWords
<1>4. Got(R).ct = "hs" /\ Got(R).body.m = "CF"
  BY <1>3 DEF Rec, Finished
<1>5. srv.hello /\ srv.hsSeqC = 0
  BY <1>1 DEF EInv, RelayDerives, ProviderCounts
<1> QED
  BY <1>4, <1>5 DEF FinishedRaises

\* Two parties that both wait cannot both have an empty queue.
LEMMA NoCircle ==
    ASSUME PInv, Alive(A), Alive(R), q[A] = <<>>, q[R] = <<>>,
           pc[A] \notin {"start", "over", "done"},
           pc[R] \notin {"over", "done"}
    PROVE  FALSE
<1>1. pc[A] \in AgentPc /\ pc[R] \in RelayPc
  BY DEF PInv, Typed
<1>2. Len(q[A]) = 0 /\ Len(q[R]) = 0
  OBVIOUS
<1>3. PICK sa \in Nat, ra \in Nat, sr \in Nat, rr \in Nat :
          /\ sa = SentAt[1][pc[A]] /\ ra = ReadAt[1][pc[A]]
          /\ sr = SentAt[2][pc[R]] /\ rr = ReadAt[2][pc[R]]
  BY <1>1, Counts
<1>4. /\ SentBy(A) = sa /\ SentBy(R) = sr /\ ReadBy(A) = ra /\ ReadBy(R) = rr
  BY <1>3, CountsBy DEF PInv
<1>5. /\ 0 = sa - rr
      /\ 0 = sr - ra \/ (pc[A] \in {"over", "tkr"} /\ 0 = sr - (ra - 1))
  BY <1>2, <1>4 DEF PInv, Lockstep, Fits
<1>6. /\ rr = sa
      /\ sr = ra \/ (pc[A] = "tkr" /\ sr = ra - 1)
  <2>1. sa \in Nat /\ ra \in Nat /\ sr \in Nat /\ rr \in Nat
    OBVIOUS
  <2>2. 0 = sa - rr => rr = sa
    BY <2>1
  <2>3. 0 = sr - ra => sr = ra
    BY <2>1
  <2>4. 0 = sr - (ra - 1) => sr = ra - 1
    BY <2>1
  <2>5. pc[A] \in {"over", "tkr"} => pc[A] = "tkr"
    OBVIOUS
  <2> QED
    BY <1>5, <2>2, <2>3, <2>4, <2>5
<1>7. \/ pc[A] = "zb" /\ ra = 0 /\ sa = 1
      \/ pc[A] = "shf" /\ ra = 1 /\ sa = 2
      \/ pc[A] = "x2" /\ ra = 2 /\ sa = 4
      \/ pc[A] = "y2" /\ ra = 3 /\ sa = 4
      \/ pc[A] = "dx" /\ ra = 4 /\ sa = 5
      \/ pc[A] = "chts" /\ ra = 5 /\ sa = 5
      \/ pc[A] = "shts" /\ ra = 6 /\ sa = 5
      \/ pc[A] = "ivc" /\ ra = 7 /\ sa = 7
      \/ pc[A] = "ivs" /\ ra = 8 /\ sa = 8
      \/ pc[A] = "tksr" /\ ra = 9 /\ sa = 9
      \/ pc[A] = "cfok" /\ ra = 10 /\ sa = 10
      \/ pc[A] = "tkr" /\ ra = 11 /\ sa = 12
      \/ pc[A] = "gcm" /\ ra = 12 /\ sa = 13
      \/ pc[A] = "ct" /\ ra = 13 /\ sa = 14
      \/ pc[A] = "resp" /\ ra = 14 /\ sa = 14
  <2>1. /\ SentAt[1]["zb"] = 1 /\ ReadAt[1]["zb"] = 0
        /\ SentAt[1]["shf"] = 2 /\ ReadAt[1]["shf"] = 1
        /\ SentAt[1]["x2"] = 4 /\ ReadAt[1]["x2"] = 2
        /\ SentAt[1]["y2"] = 4 /\ ReadAt[1]["y2"] = 3
        /\ SentAt[1]["dx"] = 5 /\ ReadAt[1]["dx"] = 4
        /\ SentAt[1]["chts"] = 5 /\ ReadAt[1]["chts"] = 5
        /\ SentAt[1]["shts"] = 5 /\ ReadAt[1]["shts"] = 6
        /\ SentAt[1]["ivc"] = 7 /\ ReadAt[1]["ivc"] = 7
        /\ SentAt[1]["ivs"] = 8 /\ ReadAt[1]["ivs"] = 8
        /\ SentAt[1]["tksr"] = 9 /\ ReadAt[1]["tksr"] = 9
        /\ SentAt[1]["cfok"] = 10 /\ ReadAt[1]["cfok"] = 10
        /\ SentAt[1]["tkr"] = 12 /\ ReadAt[1]["tkr"] = 11
        /\ SentAt[1]["gcm"] = 13 /\ ReadAt[1]["gcm"] = 12
        /\ SentAt[1]["ct"] = 14 /\ ReadAt[1]["ct"] = 13
        /\ SentAt[1]["resp"] = 14 /\ ReadAt[1]["resp"] = 14
    BY DEF SentAt, ReadAt
  <2>2. pc[A] = "zb" => ra = 0 /\ sa = 1
    BY <1>3, <2>1
  <2>3. pc[A] = "shf" => ra = 1 /\ sa = 2
    BY <1>3, <2>1
  <2>4. pc[A] = "x2" => ra = 2 /\ sa = 4
    BY <1>3, <2>1
  <2>5. pc[A] = "y2" => ra = 3 /\ sa = 4
    BY <1>3, <2>1
  <2>6. pc[A] = "dx" => ra = 4 /\ sa = 5
    BY <1>3, <2>1
  <2>7. pc[A] = "chts" => ra = 5 /\ sa = 5
    BY <1>3, <2>1
  <2>8. pc[A] = "shts" => ra = 6 /\ sa = 5
    BY <1>3, <2>1
  <2>9. pc[A] = "ivc" => ra = 7 /\ sa = 7
    BY <1>3, <2>1
  <2>10. pc[A] = "ivs" => ra = 8 /\ sa = 8
    BY <1>3, <2>1
  <2>11. pc[A] = "tksr" => ra = 9 /\ sa = 9
    BY <1>3, <2>1
  <2>12. pc[A] = "cfok" => ra = 10 /\ sa = 10
    BY <1>3, <2>1
  <2>13. pc[A] = "tkr" => ra = 11 /\ sa = 12
    BY <1>3, <2>1
  <2>14. pc[A] = "gcm" => ra = 12 /\ sa = 13
    BY <1>3, <2>1
  <2>15. pc[A] = "ct" => ra = 13 /\ sa = 14
    BY <1>3, <2>1
  <2>16. pc[A] = "resp" => ra = 14 /\ sa = 14
    BY <1>3, <2>1
  <2>17. pc[A] \in {"zb", "shf", "x2", "y2", "dx", "chts", "shts",
                   "ivc", "ivs", "tksr", "cfok", "tkr", "gcm", "ct", "resp"}
    BY <1>1 DEF AgentPc
  <2> QED
    BY <2>2, <2>3, <2>4, <2>5, <2>6, <2>7, <2>8, <2>9, <2>10, <2>11,
       <2>12, <2>13, <2>14, <2>15, <2>16, <2>17
<1>8. \/ sr = 0 /\ rr = 0
      \/ sr = 1 /\ rr = 1
      \/ sr = 2 /\ rr = 2
      \/ sr = 2 /\ rr = 3
      \/ sr = 5 /\ rr = 4
      \/ sr = 7 /\ rr = 5
      \/ sr = 8 /\ rr = 6
      \/ sr = 9 /\ rr = 7
      \/ sr = 9 /\ rr = 8
      \/ sr = 10 /\ rr = 9
      \/ sr = 11 /\ rr = 10
      \/ sr = 11 /\ rr = 11
      \/ sr = 13 /\ rr = 12
      \/ sr = 14 /\ rr = 13
  <2>1. /\ SentAt[2]["za"] = 0 /\ ReadAt[2]["za"] = 0
        /\ SentAt[2]["ch"] = 1 /\ ReadAt[2]["ch"] = 1
        /\ SentAt[2]["x1"] = 2 /\ ReadAt[2]["x1"] = 2
        /\ SentAt[2]["y1"] = 2 /\ ReadAt[2]["y1"] = 3
        /\ SentAt[2]["dx"] = 5 /\ ReadAt[2]["dx"] = 4
        /\ SentAt[2]["h2"] = 7 /\ ReadAt[2]["h2"] = 5
        /\ SentAt[2]["ivc"] = 8 /\ ReadAt[2]["ivc"] = 6
        /\ SentAt[2]["ivs"] = 9 /\ ReadAt[2]["ivs"] = 7
        /\ SentAt[2]["com"] = 9 /\ ReadAt[2]["com"] = 8
        /\ SentAt[2]["cf"] = 10 /\ ReadAt[2]["cf"] = 9
        /\ SentAt[2]["seg"] = 11 /\ ReadAt[2]["seg"] = 10
        /\ SentAt[2]["tka"] = 11 /\ ReadAt[2]["tka"] = 11
        /\ SentAt[2]["gcm"] = 13 /\ ReadAt[2]["gcm"] = 12
        /\ SentAt[2]["ct"] = 14 /\ ReadAt[2]["ct"] = 13
    BY DEF SentAt, ReadAt
  <2>2. pc[R] = "za" => rr = 0 /\ sr = 0
    BY <1>3, <2>1
  <2>3. pc[R] = "ch" => rr = 1 /\ sr = 1
    BY <1>3, <2>1
  <2>4. pc[R] = "x1" => rr = 2 /\ sr = 2
    BY <1>3, <2>1
  <2>5. pc[R] = "y1" => rr = 3 /\ sr = 2
    BY <1>3, <2>1
  <2>6. pc[R] = "dx" => rr = 4 /\ sr = 5
    BY <1>3, <2>1
  <2>7. pc[R] = "h2" => rr = 5 /\ sr = 7
    BY <1>3, <2>1
  <2>8. pc[R] = "ivc" => rr = 6 /\ sr = 8
    BY <1>3, <2>1
  <2>9. pc[R] = "ivs" => rr = 7 /\ sr = 9
    BY <1>3, <2>1
  <2>10. pc[R] = "com" => rr = 8 /\ sr = 9
    BY <1>3, <2>1
  <2>11. pc[R] = "cf" => rr = 9 /\ sr = 10
    BY <1>3, <2>1
  <2>12. pc[R] = "seg" => rr = 10 /\ sr = 11
    BY <1>3, <2>1
  <2>13. pc[R] = "tka" => rr = 11 /\ sr = 11
    BY <1>3, <2>1
  <2>14. pc[R] = "gcm" => rr = 12 /\ sr = 13
    BY <1>3, <2>1
  <2>15. pc[R] = "ct" => rr = 13 /\ sr = 14
    BY <1>3, <2>1
  <2>16. pc[R] \in {"za", "ch", "x1", "y1", "dx", "h2", "ivc", "ivs", "com",
                   "cf", "seg", "tka", "gcm", "ct"}
    BY <1>1 DEF RelayPc
  <2> QED
    BY <2>2, <2>3, <2>4, <2>5, <2>6, <2>7, <2>8, <2>9, <2>10, <2>11,
       <2>12, <2>13, <2>14, <2>15, <2>16
<1> QED
  BY <1>6, <1>7, <1>8

LEMMA WhoWaits ==
    ASSUME PInv
    PROVE  /\ Alive(A) /\ pc[A] \notin {"start", "over", "done"} => Waiting(A)
           /\ Alive(R) /\ pc[R] \notin {"over", "done"} => Waiting(R)
<1>1. pc[A] \in AgentPc /\ pc[R] \in RelayPc
  BY DEF PInv, Typed
<1>2. pc[A] \notin {"start", "over", "done"} => pc[A] \in DOMAIN Await[1]
  BY <1>1 DEF AgentPc, Await
<1>3. pc[R] \notin {"over", "done"} => pc[R] \in DOMAIN Await[2]
  BY <1>1 DEF RelayPc, Await
<1> QED
  BY <1>2, <1>3, Sides DEF Waiting, Awaits

LEMMA AlwaysSomeone ==
    ASSUME PInv, KInv, EInv, stage \in Stages, MaxSeq > 1, Totals # {}
    PROVE  NeverStuck
<1> SUFFICES ASSUME stage = "run", ~ AgentGoes, ~ RelayGoes
             PROVE  Stopped(A) /\ Stopped(R)
  BY DEF NeverStuck, GoesOn, MainGoes, Stages
<1>1. /\ Takes(R, "ch") => Got(R) = r.cks
      /\ Takes(R, "cf") => ~ FinishedRaises(Got(R)) /\ srv.hsSeqC < MaxSeq
      /\ Takes(R, "ct") => srv.seqC < MaxSeq
  <2>1. Takes(R, "cf") => ~ FinishedRaises(Got(R)) /\ srv.hsSeqC < MaxSeq
    BY FinishedFits, MaxSeqAssumption
  <2>2. ASSUME Takes(R, "ct") PROVE srv.seqC < MaxSeq
    <3>1. srv.seqC \in {0, 1}
      BY <2>2 DEF Takes, At, EInv, ProviderCounts
    <3> QED
      BY <3>1, MaxSeqAssumption
  <2> QED
    BY <2>1, <2>2, HelloFits
<1>2. ~ Stopped(A) => /\ Alive(A) /\ Waiting(A)
                      /\ pc[A] \notin {"start", "over", "done"}
                      /\ q[R] = <<>> /\ ~ Stopped(R)
  BY WhoWaits DEF AgentGoes, Stopped, Gone, Alive
<1>3. ~ Stopped(R) => /\ Alive(R) /\ Waiting(R)
                      /\ pc[R] \notin {"over", "done"}
                      /\ q[A] = <<>> /\ ~ Stopped(A)
  BY <1>1, WhoWaits DEF RelayGoes, Stopped, Gone, Alive
<1> QED
  BY <1>2, <1>3, NoCircle

LEMMA EInvAlways == PSpec => [](PInv /\ KInv /\ EInv)
<1>1. PInit => PInv /\ KInv /\ EInv
  BY Start, KeyStart, FirstStart
<1>2. (PInv /\ KInv /\ EInv) /\ [PNext]_pvars => (PInv /\ KInv /\ EInv)'
  BY Step, KeyStep, FirstStep
<1> QED
  BY <1>1, <1>2, PTL DEF PSpec

\* Whoever the provider is and whatever fails: until the application has
\* charged the agent or given up, one of its three threads can take a step,
\* without a join having to expire.
\* No recv of one party waits for one of the other, and neither the relay's
\* assertion on the hello nor the provider's on the Finished ever stops the
\* run.
THEOREM RunNeverStuck ==
    MaxSeq > 1 /\ Totals # {} => (SSpec => []NeverStuck)
<1> SUFFICES ASSUME MaxSeq > 1, Totals # {} PROVE SSpec => []NeverStuck
  OBVIOUS
<1>1. SSpec => []MInv
  BY MainStart, MainStep, PTL DEF SSpec
<1>2. MInv /\ (PInv /\ KInv /\ EInv) => NeverStuck
  BY AlwaysSomeone DEF MInv
<1> QED
  BY <1>1, <1>2, RunsPipeline, EInvAlways, PTL

-----------------------------------------------------------------------------
(***************************************************************************)
(* A run with a provider the agent wants and shares that differ: whatever  *)
(* the parties derive is what the provider derived, no message is out of   *)
(* place, and only a recv that gives up early ends the run before the      *)
(* answer is there.                                                        *)
(***************************************************************************)
JointPoint == X(Mul(srv.y, JointShare))
JointHello == <<CH(JointShare), SH(srv.y)>>

Early == \E s \in Side : fate[s] = "early"
Apart == Vouched /\ X(a.k) # X(r.k) /\ JointShare # 0

ProviderFits ==
    /\ pc[R] \in {"za", "ch"} => srv.transcript = <<>>
    /\ pc[R] \notin {"za", "ch"} =>
           /\ srv.chts = ChtsOf(JointPoint, JointHello)
           /\ srv.shts = ShtsOf(JointPoint, JointHello)
           /\ srv.sfTr = Flown(JointHello)
    /\ srv.seqS = IF pc[R] = "done" THEN 1 ELSE 0

OnTrack ==
    /\ Apart /\ ProviderFits
    /\ Alive(A) /\ Alive(R)
    /\ Len(q[R]) = SentBy(R) - ReadAt[1][pc[A]]
    /\ pc[A] \in APhase2 => a.ok
    /\ pc[R] \in ROver2 => r.ok

TrackInv == Early \/ OnTrack

\* The provider's share of the secret is known to the agent with the flight.
LEMMA PointMeets ==
    ASSUME PInv, EInv, Apart, pc[A] \notin {"start", "zb", "shf", "x2", "y2"}
    PROVE  a.x = JointPoint
<1>1. pc[R] \notin {"za", "ch"}
  BY FirstOrder
<1>2. /\ a.x = Ectf(a.ssk, r.ssk) /\ a.ssk = Mul(a.k, srv.y)
      /\ r.ssk = Mul(r.k, srv.y)
  BY <1>1 DEF EInv, AgentDerives, RelayDerives
<1>3. a.k \in Scalar /\ r.k \in Scalar /\ srv.y \in Scalar
  BY DEF EInv, Shares
<1>4. X(a.ssk) # X(r.ssk)
  BY <1>2, <1>3, StayApart DEF Apart, JointShare
<1>5. (a.ssk + r.ssk) % Q = Mul(srv.y, JointShare)
  BY <1>2, <1>3, SharesMeet DEF JointShare
<1> QED
  BY <1>2, <1>4, <1>5 DEF Ectf, JointPoint

LEMMA PointMeetsToo ==
    ASSUME PInv, EInv, Apart, pc[R] \notin {"za", "ch", "x1", "y1"}
    PROVE  r.x = JointPoint
<1>1. r.x = Ectf(a.ssk, r.ssk) /\ r.ssk = Mul(r.k, srv.y)
  BY DEF EInv, RelayDerives
<1>2. pc[A] \notin {"start", "zb", "shf"}
  BY FirstOrder
<1>3. a.ssk = Mul(a.k, srv.y)
  BY <1>2 DEF EInv, AgentDerives
<1>4. a.k \in Scalar /\ r.k \in Scalar /\ srv.y \in Scalar
  BY DEF EInv, Shares
<1>5. X(a.ssk) # X(r.ssk)
  BY <1>1, <1>3, <1>4, StayApart DEF Apart, JointShare
<1>6. (a.ssk + r.ssk) % Q = Mul(srv.y, JointShare)
  BY <1>1, <1>3, <1>4, SharesMeet DEF JointShare
<1> QED
  BY <1>1, <1>5, <1>6 DEF Ectf, JointPoint

LEMMA HelloMeets ==
    ASSUME EInv, pc[A] \notin {"start", "zb", "shf"}
    PROVE  HsOf = JointHello
<1>1. a.cks = JointShare /\ a.flight = Flight(srv)
  BY DEF EInv, AgentDerives
<1>2. Flight(srv).share = srv.y
  BY DEF Flight
<1> QED
  BY <1>1, <1>2 DEF HsOf, JointHello

\* The flight decrypts and passes every check of the agent.
LEMMA FlightRight ==
    ASSUME PInv, KInv, EInv, OnTrack, Takes(A, "shts")
    PROVE  Decrypts(OpenedShts) /\ Verified(OpenedShts)
<1>1. /\ pc[A] = "shts" /\ "shts" \in AgentPc \ {"start", "over", "done"}
      /\ ReadAt[1]["shts"] = 6 /\ "shts" \in AOpenedH
  BY DEF Takes, At, AgentPc, ReadAt, AOpenedH
<1>2. pc[R] \notin {"za", "ch", "x1", "y1"}
  BY <1>1, Order
<1>3. Got(A) = ShtsOf(r.x, r.tr)
  BY <1>1, AgentReads, AgentWordsAre
<1>4. /\ a.x = JointPoint /\ r.x = JointPoint
      /\ a.tr = JointHello /\ r.tr = JointHello
  BY <1>1, <1>2, PointMeets, PointMeetsToo, HelloMeets
     DEF OnTrack, KInv, AgentKnows, EInv, RelayDerives, JointHello
<1>5. srv.shts = ShtsOf(JointPoint, JointHello) /\ srv.hsSeqS = 1
  BY <1>2 DEF OnTrack, ProviderFits, EInv, RelayDerives
<1>6. OpenedShts = srv.shts
  BY <1>3, <1>4, <1>5 DEF OpenedShts, Open
<1>7. a.flight = Flight(srv) /\ srv.name = WantName /\ srv.ca = TrustedCA
  BY <1>1 DEF EInv, AgentDerives, OnTrack, Apart, Vouched
<1>8. srv.shts.tr = JointHello
  <2>1. ShtsOf(JointPoint, JointHello).tr = JointHello
    BY DEF ShtsOf, Secret
  <2> QED
    BY <1>5, <2>1
<1>9. /\ a.flight.key = srv.shts /\ a.flight.seq = 0
      /\ a.flight.name = WantName /\ a.flight.ca = TrustedCA
      /\ a.flight.cv = JointHello \o <<EE, CRT>>
      /\ a.flight.sf = [key |-> srv.shts,
                        over |-> JointHello \o <<EE, CRT, CV>>]
  BY <1>5, <1>7, <1>8 DEF Flight
<1> QED
  BY <1>4, <1>6, <1>9 DEF Decrypts, Verified

\* The provider accepts the client Finished the relay holds.
LEMMA FinishedRight ==
    ASSUME PInv, KInv, EInv, OnTrack, Takes(R, "cf")
    PROVE  FinishedOk(Got(R))
<1>1. pc[R] = "cf" /\ "cf" \in RelayPc /\ ReadAt[2]["cf"] = 9
  BY DEF Takes, At, RelayPc, ReadAt
<1>2. pc[A] \in APhase2 /\ pc[A] \in AOpenedH
      /\ pc[A] \notin {"start", "zb", "shf", "x2", "y2"}
  BY <1>1, Order DEF RPhase2Pc, ROpenedC, ROpenedS, RHolds, AOpenedH,
                     APhase2, AOpenedC, ACommitted, ASigned
<1>3. TellA(10, Got(R), AgentWords)
  BY <1>1, RelayHears DEF KInv
<1>4. Got(R) = Rec(a.chts, 0, "hs", Finished(a.chts, SfOf))
  BY <1>3 DEF TellA, AgentWords
<1>5. a.x = JointPoint /\ r.x = JointPoint /\ HsOf = JointHello
  BY <1>1, <1>2, PointMeets, PointMeetsToo, HelloMeets DEF OnTrack
<1>6. /\ r.tr = JointHello /\ srv.hello /\ srv.hsSeqC = 0
      /\ srv.chts = ChtsOf(JointPoint, JointHello)
      /\ srv.sfTr = Flown(JointHello)
  BY <1>1
     DEF EInv, RelayDerives, ProviderCounts, OnTrack, ProviderFits,
         JointHello
<1>7. a.chts = srv.chts
  BY <1>2, <1>5, <1>6 DEF KInv, AgentKnows, Open
<1>8. Got(R) = Rec(srv.chts, 0, "hs", Finished(srv.chts, srv.sfTr))
  BY <1>4, <1>5, <1>6, <1>7 DEF SfOf
<1>9. /\ Got(R).key = srv.chts /\ Got(R).seq = 0 /\ Got(R).ct = "hs"
      /\ Got(R).body = Finished(srv.chts, srv.sfTr)
  BY <1>8 DEF Rec
<1> QED
  BY <1>6, <1>9 DEF FinishedOk, Opens

\* The provider answers the record the relay opens.
LEMMA QueryRight ==
    ASSUME PInv, KInv, EInv, OnTrack, Takes(R, "ct")
    PROVE  QueryAnswered(QueryRecord(r.capp, Got(R)))
<1>1. /\ pc[R] = "ct" /\ "ct" \in RelayPc /\ ReadAt[2]["ct"] = 13
      /\ pc[R] \in ROver2 /\ Alive(R)
  BY DEF Takes, At, RelayPc, ReadAt, ROver2
<1>2. r.ok
  BY <1>1 DEF OnTrack
<1>3. TellA(14, Got(R), AgentWords)
  BY <1>1, RelayHears DEF KInv
<1>4. Got(R) = a.capp
  BY <1>3 DEF TellA, AgentWords
<1>5. srv.established /\ Open(r.capp, Got(R)) = srv.capp
  BY <1>2, <1>4, Bound DEF Open
<1>6. srv.seqC = 0
  BY <1>1 DEF KInv, ProviderKnows, OnTrack, ProviderFits
<1> QED
  BY <1>5, <1>6
     DEF QueryAnswered, QueryOpens, QueryRecord, Opens, Rec, Plain

-----------------------------------------------------------------------------
(***************************************************************************)
(* No recv fails but by giving up early.                                   *)
(***************************************************************************)
\* The tag a recv asks for is the next one of the other side's script.
LEMMA AsksInScript ==
    /\ \A p \in DOMAIN Await[1] :
           /\ p \in AgentPc \ {"start", "over", "done"}
           /\ Await[1][p] = Script[2][ReadAt[1][p] + 1]
           /\ ReadAt[1][p] <= 14
    /\ \A p \in DOMAIN Await[2] :
           /\ p \in RelayPc \ {"over", "done"}
           /\ Await[2][p] = Script[1][ReadAt[2][p] + 1]
           /\ ReadAt[2][p] <= 13
<1>1. /\ DOMAIN Await[1] = AgentPc \ {"start", "over", "done"}
      /\ DOMAIN Await[2] = RelayPc \ {"over", "done"}
  BY DEF Await, AgentPc, RelayPc
<1>2. \A p \in AgentPc \ {"start", "over", "done"} :
          /\ Await[1][p] = Script[2][ReadAt[1][p] + 1]
          /\ ReadAt[1][p] <= 14
  BY DEF AgentPc, Await, Script, ReadAt
<1>3. \A p \in RelayPc \ {"over", "done"} :
          /\ Await[2][p] = Script[1][ReadAt[2][p] + 1]
          /\ ReadAt[2][p] <= 13
  BY DEF RelayPc, Await, Script, ReadAt
<1> QED
  BY <1>1, <1>2, <1>3

\* Both queues are what the scripts say, message by message.
LEMMA InStep ==
    ASSUME PInv, OnTrack
    PROVE  /\ Fits(q[A], Script[1], ReadAt[2][pc[R]], SentBy(A))
           /\ Fits(q[R], Script[2], ReadAt[1][pc[A]], SentBy(R))
<1>1. ReadBy(A) = ReadAt[1][pc[A]] /\ ReadBy(R) = ReadAt[2][pc[R]]
      /\ ReadBy(A) \in Nat /\ SentBy(R) \in Nat
  BY CountsBy DEF PInv, OnTrack
<1>2. ~ Fits(q[R], Script[2], ReadBy(A) - 1, SentBy(R))
  BY <1>1 DEF OnTrack, Fits
<1> QED
  BY <1>1, <1>2 DEF PInv, Lockstep

LEMMA NoneDesyncs ==
    ASSUME PInv, OnTrack, NEW s \in Side, Desync(s)
    PROVE  FALSE
<1>1. /\ Waiting(s) /\ q[Peer(s)] # <<>>
      /\ Head(q[Peer(s)]).tag # Awaits(s)[pc[s]]
  BY DEF Desync
<1>2. PICK S : q[A] \in Seq(S) /\ q[R] \in Seq(S)
  BY DEF PInv, Typed
<1>3. /\ SentBy(A) \in Nat /\ SentBy(R) \in Nat
      /\ ReadAt[1][pc[A]] \in Nat /\ ReadAt[2][pc[R]] \in Nat
  BY CountsBy, Counts DEF PInv, Typed
<1>4. CASE s = A
  <2>1. /\ pc[A] \in DOMAIN Await[1] /\ q[R] # <<>>
        /\ Head(q[R]).tag # Await[1][pc[A]]
    BY <1>1, <1>4, Sides DEF Waiting, Awaits
  <2>2. Head(q[R]).tag = Script[2][ReadAt[1][pc[A]] + 1]
    BY <1>2, <1>3, <2>1, InStep, FitsTail
  <2> QED
    BY <2>1, <2>2, AsksInScript
<1>5. CASE s = R
  <2>1. /\ pc[R] \in DOMAIN Await[2] /\ q[A] # <<>>
        /\ Head(q[A]).tag # Await[2][pc[R]]
    BY <1>1, <1>5, Sides DEF Waiting, Awaits
  <2>2. Head(q[A]).tag = Script[1][ReadAt[2][pc[R]] + 1]
    BY <1>2, <1>3, <2>1, InStep, FitsTail
  <2> QED
    BY <2>1, <2>2, AsksInScript
<1> QED
  BY <1>4, <1>5 DEF Side

LEMMA OnlyEarly ==
    ASSUME PInv, OnTrack, NEW s \in Side, Expire(s, Stopped(Peer(s)))
    PROVE  Early'
<1>1. Waiting(s) /\ q[Peer(s)] = <<>>
  BY DEF Expire
<1>2. /\ SentBy(A) = SentAt[1][pc[A]] /\ SentBy(R) = SentAt[2][pc[R]]
      /\ ReadAt[1][pc[A]] \in Nat /\ ReadAt[2][pc[R]] \in Nat
  BY CountsBy, Counts DEF PInv, Typed
<1>3. ~ Stopped(Peer(s))
  <2>1. CASE s = A
    <3>1. pc[A] \in DOMAIN Await[1] /\ q[R] = <<>>
      BY <1>1, <2>1, Sides DEF Waiting, Awaits
    <3>2. Len(q[R]) = 0 /\ ReadAt[1][pc[A]] <= 14
      BY <3>1, AsksInScript
    <3>3. pc[R] = "done" => SentAt[2][pc[R]] = 15
      BY DEF SentAt
    <3>4. pc[R] # "done"
      BY <1>2, <3>2, <3>3 DEF OnTrack
    <3> QED
      BY <2>1, <3>4, Sides DEF Stopped, Gone, OnTrack, Alive
  <2>2. CASE s = R
    <3>1. pc[R] \in DOMAIN Await[2] /\ q[A] = <<>>
      BY <1>1, <2>2, Sides DEF Waiting, Awaits
    <3>2. Len(q[A]) = 0 /\ ReadAt[2][pc[R]] <= 13
      BY <3>1, AsksInScript
    <3>3. pc[A] = "done" => SentAt[1][pc[A]] = 14
      BY DEF SentAt
    <3>5. Len(q[A]) = SentAt[1][pc[A]] - ReadAt[2][pc[R]]
      BY <1>2, InStep DEF Fits
    <3>4. pc[A] # "done"
      BY <1>2, <3>2, <3>3, <3>5
    <3> QED
      BY <2>2, <3>4, Sides DEF Stopped, Gone, OnTrack, Alive
  <2> QED
    BY <2>1, <2>2 DEF Side
<1>4. fate' = [fate EXCEPT ![s] = "early"]
  BY <1>3 DEF Expire, Dies
<1>5. fate'[s] = "early"
  BY <1>4 DEF PInv, Typed
<1> QED
  BY <1>5 DEF Early

-----------------------------------------------------------------------------
(***************************************************************************)
(* Every other step stays on track.                                        *)
(***************************************************************************)
LEMMA AgentLeaves ==
    ASSUME PInv, NEW p, Takes(A, p), NEW msgs, Passes(A, msgs)
    PROVE  Len(q'[R]) = Len(q[R]) - 1
<1>1. PICK S : q[R] \in Seq(S)
  BY DEF PInv, Typed
<1>2. q[R] # <<>> /\ q'[R] = Tail(q[R])
  BY Sides DEF Takes, Passes, PInv, Typed
<1> QED
  BY <1>1, <1>2, HeadTailProperties, LenProperties, EmptySeq

LEMMA AgentOn ==
    ASSUME PInv, OnTrack, NEW p \in AgentPc, NEW p2 \in AgentPc,
           At(A, p), Goes(A, p2), UNCHANGED <<r, srv>>, a'.k = a.k,
           p2 \in APhase2 => a'.ok,
           \/ Len(q'[R]) = Len(q[R]) /\ ReadAt[1][p2] = ReadAt[1][p]
           \/ Len(q'[R]) = Len(q[R]) - 1 /\ ReadAt[1][p2] = ReadAt[1][p] + 1
    PROVE  OnTrack'
<1>1. /\ pc[A] = p /\ pc'[A] = p2 /\ pc'[R] = pc[R]
      /\ fate' = fate /\ r' = r /\ srv' = srv
  BY Sides DEF At, Goes, PInv, Typed
<1>2. JointShare' = JointShare
  BY <1>1 DEF JointShare
<1>3. Apart' /\ ProviderFits'
  <2>1. JointPoint' = JointPoint /\ JointHello' = JointHello
    BY <1>1, <1>2 DEF JointPoint, JointHello
  <2> QED
    BY <1>1, <1>2, <2>1 DEF OnTrack, Apart, Vouched, ProviderFits
<1>4. (Len(q[R]) = SentBy(R) - ReadAt[1][pc[A]])'
  <2>1. SentBy(R)' = SentBy(R) /\ SentBy(R) \in Nat
    BY <1>1, CountsBy, Sides DEF SentBy, PInv
  <2>2. ReadAt[1][p] \in Nat /\ ReadAt[1][p2] \in Nat
    BY Counts
  <2>3. Len(q'[R]) = SentBy(R) - ReadAt[1][p2]
    BY <1>1, <2>1, <2>2 DEF OnTrack
  <2> QED
    BY <1>1, <2>1, <2>3
<1> QED
  BY <1>1, <1>3, <1>4 DEF OnTrack, Alive

LEMMA AgentStaysOn ==
    ASSUME PInv, KInv, EInv, OnTrack,
           \/ AHello \/ AServerHello \/ AInputX
           \/ AInputY \/ AInverse \/ AOpenChts
           \/ AVerify \/ AOpenIvC \/ ACommit
           \/ AFinish \/ AConfirmed \/ AKeyShare
           \/ ASeal \/ AOpenRecord \/ AStart
           \/ ABuild \/ AResponse \/ ABadFlight
    PROVE  OnTrack'
<1>0. AgentFields \subseteq DOMAIN a
  BY DEF KInv, Fielded
<1>1. CASE AHello
  <2> DEFINE msgs == <<Msg("ch", (a.k + Got(A)) % Q)>>
  <2>1. /\ Takes(A, "zb") /\ At(A, "zb") /\ Passes(A, msgs)
        /\ Goes(A, "shf") /\ UNCHANGED <<r, srv>>
    BY <1>1 DEF AHello, Takes
  <2>2. Len(q'[R]) = Len(q[R]) - 1
    BY <2>1, AgentLeaves
  <2>3. a'.k = a.k /\ "shf" \notin APhase2
    BY <1>0, <1>1
       DEF AHello, AgentFields, APhase2, AOpenedC, ACommitted, ASigned
  <2> HIDE DEF msgs
  <2> QED
    BY <2>1, <2>2, <2>3, AgentOn DEF AgentPc, ReadAt
<1>2. CASE AServerHello
  <2> DEFINE msgs ==
          <<Msg("sim.t", Mul(a.k, Got(A).share)),
            Msg("sim.t", Mul(a.k, Got(A).share))>>
  <2>1. /\ Takes(A, "shf") /\ At(A, "shf") /\ Passes(A, msgs)
        /\ Goes(A, "x2") /\ UNCHANGED <<r, srv>>
    BY <1>2 DEF AServerHello, Takes
  <2>2. Len(q'[R]) = Len(q[R]) - 1
    BY <2>1, AgentLeaves
  <2>3. a'.k = a.k /\ "x2" \notin APhase2
    BY <1>0, <1>2
       DEF AServerHello, AgentFields, APhase2, AOpenedC, ACommitted, ASigned
  <2> HIDE DEF msgs
  <2> QED
    BY <2>1, <2>2, <2>3, AgentOn DEF AgentPc, ReadAt
<1>3. CASE AInputX
  <2> DEFINE msgs == <<>>
  <2>1. /\ Takes(A, "x2") /\ At(A, "x2") /\ Passes(A, msgs)
        /\ Goes(A, "y2") /\ UNCHANGED <<r, srv>>
    BY <1>3 DEF AInputX, Takes
  <2>2. Len(q'[R]) = Len(q[R]) - 1
    BY <2>1, AgentLeaves
  <2>3. a'.k = a.k /\ "y2" \notin APhase2
    BY <1>0, <1>3
       DEF AInputX, AgentFields, APhase2, AOpenedC, ACommitted, ASigned
  <2> HIDE DEF msgs
  <2> QED
    BY <2>1, <2>2, <2>3, AgentOn DEF AgentPc, ReadAt
<1>4. CASE AInputY
  <2> DEFINE msgs == <<Msg("op", None)>>
  <2>1. /\ Takes(A, "y2") /\ At(A, "y2") /\ Passes(A, msgs)
        /\ Goes(A, "dx") /\ UNCHANGED <<r, srv>>
    BY <1>4 DEF AInputY, Takes
  <2>2. Len(q'[R]) = Len(q[R]) - 1
    BY <2>1, AgentLeaves
  <2>3. a'.k = a.k /\ "dx" \notin APhase2
    BY <1>0, <1>4
       DEF AInputY, AgentFields, APhase2, AOpenedC, ACommitted, ASigned
  <2> HIDE DEF msgs
  <2> QED
    BY <2>1, <2>2, <2>3, AgentOn DEF AgentPc, ReadAt
<1>5. CASE AInverse
  <2> DEFINE msgs == <<>>
  <2>1. /\ Takes(A, "dx") /\ At(A, "dx") /\ Passes(A, msgs)
        /\ Goes(A, "chts") /\ UNCHANGED <<r, srv>>
    BY <1>5 DEF AInverse, Takes
  <2>2. Len(q'[R]) = Len(q[R]) - 1
    BY <2>1, AgentLeaves
  <2>3. a'.k = a.k /\ "chts" \notin APhase2
    BY <1>0, <1>5
       DEF AInverse, AgentFields, APhase2, AOpenedC, ACommitted, ASigned
  <2> HIDE DEF msgs
  <2> QED
    BY <2>1, <2>2, <2>3, AgentOn DEF AgentPc, ReadAt
<1>6. CASE AOpenChts
  <2> DEFINE msgs == <<>>
  <2>1. /\ Takes(A, "chts") /\ At(A, "chts") /\ Passes(A, msgs)
        /\ Goes(A, "shts") /\ UNCHANGED <<r, srv>>
    BY <1>6 DEF AOpenChts, Takes
  <2>2. Len(q'[R]) = Len(q[R]) - 1
    BY <2>1, AgentLeaves
  <2>3. a'.k = a.k /\ "shts" \notin APhase2
    BY <1>0, <1>6
       DEF AOpenChts, AgentFields, APhase2, AOpenedC, ACommitted, ASigned
  <2> HIDE DEF msgs
  <2> QED
    BY <2>1, <2>2, <2>3, AgentOn DEF AgentPc, ReadAt
<1>7. CASE AVerify
  <2> DEFINE msgs == <<Msg("h2", Flown(a.tr)), Msg("op", a'.capp)>>
  <2>1. /\ Takes(A, "shts") /\ At(A, "shts") /\ Passes(A, msgs)
        /\ Goes(A, "ivc") /\ UNCHANGED <<r, srv>>
    BY <1>7 DEF AVerify, Takes
  <2>2. Len(q'[R]) = Len(q[R]) - 1
    BY <2>1, AgentLeaves
  <2>3. a'.k = a.k /\ a'.ok
    BY <1>0, <1>7, <2>1, FlightRight DEF AVerify, AgentFields
  <2> HIDE DEF msgs
  <2> QED
    BY <2>1, <2>2, <2>3, AgentOn DEF AgentPc, ReadAt
<1>8. CASE AOpenIvC
  <2> DEFINE msgs == <<Msg("op", a.sapp)>>
  <2>1. /\ Takes(A, "ivc") /\ At(A, "ivc") /\ Passes(A, msgs)
        /\ Goes(A, "ivs") /\ UNCHANGED <<r, srv>>
    BY <1>8 DEF AOpenIvC, Takes
  <2>2. Len(q'[R]) = Len(q[R]) - 1
    BY <2>1, AgentLeaves
  <2>3. a'.k = a.k /\ a'.ok = a.ok /\ a.ok
    BY <1>0, <1>8, <2>1
       DEF AOpenIvC, AgentFields, OnTrack, At, APhase2, AOpenedC, ACommitted,
           ASigned
  <2> HIDE DEF msgs
  <2> QED
    BY <2>1, <2>2, <2>3, AgentOn DEF AgentPc, ReadAt
<1>9. CASE ACommit
  <2> DEFINE msgs == <<Msg("com", a.sapp)>>
  <2>1. /\ Takes(A, "ivs") /\ At(A, "ivs") /\ Passes(A, msgs)
        /\ Goes(A, "tksr") /\ UNCHANGED <<r, srv>>
    BY <1>9 DEF ACommit, Takes
  <2>2. Len(q'[R]) = Len(q[R]) - 1
    BY <2>1, AgentLeaves
  <2>3. a'.k = a.k /\ a'.ok = a.ok /\ a.ok
    BY <1>0, <1>9, <2>1
       DEF ACommit, AgentFields, OnTrack, At, APhase2, AOpenedC, ACommitted,
           ASigned
  <2> HIDE DEF msgs
  <2> QED
    BY <2>1, <2>2, <2>3, AgentOn DEF AgentPc, ReadAt
<1>10. CASE AFinish
  <2> DEFINE msgs ==
          <<Msg("cf", Rec(a.chts, 0, "hs", Finished(a.chts, a.tr)))>>
  <2>1. /\ Takes(A, "tksr") /\ At(A, "tksr") /\ Passes(A, msgs)
        /\ UNCHANGED <<r, srv>> /\ Goes(A, IF a.ok THEN "cfok" ELSE "over")
    BY <1>10 DEF AFinish, Takes
  <2>4. a.ok
    BY <2>1 DEF OnTrack, At, APhase2, AOpenedC, ACommitted
  <2>5. Goes(A, "cfok")
    BY <2>1, <2>4
  <2>2. Len(q'[R]) = Len(q[R]) - 1
    BY <2>1, AgentLeaves
  <2>3. a'.k = a.k /\ a'.ok = a.ok /\ a.ok
    BY <1>0, <1>10, <2>1
       DEF AFinish, AgentFields, OnTrack, At, APhase2, AOpenedC, ACommitted,
           ASigned
  <2> HIDE DEF msgs
  <2> QED
    BY <2>1, <2>2, <2>3, <2>5, AgentOn DEF AgentPc, ReadAt
<1>11. CASE AConfirmed
  <2> DEFINE msgs == <<>>
  <2>1. /\ Takes(A, "cfok") /\ At(A, "cfok") /\ Passes(A, msgs)
        /\ Goes(A, "over") /\ UNCHANGED <<r, srv>>
    BY <1>11 DEF AConfirmed, Takes
  <2>2. Len(q'[R]) = Len(q[R]) - 1
    BY <2>1, AgentLeaves
  <2>4. /\ "cfok" \in AgentPc \ {"start", "over", "done"}
        /\ ReadAt[1]["cfok"] = 10
    BY DEF AgentPc, ReadAt
  <2>5. TellR(11, Got(A), RelayWords)
    BY <2>1, <2>4, AgentHears DEF KInv
  <2>6. Got(A) = r.ok
    BY <2>5 DEF TellR, RelayWords
  <2>7. pc[R] \in ROver2
    <3>1. Len(q[R]) >= 1
      <4>1. PICK S : q[R] \in Seq(S)
        BY DEF PInv, Typed
      <4>2. q[R] # <<>>
        BY <2>1, Sides DEF Takes
      <4> QED
        BY <4>1, <4>2, LenProperties, EmptySeq
    <3>2. SentAt[2][pc[R]] >= 11
      BY <2>1, <2>4, <3>1, Lengths DEF OnTrack, At
    <3> QED
      BY <3>2 DEF PInv, Typed, RelayPc, SentAt, ROver2
  <2>3. a'.k = a.k /\ a'.ok
    BY <1>0, <1>11, <2>6, <2>7 DEF AConfirmed, AgentFields, OnTrack
  <2> HIDE DEF msgs
  <2> QED
    BY <2>1, <2>2, <2>3, AgentOn DEF AgentPc, ReadAt
<1>12. CASE AKeyShare
  <2> DEFINE msgs == <<Msg("op", None)>>
  <2>1. /\ Takes(A, "tkr") /\ At(A, "tkr") /\ Passes(A, msgs)
        /\ Goes(A, "gcm") /\ UNCHANGED <<r, srv>>
    BY <1>12 DEF AKeyShare, Takes
  <2>2. Len(q'[R]) = Len(q[R]) - 1
    BY <2>1, AgentLeaves
  <2>3. a'.k = a.k /\ a'.ok = a.ok /\ a.ok
    BY <1>0, <1>12, <2>1
       DEF AKeyShare, AgentFields, OnTrack, At, APhase2, AOpenedC, ACommitted,
           ASigned
  <2> HIDE DEF msgs
  <2> QED
    BY <2>1, <2>2, <2>3, AgentOn DEF AgentPc, ReadAt
<1>13. CASE ASeal
  <2> DEFINE msgs == <<Msg("op", a.capp)>>
  <2>1. /\ Takes(A, "gcm") /\ At(A, "gcm") /\ Passes(A, msgs)
        /\ Goes(A, "ct") /\ UNCHANGED <<r, srv>>
    BY <1>13 DEF ASeal, Takes
  <2>2. Len(q'[R]) = Len(q[R]) - 1
    BY <2>1, AgentLeaves
  <2>3. a'.k = a.k /\ a'.ok = a.ok /\ a.ok
    BY <1>0, <1>13, <2>1
       DEF ASeal, AgentFields, OnTrack, At, APhase2, AOpenedC, ACommitted,
           ASigned
  <2> HIDE DEF msgs
  <2> QED
    BY <2>1, <2>2, <2>3, AgentOn DEF AgentPc, ReadAt
<1>14. CASE AOpenRecord
  <2> DEFINE msgs == <<>>
  <2>1. /\ Takes(A, "ct") /\ At(A, "ct") /\ Passes(A, msgs)
        /\ Goes(A, "resp") /\ UNCHANGED <<r, srv>>
    BY <1>14 DEF AOpenRecord, Takes
  <2>2. Len(q'[R]) = Len(q[R]) - 1
    BY <2>1, AgentLeaves
  <2>3. a'.k = a.k /\ a'.ok = a.ok /\ a.ok
    BY <1>0, <1>14, <2>1
       DEF AOpenRecord, AgentFields, OnTrack, At, APhase2, AOpenedC,
           ACommitted, ASigned
  <2> HIDE DEF msgs
  <2> QED
    BY <2>1, <2>2, <2>3, AgentOn DEF AgentPc, ReadAt
<1>15. CASE AStart
  <2>1. At(A, "start") /\ Goes(A, "zb") /\ UNCHANGED <<a, r, srv>>
    BY <1>15 DEF AStart
  <2>2. q'[R] = q[R]
    BY <1>15, Sides DEF AStart, PInv, Typed
  <2> QED
    BY <2>1, <2>2, AgentOn
       DEF AgentPc, ReadAt, APhase2, AOpenedC, ACommitted, ASigned
<1>16. CASE ABuild
  <2>1. At(A, "over") /\ Goes(A, "tkr") /\ UNCHANGED <<a, r, srv>>
    BY <1>16 DEF ABuild
  <2>2. q'[R] = q[R]
    BY <1>16, Sides DEF ABuild, PInv, Typed
  <2>3. a.ok
    BY <2>1 DEF OnTrack, At, APhase2, AOpenedC, ACommitted, ASigned
  <2> QED
    BY <2>1, <2>2, <2>3, AgentOn DEF AgentPc, ReadAt
<1>17. CASE AResponse
  <2>1. /\ Takes(A, "resp") /\ At(A, "resp") /\ Passes(A, <<>>)
        /\ UNCHANGED <<a, r, srv>>
    BY <1>17 DEF AResponse, Takes
  <2>2. Opens(Got(A), a.tk, 0)
    <3>1. /\ "resp" \in AgentPc \ {"start", "over", "done"}
          /\ ReadAt[1]["resp"] = 14
      BY DEF AgentPc, ReadAt
    <3>2. TellR(15, Got(A), RelayWords)
      BY <2>1, <3>1, AgentHears DEF KInv
    <3> QED
      BY <3>2 DEF TellR, RelayWords
  <2>3. Goes(A, "done")
    BY <1>17, <2>2 DEF AResponse
  <2>4. Len(q'[R]) = Len(q[R]) - 1
    BY <2>1, AgentLeaves
  <2>5. a.ok
    BY <2>1 DEF OnTrack, At, APhase2, AOpenedC, ACommitted, ASigned
  <2> QED
    BY <2>1, <2>3, <2>4, <2>5, AgentOn DEF AgentPc, ReadAt
<1>18. CASE ABadFlight
  BY <1>18, FlightRight DEF ABadFlight
<1> QED
  BY <1>1, <1>2, <1>3, <1>4, <1>5, <1>6, <1>7, <1>8, <1>9, <1>10, <1>11,
     <1>12, <1>13, <1>14, <1>15, <1>16, <1>17, <1>18

LEMMA RelayAdds ==
    ASSUME PInv, NEW msgs, \E T : msgs \in Seq(T), Passes(R, msgs)
    PROVE  Len(q'[R]) = Len(q[R]) + Len(msgs)
<1>1. PICK S, T : q[R] \in Seq(S) /\ msgs \in Seq(T)
  BY DEF PInv, Typed
<1>2. S \subseteq S \cup T /\ T \subseteq S \cup T
  OBVIOUS
<1>3. q[R] \in Seq(S \cup T) /\ msgs \in Seq(S \cup T)
  BY <1>1, <1>2, SeqMonotonic
<1>4. q'[R] = q[R] \o msgs
  BY Sides DEF Passes, PInv, Typed
<1> QED
  BY <1>3, <1>4, ConcatProperties

LEMMA RelayOn ==
    ASSUME PInv, OnTrack, NEW p \in RelayPc, NEW p2 \in RelayPc,
           At(R, p), Goes(R, p2), a' = a, r'.k = r.k,
           srv'.name = srv.name, srv'.ca = srv.ca, ProviderFits',
           p2 \in ROver2 => r'.ok,
           Len(q'[R]) = (Len(q[R]) + SentAt[2][p2]) - SentAt[2][p]
    PROVE  OnTrack'
<1>1. /\ pc[R] = p /\ pc'[R] = p2 /\ pc'[A] = pc[A]
      /\ fate' = fate /\ a' = a
  BY Sides DEF At, Goes, PInv, Typed
<1>2. Apart'
  BY <1>1 DEF OnTrack, Apart, Vouched, JointShare
<1>3. (Len(q[R]) = SentBy(R) - ReadAt[1][pc[A]])'
  <2>1. SentBy(R)' = SentAt[2][p2] /\ SentBy(R) = SentAt[2][p]
    BY <1>1, CountsBy, Sides DEF SentBy, PInv
  <2>2. /\ SentAt[2][p] \in Nat /\ SentAt[2][p2] \in Nat
        /\ ReadAt[1][pc[A]] \in Nat
    BY Counts DEF PInv, Typed
  <2> QED
    BY <1>1, <2>1, <2>2 DEF OnTrack
<1> QED
  BY <1>1, <1>2, <1>3 DEF OnTrack, Alive

\* A step of the relay that leaves the provider alone.
LEMMA RelayAlone ==
    ASSUME PInv, OnTrack, NEW p \in RelayPc, NEW p2 \in RelayPc,
           At(R, p), Goes(R, p2), a' = a, r'.k = r.k, srv' = srv,
           p \in {"za", "ch"} <=> p2 \in {"za", "ch"},
           p # "done", p2 # "done"
    PROVE  ProviderFits'
<1>1. pc[R] = p /\ pc'[R] = p2
  BY Sides DEF At, Goes, PInv, Typed
<1>2. JointPoint' = JointPoint /\ JointHello' = JointHello
  BY DEF JointPoint, JointHello, JointShare
<1> QED
  BY <1>1, <1>2 DEF OnTrack, ProviderFits

LEMMA RelayStaysOn ==
    ASSUME PInv, KInv, EInv, OnTrack,
           \/ RShare \/ RClientHello \/ RInputX \/ RInputY \/ RRelease
           \/ RPhase2 \/ ROpenIvC \/ ROpenIvS \/ RReveal \/ RFinished
           \/ RBuild \/ RSegments \/ RKeyShare \/ RSeal \/ RForward
    PROVE  OnTrack'
<1>0. RelayFields \subseteq DOMAIN r /\ ServerFields \subseteq DOMAIN srv
  BY DEF KInv, Fielded
<1>1. CASE RShare
  <2> DEFINE msgs == <<Msg("zb", r.k)>>
  <2>1. /\ At(R, "za") /\ Passes(R, msgs) /\ Goes(R, "ch")
        /\ a' = a /\ srv' = srv
    BY <1>1 DEF RShare, Takes
  <2>2. Len(msgs) = 1 /\ \E T : msgs \in Seq(T)
    BY Listed
  <2>3. r'.k = r.k /\ "ch" \notin ROver2
    BY <1>0, <1>1 DEF RShare, RelayFields, ROver2
  <2> HIDE DEF msgs
  <2>4. /\ SentAt[2]["ch"] = SentAt[2]["za"] + 1
        /\ SentAt[2]["za"] \in Nat
    BY DEF SentAt
  <2>5. Len(q'[R]) = (Len(q[R]) + SentAt[2]["ch"]) - SentAt[2]["za"]
    <3>1. Len(q'[R]) = Len(q[R]) + 1 /\ Len(q[R]) \in Nat
      BY <2>1, <2>2, RelayAdds, LenProperties DEF PInv, Typed
    <3> QED
      BY <2>4, <3>1
  <2>6. ProviderFits'
    BY <2>1, <2>3, RelayAlone DEF RelayPc
  <2> QED
    BY <2>1, <2>3, <2>5, <2>6, RelayOn DEF RelayPc
<1>2. CASE RInputX
  <2> DEFINE msgs == <<>>
  <2>1. /\ At(R, "x1") /\ Passes(R, msgs) /\ Goes(R, "y1")
        /\ a' = a /\ srv' = srv
    BY <1>2 DEF RInputX, Takes
  <2>2. Len(msgs) = 0 /\ \E T : msgs \in Seq(T)
    BY Listed
  <2>3. r'.k = r.k /\ "y1" \notin ROver2
    BY <1>0, <1>2 DEF RInputX, RelayFields, ROver2
  <2> HIDE DEF msgs
  <2>4. /\ SentAt[2]["y1"] = SentAt[2]["x1"] + 0
        /\ SentAt[2]["x1"] \in Nat
    BY DEF SentAt
  <2>5. Len(q'[R]) = (Len(q[R]) + SentAt[2]["y1"]) - SentAt[2]["x1"]
    <3>1. Len(q'[R]) = Len(q[R]) + 0 /\ Len(q[R]) \in Nat
      BY <2>1, <2>2, RelayAdds, LenProperties DEF PInv, Typed
    <3> QED
      BY <2>4, <3>1
  <2>6. ProviderFits'
    BY <2>1, <2>3, RelayAlone DEF RelayPc
  <2> QED
    BY <2>1, <2>3, <2>5, <2>6, RelayOn DEF RelayPc
<1>3. CASE RInputY
  <2> DEFINE msgs ==
          <<Msg("sim.t", r.ssk), Msg("sim.t", r.ssk), Msg("op", None)>>
  <2>1. /\ At(R, "y1") /\ Passes(R, msgs) /\ Goes(R, "dx")
        /\ a' = a /\ srv' = srv
    BY <1>3 DEF RInputY, Takes
  <2>2. Len(msgs) = 3 /\ \E T : msgs \in Seq(T)
    BY Listed
  <2>3. r'.k = r.k /\ "dx" \notin ROver2
    BY <1>0, <1>3 DEF RInputY, RelayFields, ROver2
  <2> HIDE DEF msgs
  <2>4. /\ SentAt[2]["dx"] = SentAt[2]["y1"] + 3
        /\ SentAt[2]["y1"] \in Nat
    BY DEF SentAt
  <2>5. Len(q'[R]) = (Len(q[R]) + SentAt[2]["dx"]) - SentAt[2]["y1"]
    <3>1. Len(q'[R]) = Len(q[R]) + 3 /\ Len(q[R]) \in Nat
      BY <2>1, <2>2, RelayAdds, LenProperties DEF PInv, Typed
    <3> QED
      BY <2>4, <3>1
  <2>6. ProviderFits'
    BY <2>1, <2>3, RelayAlone DEF RelayPc
  <2> QED
    BY <2>1, <2>3, <2>5, <2>6, RelayOn DEF RelayPc
<1>4. CASE RRelease
  <2> DEFINE msgs == <<Msg("op", ChtsOf(r.x, r.tr)),
                     Msg("op", ShtsOf(r.x, r.tr))>>
  <2>1. /\ At(R, "dx") /\ Passes(R, msgs) /\ Goes(R, "h2")
        /\ a' = a /\ srv' = srv
    BY <1>4 DEF RRelease, Takes
  <2>2. Len(msgs) = 2 /\ \E T : msgs \in Seq(T)
    BY Listed
  <2>3. r'.k = r.k /\ "h2" \notin ROver2
    BY <1>0, <1>4 DEF RRelease, RelayFields, ROver2
  <2> HIDE DEF msgs
  <2>4. /\ SentAt[2]["h2"] = SentAt[2]["dx"] + 2
        /\ SentAt[2]["dx"] \in Nat
    BY DEF SentAt
  <2>5. Len(q'[R]) = (Len(q[R]) + SentAt[2]["h2"]) - SentAt[2]["dx"]
    <3>1. Len(q'[R]) = Len(q[R]) + 2 /\ Len(q[R]) \in Nat
      BY <2>1, <2>2, RelayAdds, LenProperties DEF PInv, Typed
    <3> QED
      BY <2>4, <3>1
  <2>6. ProviderFits'
    BY <2>1, <2>3, RelayAlone DEF RelayPc
  <2> QED
    BY <2>1, <2>3, <2>5, <2>6, RelayOn DEF RelayPc
<1>5. CASE RPhase2
  <2> DEFINE msgs == <<Msg("op", r'.capp)>>
  <2>1. /\ At(R, "h2") /\ Passes(R, msgs) /\ Goes(R, "ivc")
        /\ a' = a /\ srv' = srv
    BY <1>5 DEF RPhase2, Takes
  <2>2. Len(msgs) = 1 /\ \E T : msgs \in Seq(T)
    BY Listed
  <2>3. r'.k = r.k /\ "ivc" \notin ROver2
    BY <1>0, <1>5 DEF RPhase2, RelayFields, ROver2
  <2> HIDE DEF msgs
  <2>4. /\ SentAt[2]["ivc"] = SentAt[2]["h2"] + 1
        /\ SentAt[2]["h2"] \in Nat
    BY DEF SentAt
  <2>5. Len(q'[R]) = (Len(q[R]) + SentAt[2]["ivc"]) - SentAt[2]["h2"]
    <3>1. Len(q'[R]) = Len(q[R]) + 1 /\ Len(q[R]) \in Nat
      BY <2>1, <2>2, RelayAdds, LenProperties DEF PInv, Typed
    <3> QED
      BY <2>4, <3>1
  <2>6. ProviderFits'
    BY <2>1, <2>3, RelayAlone DEF RelayPc
  <2> QED
    BY <2>1, <2>3, <2>5, <2>6, RelayOn DEF RelayPc
<1>6. CASE ROpenIvC
  <2> DEFINE msgs == <<Msg("op", r.sapp)>>
  <2>1. /\ At(R, "ivc") /\ Passes(R, msgs) /\ Goes(R, "ivs")
        /\ a' = a /\ srv' = srv
    BY <1>6 DEF ROpenIvC, Takes
  <2>2. Len(msgs) = 1 /\ \E T : msgs \in Seq(T)
    BY Listed
  <2>3. r'.k = r.k /\ "ivs" \notin ROver2
    BY <1>0, <1>6 DEF ROpenIvC, RelayFields, ROver2
  <2> HIDE DEF msgs
  <2>4. /\ SentAt[2]["ivs"] = SentAt[2]["ivc"] + 1
        /\ SentAt[2]["ivc"] \in Nat
    BY DEF SentAt
  <2>5. Len(q'[R]) = (Len(q[R]) + SentAt[2]["ivs"]) - SentAt[2]["ivc"]
    <3>1. Len(q'[R]) = Len(q[R]) + 1 /\ Len(q[R]) \in Nat
      BY <2>1, <2>2, RelayAdds, LenProperties DEF PInv, Typed
    <3> QED
      BY <2>4, <3>1
  <2>6. ProviderFits'
    BY <2>1, <2>3, RelayAlone DEF RelayPc
  <2> QED
    BY <2>1, <2>3, <2>5, <2>6, RelayOn DEF RelayPc
<1>7. CASE ROpenIvS
  <2> DEFINE msgs == <<>>
  <2>1. /\ At(R, "ivs") /\ Passes(R, msgs) /\ Goes(R, "com")
        /\ a' = a /\ srv' = srv
    BY <1>7 DEF ROpenIvS, Takes
  <2>2. Len(msgs) = 0 /\ \E T : msgs \in Seq(T)
    BY Listed
  <2>3. r'.k = r.k /\ "com" \notin ROver2
    BY <1>0, <1>7 DEF ROpenIvS, RelayFields, ROver2
  <2> HIDE DEF msgs
  <2>4. /\ SentAt[2]["com"] = SentAt[2]["ivs"] + 0
        /\ SentAt[2]["ivs"] \in Nat
    BY DEF SentAt
  <2>5. Len(q'[R]) = (Len(q[R]) + SentAt[2]["com"]) - SentAt[2]["ivs"]
    <3>1. Len(q'[R]) = Len(q[R]) + 0 /\ Len(q[R]) \in Nat
      BY <2>1, <2>2, RelayAdds, LenProperties DEF PInv, Typed
    <3> QED
      BY <2>4, <3>1
  <2>6. ProviderFits'
    BY <2>1, <2>3, RelayAlone DEF RelayPc
  <2> QED
    BY <2>1, <2>3, <2>5, <2>6, RelayOn DEF RelayPc
<1>8. CASE RReveal
  <2> DEFINE msgs == <<Msg("tksr", r.sapp)>>
  <2>1. /\ At(R, "com") /\ Passes(R, msgs) /\ Goes(R, "cf")
        /\ a' = a /\ srv' = srv
    BY <1>8 DEF RReveal, Takes
  <2>2. Len(msgs) = 1 /\ \E T : msgs \in Seq(T)
    BY Listed
  <2>3. r'.k = r.k /\ "cf" \notin ROver2
    BY <1>0, <1>8 DEF RReveal, RelayFields, ROver2
  <2> HIDE DEF msgs
  <2>4. /\ SentAt[2]["cf"] = SentAt[2]["com"] + 1
        /\ SentAt[2]["com"] \in Nat
    BY DEF SentAt
  <2>5. Len(q'[R]) = (Len(q[R]) + SentAt[2]["cf"]) - SentAt[2]["com"]
    <3>1. Len(q'[R]) = Len(q[R]) + 1 /\ Len(q[R]) \in Nat
      BY <2>1, <2>2, RelayAdds, LenProperties DEF PInv, Typed
    <3> QED
      BY <2>4, <3>1
  <2>6. ProviderFits'
    BY <2>1, <2>3, RelayAlone DEF RelayPc
  <2> QED
    BY <2>1, <2>3, <2>5, <2>6, RelayOn DEF RelayPc
<1>9. CASE RSegments
  <2> DEFINE msgs == <<>>
  <2>1. /\ At(R, "seg") /\ Passes(R, msgs) /\ Goes(R, "tka")
        /\ a' = a /\ srv' = srv
    BY <1>9 DEF RSegments, Takes
  <2>2. Len(msgs) = 0 /\ \E T : msgs \in Seq(T)
    BY Listed
  <2>3. r'.k = r.k /\ r'.ok
    BY <1>0, <1>9, <2>1 DEF RSegments, RelayFields, OnTrack, At, ROver2
  <2> HIDE DEF msgs
  <2>4. /\ SentAt[2]["tka"] = SentAt[2]["seg"] + 0
        /\ SentAt[2]["seg"] \in Nat
    BY DEF SentAt
  <2>5. Len(q'[R]) = (Len(q[R]) + SentAt[2]["tka"]) - SentAt[2]["seg"]
    <3>1. Len(q'[R]) = Len(q[R]) + 0 /\ Len(q[R]) \in Nat
      BY <2>1, <2>2, RelayAdds, LenProperties DEF PInv, Typed
    <3> QED
      BY <2>4, <3>1
  <2>6. ProviderFits'
    BY <2>1, <2>3, RelayAlone DEF RelayPc
  <2> QED
    BY <2>1, <2>3, <2>5, <2>6, RelayOn DEF RelayPc
<1>10. CASE RKeyShare
  <2> DEFINE msgs == <<Msg("sim.t", r.capp), Msg("op", None)>>
  <2>1. /\ At(R, "tka") /\ Passes(R, msgs) /\ Goes(R, "gcm")
        /\ a' = a /\ srv' = srv
    BY <1>10 DEF RKeyShare, Takes
  <2>2. Len(msgs) = 2 /\ \E T : msgs \in Seq(T)
    BY Listed
  <2>3. r'.k = r.k /\ r'.ok
    BY <1>0, <1>10, <2>1 DEF RKeyShare, RelayFields, OnTrack, At, ROver2
  <2> HIDE DEF msgs
  <2>4. /\ SentAt[2]["gcm"] = SentAt[2]["tka"] + 2
        /\ SentAt[2]["tka"] \in Nat
    BY DEF SentAt
  <2>5. Len(q'[R]) = (Len(q[R]) + SentAt[2]["gcm"]) - SentAt[2]["tka"]
    <3>1. Len(q'[R]) = Len(q[R]) + 2 /\ Len(q[R]) \in Nat
      BY <2>1, <2>2, RelayAdds, LenProperties DEF PInv, Typed
    <3> QED
      BY <2>4, <3>1
  <2>6. ProviderFits'
    BY <2>1, <2>3, RelayAlone DEF RelayPc
  <2> QED
    BY <2>1, <2>3, <2>5, <2>6, RelayOn DEF RelayPc
<1>11. CASE RSeal
  <2> DEFINE msgs == <<Msg("op", r.capp)>>
  <2>1. /\ At(R, "gcm") /\ Passes(R, msgs) /\ Goes(R, "ct")
        /\ a' = a /\ srv' = srv
    BY <1>11 DEF RSeal, Takes
  <2>2. Len(msgs) = 1 /\ \E T : msgs \in Seq(T)
    BY Listed
  <2>3. r'.k = r.k /\ r'.ok
    BY <1>0, <1>11, <2>1 DEF RSeal, RelayFields, OnTrack, At, ROver2
  <2> HIDE DEF msgs
  <2>4. /\ SentAt[2]["ct"] = SentAt[2]["gcm"] + 1
        /\ SentAt[2]["gcm"] \in Nat
    BY DEF SentAt
  <2>5. Len(q'[R]) = (Len(q[R]) + SentAt[2]["ct"]) - SentAt[2]["gcm"]
    <3>1. Len(q'[R]) = Len(q[R]) + 1 /\ Len(q[R]) \in Nat
      BY <2>1, <2>2, RelayAdds, LenProperties DEF PInv, Typed
    <3> QED
      BY <2>4, <3>1
  <2>6. ProviderFits'
    BY <2>1, <2>3, RelayAlone DEF RelayPc
  <2> QED
    BY <2>1, <2>3, <2>5, <2>6, RelayOn DEF RelayPc
<1>12. CASE RClientHello
  <2> DEFINE msgs == <<Msg("shf", Flight(srv'))>>
  <2>1. /\ At(R, "ch") /\ Passes(R, msgs) /\ Goes(R, "x1")
        /\ a' = a /\ srv' = Greeted(srv, r.cks)
    BY <1>12 DEF RClientHello, Takes, ClientHello
  <2>2. Len(msgs) = 1 /\ \E T : msgs \in Seq(T)
    BY Listed
  <2>3. r'.k = r.k /\ "x1" \notin ROver2
    BY <1>0, <1>12 DEF RClientHello, RelayFields, ROver2
  <2> HIDE DEF msgs
  <2>4. /\ SentAt[2]["x1"] = SentAt[2]["ch"] + 1
        /\ SentAt[2]["ch"] \in Nat
    BY DEF SentAt
  <2>5. Len(q'[R]) = (Len(q[R]) + SentAt[2]["x1"]) - SentAt[2]["ch"]
    <3>1. Len(q'[R]) = Len(q[R]) + 1 /\ Len(q[R]) \in Nat
      BY <2>1, <2>2, RelayAdds, LenProperties DEF PInv, Typed
    <3> QED
      BY <2>4, <3>1
  <2>6. pc[R] = "ch" /\ pc'[R] = "x1"
    BY <2>1, Sides DEF At, Goes, PInv, Typed
  <2>7. r.cks = JointShare /\ srv.transcript = <<>> /\ srv.seqS = 0
    BY <2>6 DEF EInv, RelayDerives, OnTrack, ProviderFits
  <2>8. srv.transcript \o <<CH(r.cks), SH(srv.y)>> = JointHello
    BY <2>7 DEF JointHello
  <2>9. /\ srv'.name = srv.name /\ srv'.ca = srv.ca /\ srv'.y = srv.y
        /\ srv'.seqS = srv.seqS /\ srv'.sfTr = Flown(JointHello)
        /\ srv'.chts = ChtsOf(JointPoint, JointHello)
        /\ srv'.shts = ShtsOf(JointPoint, JointHello)
    BY <1>0, <2>1, <2>7, <2>8
       DEF Greeted, ServerFields, ChtsOf, ShtsOf, JointPoint
  <2>10. JointPoint' = JointPoint /\ JointHello' = JointHello
    BY <2>1, <2>3, <2>9 DEF JointPoint, JointHello, JointShare
  <2>11. ProviderFits'
    BY <2>6, <2>7, <2>9, <2>10 DEF ProviderFits
  <2> QED
    BY <2>1, <2>3, <2>5, <2>9, <2>11, RelayOn DEF RelayPc
<1>13. CASE RFinished
  <2> DEFINE msgs == <<Msg("cfok", FinishedOk(Got(R)))>>
  <2>0. FinishedOk(Got(R))
    BY <1>13, FinishedRight DEF RFinished
  <2>1. /\ At(R, "cf") /\ Passes(R, msgs) /\ Goes(R, "over")
        /\ a' = a /\ srv' = Confirmed(srv)
    BY <1>13, <2>0 DEF RFinished, Takes, ClientFinished, FinishedOk
  <2>2. Len(msgs) = 1 /\ \E T : msgs \in Seq(T)
    BY Listed
  <2>3. r'.k = r.k /\ r'.ok
    BY <1>0, <1>13, <2>0 DEF RFinished, RelayFields
  <2> HIDE DEF msgs
  <2>4. /\ SentAt[2]["over"] = SentAt[2]["cf"] + 1
        /\ SentAt[2]["cf"] \in Nat
    BY DEF SentAt
  <2>5. Len(q'[R]) = (Len(q[R]) + SentAt[2]["over"]) - SentAt[2]["cf"]
    <3>1. Len(q'[R]) = Len(q[R]) + 1 /\ Len(q[R]) \in Nat
      BY <2>1, <2>2, RelayAdds, LenProperties DEF PInv, Typed
    <3> QED
      BY <2>4, <3>1
  <2>6. pc[R] = "cf" /\ pc'[R] = "over"
    BY <2>1, Sides DEF At, Goes, PInv, Typed
  <2>9. /\ srv'.name = srv.name /\ srv'.ca = srv.ca /\ srv'.y = srv.y
        /\ srv'.seqS = srv.seqS /\ srv'.sfTr = srv.sfTr
        /\ srv'.chts = srv.chts /\ srv'.shts = srv.shts
    BY <1>0, <2>1 DEF Confirmed, ServerFields
  <2>10. JointPoint' = JointPoint /\ JointHello' = JointHello
    BY <2>1, <2>3, <2>9 DEF JointPoint, JointHello, JointShare
  <2>11. ProviderFits'
    BY <2>6, <2>9, <2>10 DEF OnTrack, ProviderFits
  <2> QED
    BY <2>1, <2>3, <2>5, <2>9, <2>11, RelayOn DEF RelayPc
<1>14. CASE RBuild
  <2>1. /\ At(R, "over") /\ Goes(R, "seg")
        /\ a' = a /\ r' = r /\ srv' = srv /\ q' = q
    BY <1>14 DEF RBuild
  <2>2. r'.ok
    BY <2>1 DEF OnTrack, At, ROver2
  <2>3. ProviderFits'
    BY <2>1, RelayAlone DEF RelayPc
  <2>4. Len(q'[R]) = (Len(q[R]) + SentAt[2]["seg"]) - SentAt[2]["over"]
    <3>1. Len(q[R]) \in Nat
      BY LenProperties DEF PInv, Typed
    <3> QED
      BY <2>1, <3>1 DEF SentAt
  <2> QED
    BY <2>1, <2>2, <2>3, <2>4, RelayOn DEF RelayPc
<1>15. CASE RForward
  <2> DEFINE msgs == <<Msg("resp", Response(srv'))>>
  <2>0. Takes(R, "ct") /\ QueryAnswered(QueryRecord(r.capp, Got(R)))
    BY <1>15, QueryRight DEF RForward
  <2>1. /\ At(R, "ct") /\ Passes(R, msgs) /\ Goes(R, "done")
        /\ a' = a /\ r' = r /\ srv' = Answered(srv)
    BY <1>15, <2>0 DEF RForward, Takes, Query, QueryAnswered
  <2>2. Len(msgs) = 1 /\ \E T : msgs \in Seq(T)
    BY Listed
  <2>3. r'.ok
    BY <2>1 DEF OnTrack, At, ROver2
  <2> HIDE DEF msgs
  <2>4. /\ SentAt[2]["done"] = SentAt[2]["ct"] + 1
        /\ SentAt[2]["ct"] \in Nat
    BY DEF SentAt
  <2>5. Len(q'[R]) = (Len(q[R]) + SentAt[2]["done"]) - SentAt[2]["ct"]
    <3>1. Len(q'[R]) = Len(q[R]) + 1 /\ Len(q[R]) \in Nat
      BY <2>1, <2>2, RelayAdds, LenProperties DEF PInv, Typed
    <3> QED
      BY <2>4, <3>1
  <2>6. pc[R] = "ct" /\ pc'[R] = "done"
    BY <2>1, Sides DEF At, Goes, PInv, Typed
  <2>7. srv.seqS = 0
    BY <2>6 DEF OnTrack, ProviderFits
  <2>9. /\ srv'.name = srv.name /\ srv'.ca = srv.ca /\ srv'.y = srv.y
        /\ srv'.seqS = 1 /\ srv'.sfTr = srv.sfTr
        /\ srv'.chts = srv.chts /\ srv'.shts = srv.shts
    BY <1>0, <2>1, <2>7 DEF Answered, ServerFields
  <2>10. JointPoint' = JointPoint /\ JointHello' = JointHello
    BY <2>1, <2>9 DEF JointPoint, JointHello, JointShare
  <2>11. ProviderFits'
    BY <2>6, <2>9, <2>10 DEF OnTrack, ProviderFits
  <2> QED
    BY <2>1, <2>3, <2>5, <2>9, <2>11, RelayOn DEF RelayPc
<1> QED
  BY <1>1, <1>2, <1>3, <1>4, <1>5, <1>6, <1>7, <1>8,
     <1>9, <1>10, <1>11, <1>12, <1>13, <1>14, <1>15

LEMMA AgentActs ==
    ASSUME PInv, AStep
    PROVE  Alive(A) /\ fate'[R] = fate[R]
<1>1. CASE AHandshake
  <2>1. Alive(A) /\ (fate' = fate \/ \E how : fate' = [fate EXCEPT ![A] = how])
    BY <1>1 DEF AHandshake, AStart, AHello, AServerHello, AInputX, AInputY,
                AInverse, AOpenChts, AVerify, ABadFlight, AOpenIvC, ACommit,
                AFinish, AConfirmed, Takes, At, Goes, Dies
  <2> QED
    BY <2>1, Sides DEF PInv, Typed
<1>2. CASE AQuery
  <2>1. Alive(A) /\ (fate' = fate \/ \E how : fate' = [fate EXCEPT ![A] = how])
    BY <1>2 DEF AQuery, ABuild, AKeyShare, ASeal, AOpenRecord, AResponse,
                Takes, At, Goes, Dies
  <2> QED
    BY <2>1, Sides DEF PInv, Typed
<1>3. CASE RecvFails(A)
  <2>1. Alive(A) /\ \E how : fate' = [fate EXCEPT ![A] = how]
    BY <1>3 DEF RecvFails, Desync, Expire, Waiting, Dies
  <2> QED
    BY <2>1, Sides DEF PInv, Typed
<1> QED
  BY <1>1, <1>2, <1>3 DEF AStep

LEMMA RelayActs ==
    ASSUME PInv, RStep
    PROVE  Alive(R) /\ fate'[A] = fate[A]
<1>1. CASE RHandshake
  <2>1. Alive(R) /\ fate' = fate
    BY <1>1 DEF RHandshake, RShare, RClientHello, RInputX, RInputY, RRelease,
                RPhase2, ROpenIvC, ROpenIvS, RReveal, RFinished, Takes, At,
                Goes
  <2> QED
    BY <2>1
<1>2. CASE RQuery
  <2>1. Alive(R) /\ fate' = fate
    BY <1>2 DEF RQuery, RBuild, RSegments, RKeyShare, RSeal, Takes, At, Goes
  <2> QED
    BY <2>1
<1>3. CASE RForward \/ RecvFails(R)
  <2>1. Alive(R) /\ (fate' = fate \/ \E how : fate' = [fate EXCEPT ![R] = how])
    BY <1>3 DEF RForward, RecvFails, Desync, Expire, Waiting, Takes, At, Goes,
                Dies
  <2> QED
    BY <2>1, Sides DEF PInv, Typed
<1> QED
  BY <1>1, <1>2, <1>3 DEF RStep

\* A thread that has given up early has ended.
LEMMA EarlyStays == PInv /\ Early /\ [PNext]_pvars => Early'
<1> SUFFICES ASSUME PInv, NEW s \in Side, fate[s] = "early", [PNext]_pvars
             PROVE  fate'[s] = "early"
  BY DEF Early
<1>1. CASE AStep
  BY <1>1, AgentActs DEF Alive, Side
<1>2. CASE RStep
  BY <1>2, RelayActs DEF Alive, Side
<1>3. CASE UNCHANGED pvars
  BY <1>3 DEF pvars
<1> QED
  BY <1>1, <1>2, <1>3 DEF PNext

LEMMA StaysOnTrack ==
    PInv /\ KInv /\ EInv /\ TrackInv /\ [PNext]_pvars => TrackInv'
<1> SUFFICES ASSUME PInv, KInv, EInv, OnTrack, [PNext]_pvars
             PROVE  OnTrack' \/ Early'
  BY EarlyStays DEF TrackInv
<1>1. CASE AStep
  <2>1. CASE AHandshake \/ AQuery
    BY <2>1, AgentStaysOn DEF AHandshake, AQuery
  <2>2. CASE RecvFails(A)
    BY <2>2, NoneDesyncs, OnlyEarly, Sides DEF RecvFails
  <2> QED
    BY <1>1, <2>1, <2>2 DEF AStep
<1>2. CASE RStep
  <2>1. CASE RHandshake \/ RQuery \/ RForward
    BY <2>1, RelayStaysOn DEF RHandshake, RQuery
  <2>2. CASE RecvFails(R)
    BY <2>2, NoneDesyncs, OnlyEarly, Sides DEF RecvFails
  <2> QED
    BY <1>2, <2>1, <2>2 DEF RStep
<1>3. CASE UNCHANGED pvars
  <2>1. pc' = pc /\ fate' = fate /\ q' = q /\ a' = a /\ r' = r /\ srv' = srv
    BY <1>3 DEF pvars
  <2>2. /\ JointShare' = JointShare /\ SentBy(R)' = SentBy(R)
    BY <2>1 DEF JointShare, SentBy
  <2>3. JointPoint' = JointPoint /\ JointHello' = JointHello
    BY <2>1, <2>2 DEF JointPoint, JointHello
  <2> QED
    BY <2>1, <2>2, <2>3
       DEF OnTrack, Apart, Vouched, ProviderFits, Alive
<1> QED
  BY <1>1, <1>2, <1>3 DEF PNext

LEMMA TrackStart == PInit /\ Fit => TrackInv
<1> SUFFICES ASSUME PInit, Fit PROVE OnTrack
  BY DEF TrackInv
<1>1. /\ pc[A] = "start" /\ pc[R] = "za" /\ q[R] = <<>>
      /\ fate[A] = "alive" /\ fate[R] = "alive"
  BY Sides DEF PInit, Init
<1>2. srv.seqS = 0
  <2>1. PICK n \in Name, c \in CA, y \in Scalar :
          srv = Fresh(n, c, y) \/ srv = Used(n, c, y)
    BY DEF PInit, Init
  <2>2. srv = Fresh(n, c, y)
    BY <2>1, UsedCounts DEF Fit
  <2> QED
    BY <2>2 DEF Fresh
<1>3. Apart
  <2>1. JointShare # 0
    BY DEF PInit, Init, JointShare
  <2> QED
    BY <2>1 DEF Fit, Apart, Vouched
<1>4. ProviderFits
  BY <1>1, <1>2 DEF Fit, ProviderFits
<1>5. Len(q[R]) = SentBy(R) - ReadAt[1][pc[A]]
  BY <1>1, Sides DEF SentBy, SentAt, ReadAt
<1> QED
  BY <1>1, <1>3, <1>4, <1>5
     DEF OnTrack, Alive, APhase2, AOpenedC, ACommitted, ASigned, ROver2

\* Neither party is ever handed a message it does not ask for, nor ends for
\* another reason than a recv that gives up while the peer is at work, when
\* the provider is the wanted one, the provider object is new and the
\* parties' shares differ: the mixed-up messages of other runs are the work
\* of a rejected provider.
THEOREM FitRunOnTrack ==
    PSpec /\ Fit => [](Early \/ (NoDesync /\ \A s \in Side : Alive(s)))
<1>1. PSpec => [](PInv /\ KInv /\ EInv)
  BY EInvAlways
<1>2. TrackInv => Early \/ (NoDesync /\ \A s \in Side : Alive(s))
  BY DEF TrackInv, OnTrack, Alive, NoDesync, Side
<1>3. PSpec /\ Fit => []TrackInv
  BY <1>1, TrackStart, StaysOnTrack, PTL DEF PSpec
<1> QED
  BY <1>2, <1>3, PTL

-----------------------------------------------------------------------------
(***************************************************************************)
(* The main thread of such a run: what it does not pay for cannot be paid. *)
(***************************************************************************)
FitPays ==
    stage \in Final =>
        \/ Early \/ late
        \/ total # Unknown /\ (charged = total \/ ~ Payable)

PaysInv ==
    /\ FitPays
    /\ stage \in {"checked", "returned"} => Early \/ accept = 1 \/ suffix

\* The honest claim opens the response the station holds.
LEMMA HonestOpens ==
    ASSUME PInv, KInv, OnTrack, pc[R] = "done"
    PROVE  /\ srv.established
           /\ Opens(Response(srv), Open(a.com, r.sapp), 0)
<1>1. r.ok
  BY DEF OnTrack, ROver2
<1>2. srv.established /\ Open(a.com, r.sapp) = srv.sapp
  BY <1>1, Bound DEF Open
<1>3. srv.seqS = 1
  BY DEF OnTrack, ProviderFits
<1>4. Response(srv).key = srv.sapp /\ Response(srv).seq = 0
  BY <1>3 DEF Response, Rec
<1> QED
  BY <1>2, <1>4 DEF Opens

LEMMA PaysStep ==
    ASSUME MInv, KInv, EInv, TrackInv, PaysInv, [SNext]_allvars
    PROVE  PaysInv'
<1>1. [PNext]_pvars /\ PInv
  BY DEF SNext, Main, Locate, VerifyHonest, VerifyForged, Charge, JoinsExpire,
         MInv, allvars, pvars
<1>2. Early => Early'
  BY <1>1, EarlyStays
<1> SUFFICES ASSUME ~ Early PROVE PaysInv'
  BY <1>2 DEF PaysInv, FitPays
<1>3. OnTrack
  BY DEF TrackInv
<1>4. CASE UNCHANGED mvars
  BY <1>4 DEF mvars, PaysInv, FitPays, Payable, Forged
<1>5. CASE Locate
  <2>1. pc[A] = "done" /\ pc[R] = "done"
    BY <1>3, <1>5 DEF Locate, Stopped, Gone, OnTrack, Alive
  <2>2. stage' = "located"
    BY <1>1, <1>3, <1>5, <2>1, HonestOpens DEF Locate
  <2> QED
    BY <2>2 DEF PaysInv, FitPays, Final
<1>6. CASE VerifyHonest /\ ~ TimesOut
  <2>1. pc[R] = "done"
    BY <1>6 DEF VerifyHonest, MInv
  <2>2. accept' = 1 \/ suffix
    BY <1>1, <1>3, <1>6, <2>1, HonestOpens DEF VerifyHonest, Verdicts
  <2>3. stage' = "checked" /\ suffix' = suffix
    BY <1>6 DEF VerifyHonest
  <2> QED
    BY <2>2, <2>3 DEF PaysInv, FitPays, Final
<1>7. CASE VerifyForged /\ ~ TimesOut
  <2>1. /\ stage = "checked" /\ total # Unknown
        /\ UNCHANGED <<total, suffix, accept, charged>>
    BY <1>7 DEF VerifyForged, Fails, MInv
  <2>2. accept' = 1 \/ suffix'
    BY <2>1 DEF PaysInv
  <2>3. CASE NumDigits(Forged) = NumDigits(total)
    <3>1. stage' = "returned"
      BY <1>7, <2>3 DEF VerifyForged
    <3> QED
      BY <2>2, <3>1 DEF PaysInv, FitPays, Final
  <2>4. CASE NumDigits(Forged) # NumDigits(total)
    <3>1. ~ Payable' /\ stage' = "failed" /\ total' # Unknown
      BY <1>7, <2>1, <2>4 DEF VerifyForged, Fails, Payable, Forged
    <3> QED
      BY <3>1 DEF PaysInv, FitPays
  <2> QED
    BY <2>3, <2>4
<1>8. CASE Charge
  <2>1. /\ stage = "returned" /\ total # Unknown
        /\ UNCHANGED <<total, suffix, accept, forged>>
    BY <1>8 DEF Charge, Fails, MInv
  <2>2. accept = 1 \/ suffix
    BY <2>1 DEF PaysInv
  <2>3. CASE accept = 1 /\ Quota >= total
    BY <1>8, <2>1, <2>3 DEF Charge, PaysInv, FitPays
  <2>4. CASE ~ (accept = 1 /\ Quota >= total)
    <3>1. ~ Payable' /\ stage' = "failed" /\ total' # Unknown
      BY <1>8, <2>1, <2>2, <2>4 DEF Charge, Fails, Payable
    <3> QED
      BY <3>1 DEF PaysInv, FitPays
  <2> QED
    BY <2>3, <2>4
<1>9. CASE TimesOut
  BY <1>9 DEF TimesOut, PaysInv, FitPays
<1> QED
  BY <1>4, <1>5, <1>6, <1>7, <1>8, <1>9
     DEF SNext, Main, JoinsExpire, allvars, mvars

\* The safe half of ServedIsPaid: when the application run with such a
\* provider is over, the station has charged the agent for exactly the number
\* in the answer, or a time limit struck (a recv or a join, in the run or in
\* a verification, with the threads still at work), or the number could not
\* be paid for: the quota is too small, the window a suffix, or the forged
\* claim of another length.
THEOREM FitRunIsPaid == SSpec /\ Fit => []FitPays
<1>1. SSpec => []MInv
  BY MainStart, MainStep, PTL DEF SSpec
<1>2. SSpec => PSpec
  BY RunsPipeline
<1>3. PSpec => [](PInv /\ KInv /\ EInv)
  BY EInvAlways
<1>4. PSpec /\ Fit => []TrackInv
  BY <1>3, TrackStart, StaysOnTrack, PTL DEF PSpec
<1>5. SInit => PaysInv
  BY DEF SInit, PaysInv, FitPays, Final
<1>6. /\ MInv /\ (PInv /\ KInv /\ EInv) /\ TrackInv /\ PaysInv
      /\ [SNext]_allvars
      => PaysInv'
  BY PaysStep
<1>7. PaysInv => FitPays
  BY DEF PaysInv
<1> QED
  BY <1>1, <1>2, <1>3, <1>4, <1>5, <1>6, <1>7, PTL DEF SSpec

=============================================================================
