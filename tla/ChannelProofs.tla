---------------------------- MODULE ChannelProofs ----------------------------
(***************************************************************************)
(* The channel and the two-party runner, for every set of tags and payload *)
(* lengths, every bound on the messages and every pair of timeouts: the    *)
(* unlocked counters of channel.py never overcount, and are exact as long  *)
(* as no two sends overlap; run_two_parties reports what happened; and the *)
(* threads it runs use the channel as Chan allows, so that what is proved  *)
(* of the channel holds in every run.                                      *)
(***************************************************************************)
EXTENDS Runner, SequenceTheorems, TLAPS

(***************************************************************************)
(* The channel.                                                            *)
(***************************************************************************)
LEMMA SideFacts == /\ 0 \in Side /\ 1 \in Side
                   /\ \A s \in Side : Peer(s) \in Side
BY DEF Side, Peer

LEMMA OwnType ==
    ASSUME NEW s \in Side, NEW d \in Side, NEW c \in Counter, NEW n \in Nat
    PROVE  Own(s, d, c, n) \in Nat
BY DEF Own

\* Every step of the two threads keeps the channel object well typed.
LEMMA TypeStep == TypeOK /\ [Next]_vars => TypeOK'
<1> SUFFICES ASSUME TypeOK, [Next]_vars PROVE TypeOK'
  OBVIOUS
<1>1. CASE UNCHANGED vars
  BY <1>1 DEF vars, TypeOK
<1>2. ASSUME NEW s \in Side, NEW t \in Tag, NEW n \in Size, Put(s, t, n)
      PROVE  TypeOK'
  <2>1. n \in Nat
    BY SizeAssumption
  <2>2. true' \in [Counter -> [Side -> Nat]]
    <3>1. ASSUME NEW c \in Counter
          PROVE  true[c][s] + Own(s, s, c, n) \in Nat
      <4>1. true[c][s] \in Nat
        BY DEF TypeOK
      <4> QED
        BY <2>1, <4>1, OwnType
    <3>2. \A c \in Counter :
            [true[c] EXCEPT ![s] = @ + Own(s, s, c, n)] \in [Side -> Nat]
      BY <3>1 DEF TypeOK
    <3> QED
      BY <1>2, <3>2 DEF Put
  <2>3. q' \in [Side -> Seq(Message)]
    <3>1. [tag |-> t, len |-> n] \in Message
      BY DEF Message
    <3> QED
      BY <1>2, <3>1 DEF Put, TypeOK
  <2>4. /\ len' \in [Side -> Nat]
        /\ ctr' \in [Side -> Counter]
        /\ phase' \in [Side -> Phase]
        /\ serial' \in BOOLEAN
    BY <1>2, <2>1 DEF Put, TypeOK, Counter, Phase, Building
  <2> QED
    BY <1>2, <2>2, <2>3, <2>4 DEF Put, TypeOK
<1>3. ASSUME NEW s \in Side, NEW d \in Side, Load(s, d)
      PROVE  new' \in [Side -> [Side -> Nat]]
  <2>1. sent[ctr[s]][d] + Own(s, d, ctr[s], len[s]) \in Nat
    <3>1. ctr[s] \in Counter /\ len[s] \in Nat
      BY DEF TypeOK
    <3>2. sent[ctr[s]][d] \in Nat
      BY <3>1 DEF TypeOK
    <3> QED
      BY <3>1, <3>2, OwnType
  <2> QED
    BY <1>3, <2>1 DEF Load, TypeOK
<1>4. ASSUME NEW s \in Side, LoadFirst(s) PROVE TypeOK'
  <2>1. new' \in [Side -> [Side -> Nat]]
    BY <1>3, <1>4, SideFacts DEF LoadFirst
  <2> QED
    BY <1>4, <2>1 DEF LoadFirst, TypeOK, Phase, Building
<1>5. ASSUME NEW s \in Side, LoadSecond(s) PROVE TypeOK'
  <2>1. new' \in [Side -> [Side -> Nat]]
    BY <1>3, <1>5, SideFacts DEF LoadSecond
  <2> QED
    BY <1>5, <2>1 DEF LoadSecond, TypeOK, Phase, Building
<1>6. ASSUME NEW s \in Side, Store(s) PROVE TypeOK'
  BY <1>6 DEF Store, TypeOK, Phase, Building, Counter
<1>7. ASSUME NEW s \in Side, NEW t \in Tag, Recv(s, t) PROVE TypeOK'
  <2>1. q' \in [Side -> Seq(Message)]
    <3>1. q[Peer(s)] \in Seq(Message) /\ q[Peer(s)] # <<>>
      BY <1>7, SideFacts DEF Recv, TypeOK
    <3>2. Tail(q[Peer(s)]) \in Seq(Message)
      BY <3>1
    <3> QED
      BY <1>7, <3>2 DEF Recv, TypeOK
  <2> QED
    BY <1>7, <2>1 DEF Recv, TypeOK, Phase
<1>8. ASSUME NEW s \in Side, RecvTimeout(s) PROVE TypeOK'
  BY <1>8 DEF RecvTimeout, TypeOK, Phase
<1> QED
  BY <1>1, <1>2, <1>4, <1>5, <1>6, <1>7, <1>8 DEF Next

LEMMA InitType == Init => TypeOK
<1> SUFFICES ASSUME Init PROVE TypeOK
  OBVIOUS
<1>1. Zero \in [Side -> Nat]
  BY DEF Zero
<1>2. q \in [Side -> Seq(Message)]
  <2>1. <<>> \in Seq(Message)
    OBVIOUS
  <2> QED
    BY <2>1 DEF Init
<1> QED
  BY <1>1, <1>2 DEF Init, TypeOK, Counter, Phase

\* The channel object is well typed in every reachable state.
THEOREM Typing == Spec => []TypeOK
BY InitType, TypeStep, PTL DEF Spec

-----------------------------------------------------------------------------
LEMMA PendingType ==
    ASSUME TypeOK, NEW c \in Counter, NEW d \in Side
    PROVE  Pending(c, d) \in Nat
<1>1. len[d] \in Nat
  BY DEF TypeOK
<1> QED
  BY <1>1, OwnType DEF Pending

LEMMA Numbers ==
    ASSUME TypeOK, NEW c \in Counter, NEW r \in Side, NEW d \in Side
    PROVE  /\ sent[c][d] \in Nat
           /\ true[c][d] \in Nat
           /\ new[r][d] \in Nat
BY DEF TypeOK

LEMMA Locals ==
    ASSUME TypeOK, NEW r \in Side
    PROVE  ctr[r] \in Counter /\ len[r] \in Nat
BY DEF TypeOK

\* An entry a thread loads is within the bound of the tuple it builds.
LEMMA LoadBound ==
    ASSUME CountInv, NEW s \in Side, NEW d \in Side,
           phase[s] \in Building, Load(s, d)
    PROVE  /\ new'[s][d] + (IF s = d THEN 0 ELSE Pending(ctr[s], d))
                <= true[ctr[s]][d]
           /\ \A r, e \in Side : <<r, e>> # <<s, d>> => new'[r][e] = new[r][e]
<1>0. TypeOK /\ CounterBound
  BY DEF CountInv
<1>1. ctr[s] \in Counter /\ len[s] \in Nat
  BY <1>0, Locals
<1>2. new'[s][d] = sent[ctr[s]][d] + Own(s, d, ctr[s], len[s])
  BY <1>0 DEF Load, TypeOK
<1>3. sent[ctr[s]][d] + Pending(ctr[s], d) <= true[ctr[s]][d]
  BY <1>0, <1>1 DEF CounterBound
<1>4. CASE s = d
  <2>1. Pending(ctr[s], d) = Own(s, d, ctr[s], len[s])
    BY <1>4 DEF Pending
  <2>2. Own(s, d, ctr[s], len[s]) \in Nat /\ sent[ctr[s]][d] \in Nat
    BY <1>0, <1>1, OwnType, Numbers
  <2>3. \A r, e \in Side : <<r, e>> # <<s, d>> => new'[r][e] = new[r][e]
    BY <1>0 DEF Load, TypeOK
  <2> QED
    BY <1>2, <1>3, <1>4, <2>1, <2>2, <2>3
<1>5. CASE s # d
  <2>1. Own(s, d, ctr[s], len[s]) = 0
    BY <1>5 DEF Own
  <2>2. sent[ctr[s]][d] \in Nat
    BY <1>0, <1>1, Numbers
  <2> QED
    BY <1>2, <1>3, <1>5, <2>1, <2>2, <1>0 DEF Load, TypeOK
<1> QED
  BY <1>4, <1>5

\* The loads, the store and the put keep both bounds of CountInv.
LEMMA CountStep == CountInv /\ [Next]_vars => CountInv'
<1> SUFFICES ASSUME CountInv, [Next]_vars PROVE CountInv'
  OBVIOUS
<1>0. TypeOK /\ TypeOK'
  BY TypeStep DEF CountInv
<1>a. /\ CounterBound
      /\ TupleBound
  BY DEF CountInv
<1>b. SUFFICES CounterBound' /\ TupleBound'
  BY <1>0 DEF CountInv
<1>1. CASE UNCHANGED vars
  BY <1>1, <1>a DEF vars, CounterBound, TupleBound, Pending, Loaded
<1>2. ASSUME NEW s \in Side, NEW t \in Tag, NEW n \in Size, Put(s, t, n)
      PROVE  CounterBound' /\ TupleBound'
  <2>1. \A c \in Counter : /\ Pending(c, s) = 0
                           /\ Pending(c, s)' = Own(s, s, c, n)
    BY <1>2, <1>0 DEF Put, Pending, Building, TypeOK
  <2>2. \A c \in Counter, d \in Side : d # s => Pending(c, d)' = Pending(c, d)
    BY <1>2, <1>0 DEF Put, Pending, Building, TypeOK
  <2>3. \A c \in Counter, d \in Side :
          true'[c][d] = IF d = s THEN true[c][d] + Own(s, s, c, n)
                                 ELSE true[c][d]
    BY <1>2, <1>0 DEF Put, TypeOK
  <2>4. n \in Nat /\ \A c \in Counter : Own(s, s, c, n) \in Nat
    BY OwnType, SizeAssumption
  <2>5. ASSUME NEW c \in Counter, NEW d \in Side
        PROVE  sent'[c][d] + Pending(c, d)' <= true'[c][d]
    <3>1. sent[c][d] + Pending(c, d) <= true[c][d]
      BY <1>a DEF CounterBound
    <3> QED
      BY <1>2, <1>0, <2>1, <2>2, <2>3, <2>4, <3>1, Numbers DEF Put
  <2>6. ASSUME NEW r \in Side, NEW d \in Side, Loaded(r, d)'
        PROVE  new'[r][d] + (IF r = d THEN 0 ELSE Pending(ctr[r], d)')
                 <= true'[ctr[r]][d] /\ ctr'[r] = ctr[r]
    <3>1. r # s /\ Loaded(r, d) /\ ctr'[r] = ctr[r]
      BY <1>2, <1>0, <2>6 DEF Put, Loaded, TypeOK
    <3>2. ctr[r] \in Counter
      BY <1>0, Locals
    <3>3. new[r][d] + (IF r = d THEN 0 ELSE Pending(ctr[r], d))
            <= true[ctr[r]][d]
      BY <1>a, <3>1 DEF TupleBound
    <3> QED
      BY <1>2, <1>0, <2>1, <2>2, <2>3, <2>4, <3>1, <3>2, <3>3, Numbers DEF Put
  <2>7. CounterBound'
    BY <2>5 DEF CounterBound
  <2>8. TupleBound'
    BY <2>6 DEF TupleBound
  <2> QED
    BY <2>7, <2>8
<1>3. ASSUME NEW s \in Side, LoadFirst(s) PROVE CounterBound' /\ TupleBound'
  <2>1. \A c \in Counter, e \in Side : Pending(c, e)' = Pending(c, e)
    BY <1>3, <1>0 DEF LoadFirst, Pending, Building, TypeOK
  <2>2. phase[s] \in Building /\ Load(s, 0)
    BY <1>3 DEF LoadFirst, Building
  <2>3. /\ new'[s][0] + (IF s = 0 THEN 0 ELSE Pending(ctr[s], 0))
             <= true[ctr[s]][0]
        /\ \A r, e \in Side : <<r, e>> # <<s, 0>> => new'[r][e] = new[r][e]
    BY <2>2, LoadBound, SideFacts
  <2>4. CounterBound'
    BY <1>3, <1>a, <2>1 DEF LoadFirst, CounterBound
  <2>5. ASSUME NEW r \in Side, NEW e \in Side, Loaded(r, e)'
        PROVE  new'[r][e] + (IF r = e THEN 0 ELSE Pending(ctr[r], e)')
                 <= true'[ctr'[r]][e]
    <3>1. Pending(ctr[r], e)' = Pending(ctr[r], e)
      BY <1>3, <1>0, <2>1, Locals DEF LoadFirst
    <3>2. CASE <<r, e>> = <<s, 0>>
      BY <1>3, <2>3, <3>1, <3>2 DEF LoadFirst
    <3>3. CASE <<r, e>> # <<s, 0>>
      <4>1. Loaded(r, e)
        BY <1>3, <1>0, <2>5, <3>3 DEF LoadFirst, Loaded, TypeOK, Side
      <4> QED
        BY <1>3, <1>a, <2>3, <3>1, <3>3, <4>1 DEF LoadFirst, TupleBound
    <3> QED
      BY <3>2, <3>3
  <2>6. TupleBound'
    BY <1>3, <2>5 DEF LoadFirst, TupleBound
  <2> QED
    BY <2>4, <2>6
<1>4. ASSUME NEW s \in Side, LoadSecond(s) PROVE CounterBound' /\ TupleBound'
  <2>1. \A c \in Counter, e \in Side : Pending(c, e)' = Pending(c, e)
    BY <1>4, <1>0 DEF LoadSecond, Pending, Building, TypeOK
  <2>2. phase[s] \in Building /\ Load(s, 1)
    BY <1>4 DEF LoadSecond, Building
  <2>3. /\ new'[s][1] + (IF s = 1 THEN 0 ELSE Pending(ctr[s], 1))
             <= true[ctr[s]][1]
        /\ \A r, e \in Side : <<r, e>> # <<s, 1>> => new'[r][e] = new[r][e]
    BY <2>2, LoadBound, SideFacts
  <2>4. CounterBound'
    BY <1>4, <1>a, <2>1 DEF LoadSecond, CounterBound
  <2>5. ASSUME NEW r \in Side, NEW e \in Side, Loaded(r, e)'
        PROVE  new'[r][e] + (IF r = e THEN 0 ELSE Pending(ctr[r], e)')
                 <= true'[ctr'[r]][e]
    <3>1. Pending(ctr[r], e)' = Pending(ctr[r], e)
      BY <1>4, <1>0, <2>1, Locals DEF LoadSecond
    <3>2. CASE <<r, e>> = <<s, 1>>
      BY <1>4, <2>3, <3>1, <3>2 DEF LoadSecond
    <3>3. CASE <<r, e>> # <<s, 1>>
      <4>1. Loaded(r, e)
        BY <1>4, <1>0, <2>5, <3>3 DEF LoadSecond, Loaded, TypeOK, Side
      <4> QED
        BY <1>4, <1>a, <2>3, <3>1, <3>3, <4>1 DEF LoadSecond, TupleBound
    <3> QED
      BY <3>2, <3>3
  <2>6. TupleBound'
    BY <1>4, <2>5 DEF LoadSecond, TupleBound
  <2> QED
    BY <2>4, <2>6
<1>5. ASSUME NEW s \in Side, Store(s) PROVE CounterBound' /\ TupleBound'
  <2>1. \A c \in Counter, d \in Side :
          Pending(c, d)' = IF d = s /\ c = ctr[s] THEN 0 ELSE Pending(c, d)
    BY <1>5, <1>0 DEF Store, Pending, Building, TypeOK, Counter
  <2>2. \A d \in Side : /\ Loaded(s, d)
                        /\ ~ Loaded(s, d)'
    BY <1>5, <1>0 DEF Store, Loaded, TypeOK
  <2>3. \A r, d \in Side : r # s /\ Loaded(r, d)' =>
                              Loaded(r, d) /\ ctr'[r] = ctr[r]
    BY <1>5, <1>0 DEF Store, Loaded, TypeOK
  <2>4. ASSUME NEW c \in Counter, NEW d \in Side
        PROVE  sent'[c][d] + Pending(c, d)' <= true[c][d]
    <3>1. CASE c = ctr[s]
      <4>1. sent'[c][d] = new[s][d]
        BY <1>5, <1>0, <3>1 DEF Store, TypeOK
      <4>2. new[s][d] + (IF s = d THEN 0 ELSE Pending(ctr[s], d))
              <= true[ctr[s]][d]
        BY <1>a, <2>2 DEF TupleBound
      <4> QED
        BY <2>1, <3>1, <4>1, <4>2
    <3>2. CASE c # ctr[s]
      <4>1. sent'[c][d] = sent[c][d]
        BY <1>5, <1>0, <3>2 DEF Store, TypeOK
      <4> QED
        BY <1>a, <2>1, <3>2, <4>1 DEF CounterBound
    <3> QED
      BY <3>1, <3>2
  <2>5. ASSUME NEW r \in Side, NEW d \in Side, Loaded(r, d)'
        PROVE  new[r][d] + (IF r = d THEN 0 ELSE Pending(ctr[r], d)')
                 <= true[ctr'[r]][d]
    <3>1. r # s
      BY <2>2, <2>5
    <3>2. Loaded(r, d) /\ ctr'[r] = ctr[r] /\ ctr[r] \in Counter
      BY <1>0, <2>3, <2>5, <3>1, Locals
    <3>3. new[r][d] + (IF r = d THEN 0 ELSE Pending(ctr[r], d))
            <= true[ctr[r]][d]
      BY <1>a, <3>2 DEF TupleBound
    <3>4. Pending(ctr[r], d) \in Nat /\ new[r][d] \in Nat
          /\ true[ctr[r]][d] \in Nat
      BY <1>0, <3>2, PendingType, Numbers
    <3>5. Pending(ctr[r], d)'
            = IF d = s /\ ctr[r] = ctr[s] THEN 0 ELSE Pending(ctr[r], d)
      BY <1>5, <1>0, <3>2 DEF Store, Pending, Building, TypeOK, Counter
    <3> QED
      BY <3>2, <3>3, <3>4, <3>5
  <2>6. CounterBound'
    BY <1>5, <2>4 DEF Store, CounterBound
  <2>7. TupleBound'
    BY <1>5, <2>5 DEF Store, TupleBound
  <2> QED
    BY <2>6, <2>7
<1>6. ASSUME NEW s \in Side, NEW t \in Tag, Recv(s, t)
      PROVE  CounterBound' /\ TupleBound'
  <2>1. \A c \in Counter, d \in Side : Pending(c, d)' = Pending(c, d)
    BY <1>6, <1>0 DEF Recv, Pending, Building, TypeOK
  <2>2. \A r, d \in Side : Loaded(r, d)' => Loaded(r, d)
    BY <1>6, <1>0 DEF Recv, Loaded, TypeOK
  <2>3. \A r \in Side : ctr[r] \in Counter
    BY <1>0 DEF TypeOK
  <2> QED
    BY <1>6, <1>a, <2>1, <2>2, <2>3 DEF Recv, CounterBound, TupleBound
<1>7. ASSUME NEW s \in Side, RecvTimeout(s)
      PROVE  CounterBound' /\ TupleBound'
  <2>1. \A c \in Counter, d \in Side : Pending(c, d)' = Pending(c, d)
    BY <1>7, <1>0 DEF RecvTimeout, Pending, Building, TypeOK
  <2>2. \A r, d \in Side : Loaded(r, d)' => Loaded(r, d)
    BY <1>7, <1>0 DEF RecvTimeout, Loaded, TypeOK
  <2>3. \A r \in Side : ctr[r] \in Counter
    BY <1>0 DEF TypeOK
  <2> QED
    BY <1>7, <1>a, <2>1, <2>2, <2>3 DEF RecvTimeout, CounterBound, TupleBound
<1> QED
  BY <1>1, <1>2, <1>3, <1>4, <1>5, <1>6, <1>7 DEF Next

\* Both counters stay within the traffic really put, and so does every tuple
\* that either thread is about to store.
THEOREM Counting == Spec => []CountInv
<1>1. Init => CountInv
  <2> SUFFICES ASSUME Init PROVE CountInv
    OBVIOUS
  <2>1. TypeOK
    BY InitType
  <2>2. \A c \in Counter, d \in Side :
          Pending(c, d) = 0 /\ sent[c][d] = 0 /\ true[c][d] = 0
    BY DEF Init, Pending, Building, Zero
  <2>3. \A s, d \in Side : ~ Loaded(s, d)
    BY DEF Init, Loaded
  <2>4. CounterBound /\ TupleBound
    BY <2>2, <2>3 DEF CounterBound, TupleBound
  <2> QED
    BY <2>1, <2>4 DEF CountInv
<1> QED
  BY <1>1, CountStep, PTL DEF Spec

\* bytes_sent and msgs_sent never claim more than was put, however the two
\* unlocked rebuilds in send interleave.
THEOREM NoOvercount == Spec => []NeverOvercounts
<1>1. CountInv => NeverOvercounts
  <2> SUFFICES ASSUME CountInv, NEW c \in Counter, NEW d \in Side
               PROVE  sent[c][d] <= true[c][d]
    BY DEF NeverOvercounts
  <2>1. TypeOK /\ sent[c][d] + Pending(c, d) <= true[c][d]
    BY DEF CountInv, CounterBound
  <2>2. sent[c][d] \in Nat /\ true[c][d] \in Nat /\ Pending(c, d) \in Nat
    BY <2>1, Numbers, PendingType
  <2> QED
    BY <2>1, <2>2
<1> QED
  BY <1>1, Counting, PTL

-----------------------------------------------------------------------------
LEMMA OneKept ==
    ASSUME NEW s \in Side,
           \A r \in Side : r # s => phase'[r] = phase[r] /\ phase[r] \notin Building
    PROVE  OneSends'
BY DEF OneSends

LEMMA SerialStep == SerialInv /\ [Next]_vars => SerialInv'
<1> SUFFICES ASSUME SerialInv, [Next]_vars PROVE SerialInv'
  OBVIOUS
<1>0. TypeOK /\ TypeOK'
  BY TypeStep DEF SerialInv
<1>b. SUFFICES ASSUME serial' PROVE OneSends' /\ CounterExact' /\ TupleExact'
  BY <1>0 DEF SerialInv
<1>1. CASE UNCHANGED vars
  BY <1>1, <1>b DEF vars, SerialInv, OneSends, CounterExact, TupleExact,
     Pending, Loaded, Peer, Side
<1>a. [Next]_vars => (serial' => serial)
  BY DEF Next, Put, LoadFirst, LoadSecond, Store, Recv, RecvTimeout, vars
<1>c. serial /\ OneSends /\ CounterExact /\ TupleExact
  BY <1>a, <1>b DEF SerialInv
<1>2. ASSUME NEW s \in Side, NEW t \in Tag, NEW n \in Size, Put(s, t, n)
      PROVE  OneSends' /\ CounterExact' /\ TupleExact'
  <2>1. \A r \in Side : /\ r # s => phase'[r] = phase[r]
                         /\ phase[r] \notin Building
    <3>1. phase[s] \notin Building /\ phase[Peer(s)] \notin Building
      BY <1>2, <1>b DEF Put, Building
    <3>2. \A r \in Side : r # s => r = Peer(s)
      BY DEF Side, Peer
    <3> QED
      BY <1>2, <1>0, <3>1, <3>2 DEF Put, TypeOK
  <2>2. \A c \in Counter : Pending(c, s) = 0 /\ Pending(c, s)' = Own(s, s, c, n)
    BY <1>2, <1>0 DEF Put, Pending, Building, TypeOK
  <2>3. \A c \in Counter, d \in Side : d # s => Pending(c, d)' = Pending(c, d)
    BY <1>2, <1>0 DEF Put, Pending, Building, TypeOK
  <2>4. \A c \in Counter, d \in Side :
          true'[c][d] = IF d = s THEN true[c][d] + Own(s, s, c, n)
                                 ELSE true[c][d]
    BY <1>2, <1>0 DEF Put, TypeOK
  <2>5. n \in Nat /\ \A c \in Counter : Own(s, s, c, n) \in Nat
    BY OwnType, SizeAssumption
  <2>6. CounterExact'
    <3> SUFFICES ASSUME NEW c \in Counter, NEW d \in Side
                 PROVE  sent'[c][d] + Pending(c, d)' = true'[c][d]
      BY DEF CounterExact
    <3>1. sent[c][d] + Pending(c, d) = true[c][d] /\ sent' = sent
      BY <1>c, <1>2 DEF CounterExact, Put
    <3> QED
      BY <1>0, <2>2, <2>3, <2>4, <2>5, <3>1, Numbers
  <2>7. OneSends'
    BY <2>1, OneKept
  <2>8. TupleExact'
    <3>1. \A r, d \in Side : ~ Loaded(r, d)'
      BY <1>2, <1>0, <2>1 DEF Put, Loaded, TypeOK, Building
    <3> QED
      BY <3>1 DEF TupleExact
  <2> QED
    BY <2>6, <2>7, <2>8
<1>3. ASSUME NEW s \in Side, NEW d \in Side, phase[s] \in Building, Load(s, d)
      PROVE  /\ new'[s][d] = true[ctr[s]][d]
             /\ \A r, e \in Side : <<r, e>> # <<s, d>> => new'[r][e] = new[r][e]
  <2>1. ctr[s] \in Counter /\ len[s] \in Nat
    BY <1>0, Locals
  <2>2. new'[s][d] = sent[ctr[s]][d] + Own(s, d, ctr[s], len[s])
    BY <1>3, <1>0 DEF Load, TypeOK
  <2>3. Own(s, d, ctr[s], len[s]) = Pending(ctr[s], d)
    <3>1. CASE d = s
      BY <1>3, <3>1 DEF Pending
    <3>2. CASE d # s
      <4>1. phase[d] \notin Building
        BY <1>3, <1>c, <3>2 DEF OneSends
      <4> QED
        BY <3>2, <4>1 DEF Pending, Own
    <3> QED
      BY <3>1, <3>2
  <2>4. sent[ctr[s]][d] + Pending(ctr[s], d) = true[ctr[s]][d]
    BY <1>c, <2>1 DEF CounterExact
  <2>5. \A r, e \in Side : <<r, e>> # <<s, d>> => new'[r][e] = new[r][e]
    BY <1>3, <1>0 DEF Load, TypeOK
  <2> QED
    BY <2>2, <2>3, <2>4, <2>5
<1>4. ASSUME NEW s \in Side, LoadFirst(s)
      PROVE  OneSends' /\ CounterExact' /\ TupleExact'
  <2>1. \A c \in Counter, e \in Side : Pending(c, e)' = Pending(c, e)
    BY <1>4, <1>0 DEF LoadFirst, Pending, Building, TypeOK
  <2>2. phase[s] \in Building /\ Load(s, 0) /\ 0 \in Side
    BY <1>4 DEF LoadFirst, Building, Side
  <2>3. /\ new'[s][0] = true[ctr[s]][0]
        /\ \A r, e \in Side : <<r, e>> # <<s, 0>> => new'[r][e] = new[r][e]
    BY <1>3, <2>2
  <2>4. OneSends'
    <3>1. \A r \in Side : r # s => phase'[r] = phase[r] /\ phase[r] \notin Building
      BY <1>4, <1>0, <1>c, <2>2 DEF LoadFirst, OneSends, TypeOK
    <3> QED
      BY <3>1, OneKept
  <2>5. CounterExact'
    BY <1>4, <1>c, <2>1 DEF LoadFirst, CounterExact
  <2>6. \A r, e \in Side : <<r, e>> # <<s, 0>> /\ Loaded(r, e)' => Loaded(r, e)
    BY <1>4, <1>0 DEF LoadFirst, Loaded, TypeOK
  <2>7. TupleExact'
    BY <1>4, <1>c, <2>3, <2>6 DEF LoadFirst, TupleExact
  <2> QED
    BY <2>4, <2>5, <2>7
<1>5. ASSUME NEW s \in Side, LoadSecond(s)
      PROVE  OneSends' /\ CounterExact' /\ TupleExact'
  <2>1. \A c \in Counter, e \in Side : Pending(c, e)' = Pending(c, e)
    BY <1>5, <1>0 DEF LoadSecond, Pending, Building, TypeOK
  <2>2. phase[s] \in Building /\ Load(s, 1) /\ 1 \in Side
    BY <1>5 DEF LoadSecond, Building, Side
  <2>3. /\ new'[s][1] = true[ctr[s]][1]
        /\ \A r, e \in Side : <<r, e>> # <<s, 1>> => new'[r][e] = new[r][e]
    BY <1>3, <2>2
  <2>4. OneSends'
    <3>1. \A r \in Side : r # s => phase'[r] = phase[r] /\ phase[r] \notin Building
      BY <1>5, <1>0, <1>c, <2>2 DEF LoadSecond, OneSends, TypeOK
    <3> QED
      BY <3>1, OneKept
  <2>5. CounterExact'
    BY <1>5, <1>c, <2>1 DEF LoadSecond, CounterExact
  <2>6. \A r, e \in Side : <<r, e>> # <<s, 1>> /\ Loaded(r, e)' => Loaded(r, e)
    BY <1>5, <1>0 DEF LoadSecond, Loaded, TypeOK, Side
  <2>7. TupleExact'
    BY <1>5, <1>c, <2>3, <2>6 DEF LoadSecond, TupleExact
  <2> QED
    BY <2>4, <2>5, <2>7
<1>6. ASSUME NEW s \in Side, Store(s)
      PROVE  OneSends' /\ CounterExact' /\ TupleExact'
  <2>1. \A c \in Counter, d \in Side :
          Pending(c, d)' = IF d = s /\ c = ctr[s] THEN 0 ELSE Pending(c, d)
    BY <1>6, <1>0 DEF Store, Pending, Building, TypeOK, Counter
  <2>a. phase[s] \in Building
    BY <1>6 DEF Store, Building
  <2>2. \A r \in Side : r # s => phase'[r] = phase[r] /\ phase[r] \notin Building
    BY <1>6, <1>0, <1>c, <2>a DEF Store, OneSends, TypeOK
  <2>3. OneSends'
    BY <2>2, OneKept
  <2>4. \A r, d \in Side : ~ Loaded(r, d)'
    BY <1>6, <1>0, <2>2 DEF Store, Loaded, TypeOK, Building
  <2>5. CounterExact'
    <3> SUFFICES ASSUME NEW c \in Counter, NEW d \in Side
                 PROVE  sent'[c][d] + Pending(c, d)' = true[c][d]
      BY <1>6 DEF CounterExact, Store
    <3>1. CASE c = ctr[s]
      <4>1. sent'[c][d] = new[s][d]
        BY <1>6, <1>0, <3>1 DEF Store, TypeOK
      <4>2. new[s][d] = true[ctr[s]][d]
        BY <1>6, <1>c DEF TupleExact, Store, Loaded
      <4>3. Pending(c, d)' = 0
        <5>1. CASE d = s
          BY <2>1, <3>1, <5>1
        <5>2. CASE d # s
          BY <2>1, <2>2, <5>2 DEF Pending
        <5> QED
          BY <5>1, <5>2
      <4>4. true[c][d] \in Nat
        BY <1>0, Numbers
      <4> QED
        BY <3>1, <4>1, <4>2, <4>3, <4>4
    <3>2. CASE c # ctr[s]
      <4>1. sent'[c][d] = sent[c][d]
        BY <1>6, <1>0, <3>2 DEF Store, TypeOK
      <4> QED
        BY <1>c, <2>1, <3>2, <4>1 DEF CounterExact
    <3> QED
      BY <3>1, <3>2
  <2>6. TupleExact'
    BY <2>4 DEF TupleExact
  <2> QED
    BY <2>3, <2>5, <2>6
<1>7. ASSUME NEW s \in Side,
             RecvTimeout(s) \/ \E t \in Tag : Recv(s, t)
      PROVE  OneSends' /\ CounterExact' /\ TupleExact'
  <2>1. /\ \A r \in Side :
               \/ phase'[r] = phase[r]
               \/ phase[r] \notin Building /\ phase'[r] \notin Building
        /\ UNCHANGED <<sent, ctr, len, new, true>>
    BY <1>7, <1>0 DEF Recv, RecvTimeout, Building, TypeOK
  <2>2. \A c \in Counter, d \in Side : Pending(c, d)' = Pending(c, d)
    BY <2>1 DEF Pending
  <2>3. \A r, d \in Side : Loaded(r, d)' => Loaded(r, d)
    BY <2>1 DEF Loaded, Building
  <2>4. OneSends'
    BY <1>c, <2>1 DEF OneSends
  <2>5. CounterExact'
    BY <1>c, <2>1, <2>2 DEF CounterExact
  <2>6. TupleExact'
    BY <1>c, <2>1, <2>3 DEF TupleExact
  <2> QED
    BY <2>4, <2>5, <2>6
<1> QED
  BY <1>1, <1>2, <1>4, <1>5, <1>6, <1>7 DEF Next

LEMMA SerialStart == Init => SerialInv
<1> SUFFICES ASSUME Init PROVE SerialInv
  OBVIOUS
<1>1. TypeOK
  BY InitType
<1>2. \A c \in Counter, d \in Side :
        Pending(c, d) = 0 /\ sent[c][d] = 0 /\ true[c][d] = 0
  BY DEF Init, Pending, Building, Zero
<1>3. \A s, d \in Side : ~ Loaded(s, d) /\ phase[s] \notin Building
  BY DEF Init, Loaded, Building
<1> QED
  BY <1>1, <1>2, <1>3 DEF SerialInv, OneSends, CounterExact, TupleExact

\* An update is lost only when two sends overlap: as long as none have, and
\* no thread is in send, bytes_sent and msgs_sent are what was really put.
THEOREM SerialExact == Spec => []ExactWhenSerial
<1>1. SerialInv => ExactWhenSerial
  <2> SUFFICES ASSUME SerialInv, serial, Quiet PROVE sent = true
    BY DEF ExactWhenSerial
  <2>1. TypeOK /\ CounterExact
    BY DEF SerialInv
  <2>2. ASSUME NEW c \in Counter, NEW d \in Side PROVE sent[c][d] = true[c][d]
    <3>1. Pending(c, d) = 0
      BY DEF Quiet, Pending
    <3>2. sent[c][d] + 0 = true[c][d] /\ sent[c][d] \in Nat
      BY <2>1, <3>1, Numbers DEF CounterExact
    <3> QED
      BY <3>2
  <2>3. \A c \in Counter : sent[c] = true[c]
    BY <2>1, <2>2 DEF TypeOK
  <2> QED
    BY <2>1, <2>3 DEF TypeOK
<1> QED
  BY <1>1, SerialStart, SerialStep, PTL DEF Spec

-----------------------------------------------------------------------------
(***************************************************************************)
(* The runner.                                                             *)
(***************************************************************************)
ThreadState == {"work", "wait", "done", "failed"}
Raised == [side : Side, what : {"desync", "expired", "raised"}]

(***************************************************************************)
(* The list err holds one exception of each thread that failed.            *)
(***************************************************************************)
ErrorsFit ==
    /\ \A n \in DOMAIN err : thread[err[n].side] = "failed"
    /\ \A m, n \in DOMAIN err : err[m].side = err[n].side => m = n
    /\ \A s \in Side : thread[s] = "failed" =>
           \E n \in DOMAIN err : err[n].side = s

ResultFits ==
    /\ \/ result \in {NotYet, Outputs, TimedOut}
       \/ err # <<>> /\ result = err[1]
    /\ result = Outputs => \A s \in Side : thread[s] = "done"

RInv ==
    /\ thread \in [Side -> ThreadState]
    /\ err \in Seq(Raised)
    /\ ErrorsFit
    /\ ResultFits

LEMMA RunStart == RInit => RInv
BY EmptySeq DEF RInit, RInv, ThreadState, ErrorsFit, ResultFits, NotYet, Outputs

LEMMA ErrSides ==
    ASSUME RInv
    PROVE  /\ \A n \in DOMAIN err : err[n] \in Raised /\ err[n].side \in Side
           /\ err # <<>> => 1 \in DOMAIN err
<1>1. err \in Seq(Raised)
  BY DEF RInv
<1>2. \A n \in DOMAIN err : err[n] \in Raised
  BY <1>1, ElementOfSeq, LenProperties
<1>3. \A e \in Raised : e.side \in Side
  BY DEF Raised
<1>4. err # <<>> => 1 \in DOMAIN err
  BY <1>1, EmptySeq, LenProperties
<1> QED
  BY <1>2, <1>3, <1>4

\* A failing thread: its exception is the only one of its side.
LEMMA FailKeeps ==
    ASSUME RInv, NEW s \in Side, Alive(s),
           NEW what \in {"desync", "expired", "raised"}, Fails(s, what)
    PROVE  RInv'
<1> DEFINE e == [side |-> s, what |-> what]
<1>1. /\ thread \in [Side -> ThreadState] /\ err \in Seq(Raised)
      /\ thread' = [thread EXCEPT ![s] = "failed"]
      /\ err' = Append(err, e) /\ result' = result
      /\ thread[s] # "failed" /\ thread[s] # "done"
  BY DEF RInv, Fails, Alive, caller
<1>2. e \in Raised
  BY DEF Raised
<1>3. /\ err' \in Seq(Raised)
      /\ Len(err) \in Nat /\ DOMAIN err = 1 .. Len(err)
      /\ DOMAIN err' = 1 .. Len(err) + 1
      /\ err'[Len(err) + 1] = e
      /\ \A n \in DOMAIN err : n \in DOMAIN err' /\ err'[n] = err[n]
  BY <1>1, <1>2, AppendProperties, LenProperties
<1>4. thread' \in [Side -> ThreadState]
  BY <1>1 DEF ThreadState
<1>5. \A n \in DOMAIN err : err[n].side # s /\ err[n].side \in Side
  <2> SUFFICES ASSUME NEW n \in DOMAIN err
               PROVE  err[n].side # s /\ err[n].side \in Side
    OBVIOUS
  <2>1. err[n] \in Raised
    BY <1>1, <1>3, ElementOfSeq
  <2>2. thread[err[n].side] = "failed"
    BY DEF RInv, ErrorsFit
  <2> QED
    BY <2>1, <2>2, <1>1 DEF Raised
<1>6. ErrorsFit'
  <2>1. ASSUME NEW n \in DOMAIN err' PROVE thread'[err'[n].side] = "failed"
    <3>1. CASE n \in DOMAIN err
      BY <3>1, <1>1, <1>3, <1>5 DEF RInv, ErrorsFit
    <3>2. CASE n = Len(err) + 1
      BY <3>2, <1>1, <1>3
    <3> QED
      BY <3>1, <3>2, <1>3
  <2>2. ASSUME NEW m \in DOMAIN err', NEW n \in DOMAIN err',
               err'[m].side = err'[n].side
        PROVE  m = n
    <3>1. CASE m \in DOMAIN err /\ n \in DOMAIN err
      BY <3>1, <2>2, <1>3 DEF RInv, ErrorsFit
    <3>2. CASE m = Len(err) + 1 /\ n \in DOMAIN err
      BY <3>2, <2>2, <1>3, <1>5
    <3>3. CASE m \in DOMAIN err /\ n = Len(err) + 1
      BY <3>3, <2>2, <1>3, <1>5
    <3> QED
      BY <3>1, <3>2, <3>3, <1>3
  <2>3. ASSUME NEW t \in Side, thread'[t] = "failed"
        PROVE  \E n \in DOMAIN err' : err'[n].side = t
    <3>1. CASE t = s
      BY <3>1, <1>3
    <3>2. CASE t # s
      <4>1. thread[t] = "failed"
        BY <3>2, <2>3, <1>1
      <4>2. PICK n \in DOMAIN err : err[n].side = t
        BY <4>1 DEF RInv, ErrorsFit
      <4> QED
        BY <4>2, <1>3
    <3> QED
      BY <3>1, <3>2
  <2> QED
    BY <2>1, <2>2, <2>3 DEF ErrorsFit
<1>7. ResultFits'
  <2>1. result # Outputs
    BY <1>1 DEF RInv, ResultFits
  <2>2. CASE result \in {NotYet, Outputs, TimedOut}
    BY <2>1, <2>2, <1>1 DEF ResultFits
  <2>3. CASE err # <<>> /\ result = err[1]
    <3>1. 1 \in DOMAIN err
      BY <2>3, <1>1, <1>3, EmptySeq
    <3> QED
      BY <3>1, <2>1, <2>3, <1>1, <1>3 DEF ResultFits
  <2> QED
    BY <2>2, <2>3 DEF RInv, ResultFits
<1> QED
  BY <1>3, <1>4, <1>6, <1>7 DEF RInv

\* A thread that goes on, or returns, disturbs neither err nor the result.
LEMMA MoveKeeps ==
    ASSUME RInv, NEW s \in Side, Alive(s), NEW st \in {"work", "wait", "done"},
           thread' = [thread EXCEPT ![s] = st], UNCHANGED <<err, result>>
    PROVE  RInv'
<1>1. /\ thread \in [Side -> ThreadState]
      /\ thread[s] # "failed" /\ thread[s] # "done"
      /\ \A t \in Side : thread'[t] = "failed" <=> thread[t] = "failed"
  BY DEF RInv, Alive
<1>2. thread' \in [Side -> ThreadState]
  BY DEF RInv, ThreadState
<1>3. \A n \in DOMAIN err : err[n].side \in Side
  BY ErrSides
<1>4. ErrorsFit'
  BY <1>1, <1>3 DEF RInv, ErrorsFit
<1>5. ResultFits'
  BY <1>1 DEF RInv, ResultFits
<1> QED
  BY <1>2, <1>4, <1>5 DEF RInv

LEMMA DecideKeeps == RInv /\ Decide => RInv'
<1> SUFFICES ASSUME RInv, Decide PROVE RInv'
  OBVIOUS
<1>1. UNCHANGED <<thread, err>> /\ result' = Outcome
  BY DEF Decide, party
<1>2. CASE \E s \in Side : Alive(s)
  BY <1>1, <1>2 DEF Outcome, RInv, ErrorsFit, ResultFits, TimedOut, Outputs
<1>3. CASE (\A s \in Side : ~ Alive(s)) /\ err # <<>>
  <2>1. result' = err[1]
    BY <1>1, <1>3 DEF Outcome
  <2>2. err[1].side \in Side
    BY <1>3, ErrSides
  <2>3. result' # Outputs
    BY <2>1, <2>2 DEF Outputs, Side
  <2> QED
    BY <1>1, <1>3, <2>1, <2>3 DEF RInv, ErrorsFit, ResultFits
<1>4. CASE (\A s \in Side : ~ Alive(s)) /\ err = <<>>
  <2>1. result' = Outputs
    BY <1>1, <1>4 DEF Outcome
  <2>2. \A s \in Side : thread[s] \in ThreadState /\ thread[s] # "failed"
    BY <1>4, EmptySeq DEF RInv, ErrorsFit
  <2>3. \A s \in Side : thread[s] = "done"
    BY <1>4, <2>2 DEF Alive, ThreadState
  <2> QED
    BY <1>1, <2>1, <2>3 DEF RInv, ErrorsFit, ResultFits
<1> QED
  BY <1>2, <1>3, <1>4

LEMMA RunStep == RInv /\ [RNext]_rvars => RInv'
<1> SUFFICES ASSUME RInv, [RNext]_rvars PROVE RInv'
  OBVIOUS
<1> DEFINE Same == UNCHANGED <<thread, err, result>>
<1>1. Same => RInv'
  BY DEF RInv, ErrorsFit, ResultFits
<1>2. ASSUME NEW s \in Side, Thread(s) PROVE RInv'
  <2>1. CASE Send(s) \/ Counts(s)
    BY <1>1, <2>1 DEF Send, Counts, party, caller
  <2>2. CASE Wait(s)
    BY <2>2, MoveKeeps DEF Wait, Works, Alive, caller
  <2>3. CASE Receive(s)
    <3>1. Alive(s)
      BY <2>3 DEF Receive, Alive
    <3>2. CASE phase'[s] = "failed"
      BY <3>1, <3>2, <2>3, FailKeeps DEF Receive
    <3>3. CASE phase'[s] # "failed"
      BY <3>1, <3>3, <2>3, MoveKeeps DEF Receive, caller
    <3> QED
      BY <3>2, <3>3
  <2>4. CASE Expire(s)
    BY <2>4, FailKeeps DEF Expire, RecvDue, Alive
  <2>5. CASE Return(s)
    BY <2>5, MoveKeeps DEF Return, Works, Alive, caller
  <2>6. CASE Raise(s)
    BY <2>6, FailKeeps DEF Raise, Works, Alive
  <2> QED
    BY <1>2, <2>1, <2>2, <2>3, <2>4, <2>5, <2>6 DEF Thread
<1>3. CASE JoinAgent \/ JoinRelay
  BY <1>1, <1>3 DEF JoinAgent, JoinRelay, party
<1>4. CASE Decide
  BY <1>4, DecideKeeps
<1>5. CASE Tick
  BY <1>1, <1>5 DEF Tick, party, caller
<1>6. CASE UNCHANGED rvars
  BY <1>1, <1>6 DEF rvars, party, caller
<1> QED
  BY <1>2, <1>3, <1>4, <1>5, <1>6 DEF RNext, Caller

\* run_two_parties hands over outputs only when both parties returned them,
\* and never raises the echo of another exception, for every RecvT and JoinT.
THEOREM TrueOutcome == RSpec => []OutcomeTrue
<1>1. RInv => OutcomeTrue
  <2> SUFFICES ASSUME RInv PROVE OutcomeTrue
    OBVIOUS
  <2>1. BothReturned
    BY DEF RInv, ResultFits, BothReturned
  <2>2. ASSUME NEW n \in DOMAIN err, err[n] = result,
               result.what = "expired"
        PROVE  n = 1
    <3>1. result = err[1] /\ err # <<>>
      BY <2>2 DEF RInv, ResultFits, NotYet, Outputs, TimedOut
    <3>2. 1 \in DOMAIN err
      BY <3>1, EmptySeq, LenProperties DEF RInv
    <3> QED
      BY <2>2, <3>1, <3>2 DEF RInv, ErrorsFit
  <2>3. RootCauseReported
    BY <2>2 DEF RootCauseReported
  <2> QED
    BY <2>1, <2>3 DEF OutcomeTrue
<1> QED
  BY <1>1, RunStart, RunStep, PTL DEF RSpec

-----------------------------------------------------------------------------
(***************************************************************************)
(* Every step of a run is a step of the channel, or leaves it alone.       *)
(***************************************************************************)
LEMMA ChanStep == [RNext]_rvars => [Next]_vars
<1> SUFFICES ASSUME [RNext]_rvars PROVE [Next]_vars
  OBVIOUS
<1>1. ASSUME NEW s \in Side, Thread(s) PROVE [Next]_vars
  BY <1>1 DEF Thread, Send, Counts, Wait, Receive, Expire, Return, Raise, Next
<1>2. CASE Caller \/ Tick
  BY <1>2 DEF Caller, JoinAgent, JoinRelay, Decide, Tick
<1>3. CASE UNCHANGED rvars
  BY <1>3 DEF rvars
<1> QED
  BY <1>1, <1>2, <1>3 DEF RNext

\* The runner is a user of the channel: RSpec implements Spec of Chan.
THEOREM RunsChan == RSpec => Spec
<1>1. RInit => Init
  BY DEF RInit
<1> QED
  BY <1>1, ChanStep, PTL DEF RSpec, Spec

\* In every run a counter of the channel is at most the real traffic.
THEOREM RunCounts == RSpec => []NeverOvercounts
BY RunsChan, NoOvercount, PTL

\* And it is exact whenever both parties are outside send and no two sends
\* of the run have overlapped.
THEOREM RunExact == RSpec => []ExactWhenSerial
BY RunsChan, SerialExact, PTL

=============================================================================
