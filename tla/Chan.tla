-------------------------------- MODULE Chan --------------------------------
(***************************************************************************)
(* The tagged two-party channel of trustedari/channel.py.  The agent       *)
(* (side 0) and the relay (side 1) are two threads that share one Chan     *)
(* object.  The message queues are queue.Queue objects, so a put or a get  *)
(* is atomic.  The two traffic counters are plain tuples that send         *)
(* rebuilds entry by entry and stores as a whole, without a lock: every    *)
(* load of an entry and the store are steps of their own, and the peer may *)
(* run between any two of them.                                            *)
(***************************************************************************)
EXTENDS Integers, Sequences

CONSTANTS
    Tag,        \* the tags messages carry
    Size,       \* the payload lengths, in bytes
    MaxMsgs     \* bound: the messages either side sends in a behaviour

ASSUME SizeAssumption == Size \subseteq Nat
ASSUME MaxMsgsAssumption == MaxMsgs \in Nat

Side == {0, 1}
Peer(s) == 1 - s
Counter == {"bytes", "msgs"}

VARIABLES
    q,          \* q[s]: what side s has put and its peer has not yet read
    sent,       \* sent[c][d]: Chan.bytes_sent and Chan.msgs_sent, entry d
    phase,      \* phase[s]: where in send the thread of side s stands
    ctr,        \* ctr[s]: the counter that thread is rebuilding
    len,        \* len[s]: len(payload) of the send it is executing
    new,        \* new[s]: the tuple it is building
    true,       \* true[c][d]: history, what has really been put by side d
    serial      \* history: no two sends have overlapped so far

vars == <<q, sent, phase, ctr, len, new, true, serial>>

Zero == [d \in Side |-> 0]
Building == {"load0", "load1", "store"}
Phase == {"ready", "failed"} \cup Building

\* Mutant of Own: the test "side == i" forgotten, both entries grow.
OwnBoth(s, d, c, n) == IF c = "bytes" THEN n ELSE 1

\* What one message adds to the entry d of a counter when side s sends it.
Own(s, d, c, n) == IF s = d THEN (IF c = "bytes" THEN n ELSE 1) ELSE 0

Init ==
    /\ q = [s \in Side |-> <<>>]
    /\ sent = [c \in Counter |-> Zero]
    /\ phase = [s \in Side |-> "ready"]
    /\ ctr = [s \in Side |-> "bytes"]
    /\ len = [s \in Side |-> 0]
    /\ new = [s \in Side |-> Zero]
    /\ true = [c \in Counter |-> Zero]
    /\ serial = TRUE

(***************************************************************************)
(* Chan.send: the put, then bytes_sent, then msgs_sent.                    *)
(***************************************************************************)
Put(s, t, n) ==
    /\ phase[s] = "ready"
    /\ true["msgs"][s] < MaxMsgs
    /\ q' = [q EXCEPT ![s] = Append(@, [tag |-> t, len |-> n])]
    /\ len' = [len EXCEPT ![s] = n]
    /\ ctr' = [ctr EXCEPT ![s] = "bytes"]
    /\ phase' = [phase EXCEPT ![s] = "load0"]
    /\ true' = [c \in Counter |->
                  [true[c] EXCEPT ![s] = @ + Own(s, s, c, n)]]
    /\ serial' = (serial /\ phase[Peer(s)] \notin Building)
    /\ UNCHANGED <<sent, new>>

\* Reading entry d of the tuple the object holds now.
Load(s, d) ==
    new' = [new EXCEPT ![s][d] = sent[ctr[s]][d] + Own(s, d, ctr[s], len[s])]

LoadFirst(s) ==
    /\ phase[s] = "load0"
    /\ Load(s, 0)
    /\ phase' = [phase EXCEPT ![s] = "load1"]
    /\ UNCHANGED <<q, sent, ctr, len, true, serial>>

\* Mutant of LoadSecond: the second entry is copied, never increased.
LoadSecondCopies(s) ==
    /\ phase[s] = "load1"
    /\ new' = [new EXCEPT ![s][1] = sent[ctr[s]][1]]
    /\ phase' = [phase EXCEPT ![s] = "store"]
    /\ UNCHANGED <<q, sent, ctr, len, true, serial>>

LoadSecond(s) ==
    /\ phase[s] = "load1"
    /\ Load(s, 1)
    /\ phase' = [phase EXCEPT ![s] = "store"]
    /\ UNCHANGED <<q, sent, ctr, len, true, serial>>

Store(s) ==
    /\ phase[s] = "store"
    /\ sent' = [sent EXCEPT ![ctr[s]] = new[s]]
    /\ \/ /\ ctr[s] = "bytes"
          /\ ctr' = [ctr EXCEPT ![s] = "msgs"]
          /\ phase' = [phase EXCEPT ![s] = "load0"]
       \/ /\ ctr[s] = "msgs"
          /\ phase' = [phase EXCEPT ![s] = "ready"]
          /\ UNCHANGED ctr
    /\ UNCHANGED <<q, len, new, true, serial>>

(***************************************************************************)
(* Chan.recv: the oldest message of the peer is taken whatever its tag;    *)
(* another tag than the expected one is the "protocol desync" assertion,   *)
(* an empty queue for the whole timeout is queue.Empty.  Both exceptions   *)
(* end the party's thread.                                                 *)
(***************************************************************************)
Recv(s, t) ==
    /\ phase[s] = "ready"
    /\ q[Peer(s)] # <<>>
    /\ q' = [q EXCEPT ![Peer(s)] = Tail(@)]
    /\ phase' = [phase EXCEPT ![s] =
                   IF Head(q[Peer(s)]).tag = t THEN "ready" ELSE "failed"]
    /\ UNCHANGED <<sent, ctr, len, new, true, serial>>

RecvTimeout(s) ==
    /\ phase[s] = "ready"
    /\ q[Peer(s)] = <<>>
    /\ phase' = [phase EXCEPT ![s] = "failed"]
    /\ UNCHANGED <<q, sent, ctr, len, new, true, serial>>

Next ==
    \E s \in Side :
        \/ \E t \in Tag, n \in Size : Put(s, t, n)
        \/ LoadFirst(s)
        \/ LoadSecond(s)
        \/ Store(s)
        \/ \E t \in Tag : Recv(s, t)
        \/ RecvTimeout(s)

Spec == Init /\ [][Next]_vars

-----------------------------------------------------------------------------
(***************************************************************************)
(* Correctness.                                                            *)
(***************************************************************************)
Message == [tag : Tag, len : Size]

\* Type invariant of the channel object and of the two sending threads.
TypeOK ==
    /\ q \in [Side -> Seq(Message)]
    /\ sent \in [Counter -> [Side -> Nat]]
    /\ phase \in [Side -> Phase]
    /\ ctr \in [Side -> Counter]
    /\ len \in [Side -> Nat]
    /\ new \in [Side -> [Side -> Nat]]
    /\ true \in [Counter -> [Side -> Nat]]
    /\ serial \in BOOLEAN

\* Whatever the interleaving of the two unlocked rebuilds of bytes_sent and
\* msgs_sent, a counter never claims more traffic than was really put
\* (Chan.send): a cost report may be too low, it is never too high.
NeverOvercounts ==
    \A c \in Counter, d \in Side : sent[c][d] <= true[c][d]

Quiet == \A s \in Side : phase[s] \notin Building

\* When no two sends have ever overlapped, the tuples are exact as soon as
\* both threads are outside send: losing an update takes two senders.
ExactWhenSerial == serial /\ Quiet => sent = true

(***************************************************************************)
(* The strengthening that makes NeverOvercounts inductive: what a thread   *)
(* has put and not yet stored is still free in the counter, and the tuple  *)
(* a thread is building leaves it free too.                                *)
(***************************************************************************)
Pending(c, d) ==
    IF phase[d] \in Building /\ (ctr[d] = c \/ ctr[d] = "bytes")
      THEN Own(d, d, c, len[d]) ELSE 0

Loaded(s, d) ==
    \/ phase[s] = "store"
    \/ phase[s] = "load1" /\ d = 0

CounterBound ==
    \A c \in Counter, d \in Side : sent[c][d] + Pending(c, d) <= true[c][d]

TupleBound ==
    \A s, d \in Side : Loaded(s, d) =>
        new[s][d] + (IF s = d THEN 0 ELSE Pending(ctr[s], d))
            <= true[ctr[s]][d]

\* The inductive form of NeverOvercounts for the unlocked rebuilds in send.
CountInv == TypeOK /\ CounterBound /\ TupleBound

\* The inductive form of ExactWhenSerial: while no two sends have overlapped
\* one thread at most is in send, what it still owes a counter is all that
\* the counter lacks, and the entries it has loaded are the true ones.
OneSends ==
    \A s, r \in Side : s # r /\ phase[s] \in Building => phase[r] \notin Building
CounterExact ==
    \A c \in Counter, d \in Side : sent[c][d] + Pending(c, d) = true[c][d]
TupleExact ==
    \A s, d \in Side : Loaded(s, d) => new[s][d] = true[ctr[s]][d]
SerialInv == TypeOK /\ (serial => OneSends /\ CounterExact /\ TupleExact)

\* What the class comment of channel.py promises without that condition:
\* "The channel counts transferred bytes".
CountsExactly == Quiet => sent["bytes"] = true["bytes"]

=============================================================================
