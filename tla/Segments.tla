------------------------------ MODULE Segments ------------------------------
(***************************************************************************)
(* make_segment of trustedari/query.py, run by both parties in two threads *)
(* for the segments of one template, with share_bytes, share_arith and     *)
(* _pad_share_bytes below it.  Which side sends and which one receives is  *)
(* decided by theta, by the side and, for Xs, by who passes g.             *)
(*                                                                         *)
(* A part has theta, the capacity h, and for each side the content and the *)
(* g it passes, <<>> and NoG for None.  A byte is a bit.  A recv that      *)
(* finds another tag raises; here the thread stops, so that SegmentsMade   *)
(* says that it does not happen.                                           *)
(***************************************************************************)
EXTENDS Integers, Sequences

CONSTANTS
    Templates,  \* the templates the callers pass
    LenMod      \* 2^GK

Sides == {0, 1}
NoG == -1
PubLen == {"P", "Af", "Rf", "Xf"}

\* What the docstring asks of the callers: no content is longer than h, the
\* owner passes g, and of an Xs segment one side does.
Legal(e) ==
    /\ e.theta \in PubLen \cup {"As", "Rs", "Xs"}
    /\ e.h \in 0 .. LenMod - 1
    /\ \A s \in Sides : e.c[s] \in Seq({0, 1}) /\ Len(e.c[s]) <= e.h
    /\ e.theta = "P" => e.c[0] = e.c[1]
    /\ e.theta = "As" => e.g[0] = Len(e.c[0])
    /\ e.theta = "Rs" => e.g[1] = Len(e.c[1])
    /\ e.theta = "Xs" => \E s \in Sides : e.g[s] \in 0 .. e.h /\ e.g[1 - s] = NoG

ASSUME TemplateAssumption ==
    /\ LenMod \in Nat \ {0}
    /\ \A t \in Templates : t \in Seq({t[n] : n \in DOMAIN t})
    /\ \A t \in Templates : \A n \in DOMAIN t : Legal(t[n])

VARIABLES
    backend,    \* pc.mode
    parts,      \* the template
    bytes,      \* bytes[s]: byte shares of the segments side s has
    lens,       \* lens[s]: their g, or a share of it
    sentPad,    \* sentPad[s]: s waits for the other pad of an Xf or Xs
    chq,        \* chq[s]: messages of s that are under way
    ctr         \* _split_ctr

svars == <<backend, parts, bytes, lens, sentPad, chq, ctr>>

BXor(u, w) == [i \in DOMAIN u |-> (u[i] + w[i]) % 2]
LSub(u, w) == (u - w) % LenMod
Diff(tag, u, w) == IF tag = "shb" THEN BXor(u, w) ELSE LSub(u, w)
PadContent(s, e) == e.c[s] \o [i \in 1 .. e.h - Len(e.c[s]) |-> 0]

SegInit ==
    /\ backend \in {"ot", "sim"} /\ parts \in Templates
    /\ bytes = [s \in Sides |-> <<>>] /\ lens = [s \in Sides |-> <<>>]
    /\ sentPad = [s \in Sides |-> FALSE]
    /\ chq = [s \in Sides |-> <<>>] /\ ctr = [s \in Sides |-> 0]

Puts(s, tag, val) == chq' = [chq EXCEPT ![s] = Append(@, [tag |-> tag, val |-> val])]
Fetches(s, tag) ==
    /\ chq[1 - s] # <<>> /\ Head(chq[1 - s]).tag = tag
    /\ chq' = [chq EXCEPT ![1 - s] = Tail(@)]
Here(s) == Head(chq[1 - s]).val

\* _det: any fixed function of the counter.
Det(n) == n
DetBits(n, h) == [i \in 1 .. h |-> Det(n) % 2]

\* share_bits and share_arith: v is the share that side s ends up with.
SharedAs(s, owner, value, tag, Masks, pad, v) ==
    IF backend = "sim"
      THEN /\ IF owner
                THEN /\ Puts(s, "sim.t", value)
                     /\ v = IF s = 0 THEN pad ELSE Diff(tag, value, pad)
                ELSE /\ Fetches(s, "sim.t")
                     /\ v = IF s = 0 THEN pad ELSE Diff(tag, Here(s), pad)
           /\ ctr' = [ctr EXCEPT ![s] = @ + 1]
      ELSE /\ IF owner THEN \E r \in Masks : Puts(s, tag, r) /\ v = Diff(tag, value, r)
                       ELSE Fetches(s, tag) /\ v = Here(s)
           /\ UNCHANGED ctr

Now(s) == parts[Len(lens[s]) + 1]
Holds(s, v) == bytes' = [bytes EXCEPT ![s] = Append(@, v)]
AtBytes(s) == Len(bytes[s]) = Len(lens[s]) /\ Len(lens[s]) < Len(parts)

\* Mutant of Owner: the relay's contents are taken for the agent's.
OwnerAgent(s, theta) ==
    (theta \in {"Af", "As", "Rs"} /\ s = 0) \/ (theta = "Rf" /\ s = 1)

Owner(s, theta) ==
    (theta \in {"Af", "As"} /\ s = 0) \/ (theta \in {"Rf", "Rs"} /\ s = 1)

\* Mutant of GOwner: the length of an Xs segment has no owner.
GOwnerNotXs(s, e) == Owner(s, e.theta)

GOwner(s, e) == Owner(s, e.theta) \/ (e.theta = "Xs" /\ e.g[s] # NoG)

\* The bytes of theta P, and of the pads of Xf and Xs in mode "ot": no message.
MakeAlone(s) ==
    /\ AtBytes(s) /\ ~ sentPad[s]
    /\ LET e == Now(s)
           padded == PadContent(s, e)
       IN  \/ /\ e.theta = "P"
              /\ Holds(s, IF s = 0 THEN padded ELSE [i \in 1 .. e.h |-> 0])
           \/ /\ e.theta \in {"Xf", "Xs"} /\ backend = "ot"
              /\ Holds(s, padded)
    /\ UNCHANGED <<backend, parts, lens, sentPad, chq, ctr>>

MakeOwned(s) ==
    /\ AtBytes(s)
    /\ LET e == Now(s)
           Strings == [1 .. e.h -> {0, 1}]
       IN  /\ e.theta \in {"Af", "Rf", "As", "Rs"}
           /\ \E v \in Strings :
                /\ SharedAs(s, Owner(s, e.theta), PadContent(s, e), "shb", Strings,
                            DetBits(ctr[s] + 1, e.h), v)
                /\ Holds(s, v)
    /\ UNCHANGED <<backend, parts, lens, sentPad>>

\* _pad_share_bytes in mode "sim": both send, then both receive; every byte
\* is split on its own.
SendPad(s) ==
    /\ AtBytes(s) /\ ~ sentPad[s] /\ backend = "sim"
    /\ Now(s).theta \in {"Xf", "Xs"}
    /\ Puts(s, "sim.t", PadContent(s, Now(s)))
    /\ sentPad' = [sentPad EXCEPT ![s] = TRUE]
    /\ UNCHANGED <<backend, parts, bytes, lens, ctr>>

TakePad(s) ==
    /\ sentPad[s]
    /\ Fetches(s, "sim.t")
    /\ LET own == PadContent(s, Now(s))
           pad == [i \in DOMAIN own |-> Det(ctr[s] + i) % 2]
       IN  /\ Holds(s, IF s = 0 THEN pad ELSE BXor(BXor(own, Here(s)), pad))
           /\ ctr' = [ctr EXCEPT ![s] = @ + Len(own)]
    /\ sentPad' = [sentPad EXCEPT ![s] = FALSE]
    /\ UNCHANGED <<backend, parts, lens>>

\* g: public, or shared by its owner.
MakeLen(s) ==
    /\ Len(bytes[s]) > Len(lens[s])
    /\ LET e == Now(s)
       IN  IF e.theta \in PubLen
             THEN /\ lens' = [lens EXCEPT ![s] = Append(@, e.h)]
                  /\ UNCHANGED <<chq, ctr>>
             ELSE \E v \in 0 .. LenMod - 1 :
                    /\ SharedAs(s, GOwner(s, e), e.g[s], "sha", 0 .. LenMod - 1,
                                Det(ctr[s] + 1) % LenMod, v)
                    /\ lens' = [lens EXCEPT ![s] = Append(@, v)]
    /\ UNCHANGED <<backend, parts, bytes, sentPad>>

Makes(s) == MakeAlone(s) \/ MakeOwned(s) \/ SendPad(s) \/ TakePad(s) \/ MakeLen(s)
SegNext == \E s \in Sides : Makes(s)
SegSpec == SegInit /\ [][SegNext]_svars /\ \A s \in Sides : WF_svars(Makes(s))

-----------------------------------------------------------------------------
(***************************************************************************)
(* Correctness.                                                            *)
(***************************************************************************)
\* The content a part stands for, and its true length.
Meant(e) ==
    [i \in 1 .. e.h |->
        LET at(s) == IF i <= Len(e.c[s]) THEN e.c[s][i] ELSE 0
        IN  CASE e.theta \in {"P", "Af", "As"} -> at(0)
              [] e.theta \in {"Rf", "Rs"} -> at(1)
              [] e.theta \in {"Xf", "Xs"} -> (at(0) + at(1)) % 2]
MeantLen(e) ==
    CASE e.theta = "As" -> e.g[0] [] e.theta = "Rs" -> e.g[1]
      [] e.theta = "Xs" -> IF e.g[0] = NoG THEN e.g[1] ELSE e.g[0]

\* What both parties have made of a part joins to the owner's content, filled
\* up to h, or to the xor of the pads, and its length shares to the length the
\* owner gave, in either backend and however the threads interleave.
SegmentsAgree ==
    \A n \in DOMAIN parts :
        /\ n <= Len(bytes[0]) /\ n <= Len(bytes[1]) =>
             BXor(bytes[0][n], bytes[1][n]) = Meant(parts[n])
        /\ n <= Len(lens[0]) /\ n <= Len(lens[1]) =>
             IF parts[n].theta \in PubLen
               THEN lens[0][n] = parts[n].h /\ lens[1][n] = parts[n].h
               ELSE (lens[0][n] + lens[1][n]) % LenMod = MeantLen(parts[n])

\* No side waits for a message the other one does not send, and none is left
\* over for the operations that follow.
SegmentsMade ==
    <>(\A s \in Sides : Len(lens[s]) = Len(parts) /\ chq[s] = <<>>)

=============================================================================
