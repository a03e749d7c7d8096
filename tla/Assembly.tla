------------------------------ MODULE Assembly ------------------------------
(***************************************************************************)
(* The assembly of a query from template segments (trustedari/query.py):   *)
(* make_segment, the merge order plan_assembly computes, and the merges    *)
(* assemble runs, ldc behind a left part of public length and shc behind   *)
(* one whose length is shared.  Bytes are the values the shares join to;   *)
(* PAD is 0, and no content byte is.                                       *)
(*                                                                         *)
(* A segment is "fixed" (theta P, Af, Rf, Xf: its length is public and its *)
(* padding counts as content), "hidden" (As, Rs, Xs) or made by i2s, whose *)
(* Seg has a shared length that is always its full one, and which callers  *)
(* that pass their own plan declare to be of fixed length.                 *)
(***************************************************************************)
EXTENDS Integers, Sequences, FiniteSetsExt, SequencesExt

CONSTANTS
    MaxSegs,    \* bound: segments of a template
    Parts,      \* what a segment can be: kind, capacity h and true length
    LenBits          \* bits of a shared length (16)

TwoTo[k \in 0 .. LenBits] == IF k = 0 THEN 1 ELSE 2 * TwoTo[k - 1]

ASSUME AssemblyAssumption ==
    /\ MaxSegs \in Nat \ {0} /\ LenBits \in Nat
    /\ \A p \in Parts :
        /\ p.kind \in {"fixed", "hidden", "i2s"}
        /\ p.h \in Nat /\ p.len \in 0 .. p.h      \* what the callers pass
        /\ p.kind = "i2s" => p.len = p.h /\ p.h > 0
        /\ MaxSegs * p.h < TwoTo[LenBits]

VARIABLES
    tmpl,       \* the template
    width,      \* width of the ranges plan_assembly fills in next
    G, K,       \* its tables
    steps,      \* the plan
    next,       \* index of the step assemble runs next
    tab,        \* tab[<<i, j>>]: the merged segment of parts i to j
    cost,       \* history: what the shc calls so far cost, in muxed bytes
    fate        \* "plan", "merge", "done" or "raised"

vars == <<tmpl, width, G, K, steps, next, tab, cost, fate>>

PAD == 0
L == Len(tmpl)
Ranges == (1 .. L) \X (1 .. L)
Pads(n) == [m \in 1 .. n |-> PAD]
Content(n) == [m \in 1 .. tmpl[n].len |-> 10 * n + m]
Text(n) ==      \* the bytes part n stands for in the query
    IF tmpl[n].kind = "fixed" THEN Content(n) \o Pads(tmpl[n].h - tmpl[n].len)
                              ELSE Content(n)

(***************************************************************************)
(* make_segment.  pub says that Seg.g is an int.                           *)
(***************************************************************************)
Segment(n) ==
    [s |-> Content(n) \o Pads(tmpl[n].h - tmpl[n].len), h |-> tmpl[n].h,
     pub |-> tmpl[n].kind = "fixed",
     g |-> IF tmpl[n].kind = "fixed" THEN tmpl[n].h ELSE tmpl[n].len]
NoSegment == [s |-> <<>>, h |-> -1, pub |-> FALSE, g |-> -1]

Init ==
    /\ \E n \in 1 .. MaxSegs :
         tmpl \in [1 .. n -> Parts]
    /\ tab = [ij \in Ranges |->
                IF ij[1] = ij[2] THEN Segment(ij[1]) ELSE NoSegment]
    /\ width = 2
    /\ G = [ij \in Ranges |-> 0] /\ K = [ij \in Ranges |-> 0]
    /\ steps = <<>> /\ next = 1
    /\ cost = 0
    /\ fate = "plan"

-----------------------------------------------------------------------------
(***************************************************************************)
(* plan_assembly: G[i, j] is the least cost of merging parts i to j, K the *)
(* split that attains it, filled in by growing width.                      *)
(***************************************************************************)
CeilLog2(n) == Min({k \in 0 .. LenBits : TwoTo[k] >= n})
Levels == [n \in 1 .. TwoTo[LenBits] |-> Max({1, CeilLog2(n)})]

DeclaredPub(i, j) == \A n \in i .. j : tmpl[n].kind # "hidden"
HSum(i, j) == LET sum[n \in i - 1 .. j] ==
                    IF n < i THEN 0 ELSE sum[n - 1] + tmpl[n].h
              IN  sum[j]

\* Mutant of Delta: a public range on either side makes the merge free.
DeltaEither(i, k, j) ==
    IF DeclaredPub(i, k) \/ DeclaredPub(k + 1, j) THEN 0
    ELSE HSum(i, j) * Levels[HSum(i, j)]

Delta(i, k, j) ==
    IF DeclaredPub(i, k) THEN 0 ELSE HSum(i, j) * Levels[HSum(i, j)]

Through(i, k, j) == G[<<i, k>>] + G[<<k + 1, j>>] + Delta(i, k, j)

\* The first split of i..j that is cheapest.
Split(i, j) ==
    CHOOSE k \in i .. j - 1 : \A m \in i .. j - 1 :
        \/ Through(i, k, j) < Through(i, m, j)
        \/ Through(i, k, j) = Through(i, m, j) /\ k <= m

\* log2(0) raises: a hidden left range in front of a range, both of height 0.
NoLog == \E i, k, j \in 1 .. L :
            i <= k /\ k < j /\ ~ DeclaredPub(i, k) /\ HSum(i, j) = 0

PlanWidth ==
    /\ fate = "plan"
    /\ width <= L
    /\ ~ NoLog
    /\ LET Here == {ij \in Ranges : ij[2] = ij[1] + width - 1}
       IN  /\ K' = [ij \in Ranges |-> IF ij \in Here
                                        THEN Split(ij[1], ij[2]) ELSE K[ij]]
           /\ G' = [ij \in Ranges |-> IF ij \in Here
                       THEN Through(ij[1], K'[ij], ij[2]) ELSE G[ij]]
    /\ width' = width + 1
    /\ UNCHANGED <<tmpl, steps, next, tab, cost, fate>>

\* emit: the merges of both halves, then the merge of the halves.
\* Mutant of Emitted: the merge before its operands.
EmittedFirst ==
    LET emit[ij \in Ranges] ==
          LET i == ij[1]
              j == ij[2]
          IN  IF i >= j THEN <<>>
              ELSE <<<<i, K[ij], j>>>>
                   \o emit[<<i, K[ij]>>] \o emit[<<K[ij] + 1, j>>]
    IN  emit[<<1, L>>]

Emitted ==
    LET emit[ij \in Ranges] ==
          LET i == ij[1]
              j == ij[2]
          IN  IF i >= j THEN <<>>
              ELSE emit[<<i, K[ij]>>] \o emit[<<K[ij] + 1, j>>]
                   \o <<<<i, K[ij], j>>>>
    IN  emit[<<1, L>>]

Plan ==
    /\ fate = "plan"
    /\ \/ NoLog /\ fate' = "raised" /\ UNCHANGED steps
       \/ ~ NoLog /\ width > L /\ fate' = "merge" /\ steps' = Emitted
    /\ UNCHANGED <<tmpl, width, G, K, next, tab, cost>>

-----------------------------------------------------------------------------
(***************************************************************************)
(* The two concatenations.                                                 *)
(***************************************************************************)

LdcOf(el, er) ==
    [s |-> el.s \o er.s, h |-> el.h + er.h, pub |-> er.pub,
     g |-> (el.g + er.g) % TwoTo[LenBits]]

\* blind_rotate_left: by the low bits of d, filling up with zeros.
RotateLeft(v, d) ==
    [n \in DOMAIN v |-> IF n + d <= Len(v) THEN v[n + d] ELSE 0]

\* Mutant of Distance: the true length, not what is missing from it.
DistanceTrue(el, k) == el.g % TwoTo[k]

Distance(el, k) == ((el.h - el.g) % TwoTo[LenBits]) % TwoTo[k]

\* The xor of two rows of bytes, as far as one of them is padding.
XorPads(va, vb) ==
    [n \in DOMAIN va |->
        IF va[n] = PAD THEN vb[n] ELSE IF vb[n] = PAD THEN va[n] ELSE -1]

ShcOf(el, er) ==
    LET hm == el.h + er.h
        va == el.s \o Pads(er.h)
        vb == RotateLeft(Pads(el.h) \o er.s, Distance(el, Levels[hm]))
    IN  [s |-> XorPads(va, vb), h |-> hm, pub |-> FALSE,
         g |-> (el.g + er.g) % TwoTo[LenBits]]

Operand(n) == LET st == steps[next]
              IN  IF n = 1 THEN tab[<<st[1], st[2]>>]
                           ELSE tab[<<st[2] + 1, st[3]>>]

\* One round of assemble's loop; an operand that is still None raises.
Merge ==
    /\ fate = "merge"
    /\ next <= Len(steps)
    /\ LET el == Operand(1)
           er == Operand(2)
           hm == el.h + er.h
       IN  IF el = NoSegment \/ er = NoSegment
             THEN fate' = "raised" /\ UNCHANGED <<tab, cost, next>>
             ELSE /\ tab' = [tab EXCEPT ![<<steps[next][1], steps[next][3]>>] =
                               IF el.pub THEN LdcOf(el, er) ELSE ShcOf(el, er)]
                  /\ cost' = cost + IF el.pub THEN 0 ELSE hm * Levels[hm]
                  /\ next' = next + 1
                  /\ UNCHANGED fate
    /\ UNCHANGED <<tmpl, width, G, K, steps>>

Finish ==
    /\ fate = "merge"
    /\ next > Len(steps)
    /\ fate' = "done"
    /\ UNCHANGED <<tmpl, width, G, K, steps, next, tab, cost>>

Next == PlanWidth \/ Plan \/ Merge \/ Finish
Spec == Init /\ [][Next]_vars /\ WF_vars(Next)

-----------------------------------------------------------------------------
(***************************************************************************)
(* Correctness.                                                            *)
(***************************************************************************)

\* Whatever the merge order and the mixture of ldc and shc, a merged range
\* holds the texts of its parts without a gap, in order, and only padding
\* behind them; its length share says where the text ends.
RangeIsText ==
    \A i, j \in 1 .. L : i <= j /\ tab[<<i, j>>] # NoSegment =>
        LET text == FlattenSeq([n \in 1 .. j - i + 1 |-> Text(i + n - 1)])
        IN  /\ tab[<<i, j>>].g = Len(text)
            /\ tab[<<i, j>>].s = text \o Pads(tab[<<i, j>>].h - Len(text))

\* Parts i to k and parts k + 1 to j are two segments next to each other
\* while cuts still separate the parts.
Neighbouring(cuts) ==
    {m \in (1 .. L) \X (1 .. L) \X (1 .. L) :
        /\ m[1] <= m[2] /\ m[2] < m[3]
        /\ (m[1] - 1 .. m[3]) \cap (cuts \cup {0, L}) = {m[1] - 1, m[2], m[3]}}

\* Merging them costs nothing when all of the left one has a public length.
MergeCost(m) ==
    IF \A n \in m[1] .. m[2] : tmpl[n].kind = "fixed" THEN 0
    ELSE HSum(m[1], m[3]) * Levels[HSum(m[1], m[3])]

\* The cheapest of all orders in which the cuts can be merged away.
Cheapest ==
    LET least[cuts \in SUBSET (1 .. L - 1)] ==
          IF cuts = {} THEN 0
          ELSE Min({MergeCost(m) + least[cuts \ {m[2]}] : m \in Neighbouring(cuts)})
    IN  least[1 .. L - 1]

Declared == \A n \in 1 .. L : tmpl[n].kind # "i2s"

\* What the merges really cost is what the cheapest of all merge orders
\* costs: the DP's view of which ranges have a public length is the one
\* assemble finds at run time, if the template tells the truth about i2s.
CostIsLeast == fate = "done" /\ Declared => cost = Cheapest

\* Every template is assembled to the end: plan_assembly never uses a range
\* before it is merged, and the one way to fail is the logarithm of 0, which
\* raises before anything has been sent.
WholeQuery == NoLog \/ <>(fate = "done" /\ tab[<<1, L>>] # NoSegment)

=============================================================================
