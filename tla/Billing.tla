------------------------------- MODULE Billing -------------------------------
(***************************************************************************)
(* The billing check of trustedari/billing.py on one response record: the  *)
(* choice of a window, its decryption, the string/escape/depth automaton   *)
(* that scans the window byte by byte (forward, or backward after a        *)
(* forward pass for the escapes), and the accept bit.                      *)
(*                                                                         *)
(* A response is written down with the truth about every byte: its depth   *)
(* and whether it lies inside a string, known from how the response is     *)
(* composed and not from any scan.  The bytes are those the automaton      *)
(* tells apart: "Q" is a quote, "B" a backslash, "open" and "close" are    *)
(* braces (brackets do not count), "t" is the billed key, "x" any other    *)
(* byte.  A block has BS bytes instead of 16.                              *)
(***************************************************************************)
EXTENDS Integers, Sequences, FiniteSetsExt

CONSTANTS
    BS,         \* bytes in a cipher block
    TagLen,     \* bytes in the authentication tag behind the ciphertext
    TagByte,    \* what the bytes of a decrypted tag can be
    Echo, Id,   \* contents of the strings before and behind the usage object
    Count       \* the billed counts, as sequences of digits

ASSUME SizesAssumption == BS \in Nat \ {0} /\ TagLen \in Nat

\* The content of a JSON string: es are the positions behind an active
\* backslash, every quote is at one of them, and none is left over.
Escaped(cs) ==
    \E es \in SUBSET DOMAIN cs :
        /\ 1 \notin es
        /\ \A n \in DOMAIN cs :
             /\ n + 1 \in es <=> cs[n] = "B" /\ n \notin es
             /\ cs[n] = "Q" => n \in es

Figures == {"0", "1", "2", "3", "4", "5", "6", "7", "8", "9"}

\* The bytes of a response: those the automaton tells apart, the separators
\* and figures of the response itself, and "x".
Letters == {"Q", "B", "open", "close", "comma", "colon", "t", "x"} \cup Figures

\* What json.dumps writes.
ASSUME TextsAssumption ==
    /\ \A cs \in Echo \cup Id : cs \in Seq(Letters) /\ Escaped(cs)
    /\ \A cs \in Count : cs \in Seq(Figures)

VARIABLES
    resp,       \* the response plaintext, annotated
    tag,        \* what the bytes of the tag decrypt to
    claim,      \* the public statement: pair, depth, commitment, R's share
    win,        \* the Window
    phase,      \* "claim", "fwd", "esc", "rev", "decide", "done", "raised"
    pos,        \* the byte the scan is at, relative to the window
    inStr, escd, depth,     \* the automaton: b_prev, e_prev, d_prev
    esc,        \* the list _escapes returns
    dep,        \* d_arr: depth before each byte of the window
    accept

vars == <<resp, tag, claim, win, phase, pos, inStr, escd, depth, esc, dep,
          accept>>

-----------------------------------------------------------------------------
(***************************************************************************)
(* The provider's response (TLSProvider._respond and json.dumps).          *)
(***************************************************************************)
Outer(cs, d) == [n \in DOMAIN cs |-> [c |-> cs[n], depth |-> d, inside |-> FALSE]]
Inner(cs, d) == [n \in DOMAIN cs |-> [c |-> cs[n], depth |-> d, inside |-> TRUE]]
Str(cs, d) == Outer(<<"Q">>, d) \o Inner(cs \o <<"Q">>, d)

Response(echo, count, id) ==
    Outer(<<"open">>, 0) \o Str(echo, 1) \o Outer(<<"comma", "open">>, 1)
    \o Str(<<"t">>, 2) \o Outer(<<"colon">> \o count \o <<"close">>, 2)
    \o Outer(<<"comma">>, 1) \o Str(id, 1) \o Outer(<<"close">>, 1)

\* Plaintext of the record body, as the keystream uncovers it: the content
\* type byte follows the response, then whatever the tag turns into.
Wire == [n \in DOMAIN resp |-> resp[n].c] \o <<"x">> \o tag

Pair(v) == <<"Q", "t", "Q", "colon">> \o v
Found(v) == {n \in 0 .. Len(resp) - Len(Pair(v)) :
                \A t \in DOMAIN Pair(v) : resp[n + t].c = Pair(v)[t]}

-----------------------------------------------------------------------------
(***************************************************************************)
(* select_window: the prefix up to the pair, scanned forward, or the rest  *)
(* of the record from the pair on, scanned backward; the shorter one.      *)
(***************************************************************************)
Ceil(n) == (n + BS - 1) \div BS

\* Mutant of SelectWindow: the forward window is rounded down.
SelectWindowFloor(bodyLen, start, end) ==
    LET o   == start \div BS
        fwd == end \div BS
        rev == Ceil(bodyLen) - o
    IN  IF rev < fwd
          THEN [o |-> o, blocks |-> rev, rho |-> "rev",
                j |-> start - BS * o, k |-> end - BS * o - 1]
          ELSE [o |-> 0, blocks |-> fwd, rho |-> "fwd",
                j |-> start, k |-> end - 1]

SelectWindow(bodyLen, start, end) ==
    LET o   == start \div BS
        fwd == Ceil(end)
        rev == Ceil(bodyLen) - o
    IN  IF rev < fwd
          THEN [o |-> o, blocks |-> rev, rho |-> "rev",
                j |-> start - BS * o, k |-> end - BS * o - 1]
          ELSE [o |-> 0, blocks |-> fwd, rho |-> "fwd",
                j |-> start, k |-> end - 1]

\* _dec_window: under the wrong key share every byte is some other byte.
Window == LET bytes == SubSeq(Wire, BS * win.o + 1,
                              IF BS * (win.o + win.blocks) < Len(Wire)
                                THEN BS * (win.o + win.blocks) ELSE Len(Wire))
          IN  IF claim.share THEN bytes ELSE [n \in DOMAIN bytes |-> "garbage"]

NoWindow == [o |-> 0, blocks |-> 0, rho |-> "fwd", j |-> 0, k |-> -1]

Init ==
    /\ \E echo \in Echo, count \in Count, id \in Id :
        /\ resp = Response(echo, count, id)
        /\ \E v, w \in Count, d \in {1, 2}, com, share \in BOOLEAN :
             claim = [v |-> v, at |-> w, truth |-> count, d |-> d,
                      com |-> com, share |-> share]
    /\ tag \in [1 .. TagLen -> TagByte]
    /\ win = NoWindow
    /\ phase = "claim"
    /\ pos = 0
    /\ inStr = FALSE /\ escd = FALSE /\ depth = 0
    /\ esc = <<>> /\ dep = <<>>
    /\ accept = FALSE

\* The caller looks for the pair claim.at (bytes.index raises when there is
\* none) and both sides verify claim.v in the window found.
Select ==
    /\ phase = "claim"
    /\ IF Found(claim.at) = {}
         THEN phase' = "raised" /\ UNCHANGED win
         ELSE LET s == Min(Found(claim.at))
              IN  /\ win' = SelectWindow(Len(Wire), s, s + Len(Pair(claim.at)))
                  /\ phase' = IF win'.rho = "fwd" THEN "fwd" ELSE "esc"
    /\ UNCHANGED <<resp, tag, claim, pos, inStr, escd, depth, esc, dep, accept>>

(***************************************************************************)
(* The automaton.  d is an 8-bit number.                                   *)
(***************************************************************************)

Wrap8(n) == n % 256
One(cond) == IF cond THEN 1 ELSE 0
Toggles(c) == c = "Q" /\ ~ escd

\* Mutant of DepthAfter: braces count inside strings as well.
DepthAfterAll(c, inside, d) == Wrap8(d - One(c = "close") + One(c = "open"))

DepthAfter(c, inside, d) ==
    Wrap8(d - One(~ inside /\ c = "close") + One(~ inside /\ c = "open"))

\* Mutant of StringStep: an escaped quote ends the string.
StringStepPlain(c) ==
    /\ inStr' = (inStr # (c = "Q"))
    /\ escd' = (~ escd /\ inStr /\ c = "B")

StringStep(c) ==
    /\ inStr' = (inStr # Toggles(c))
    /\ escd' = (~ escd /\ inStr /\ c = "B")

\* _parse_fwd, one byte.
ForwardByte ==
    /\ phase = "fwd"
    /\ pos < Len(Window)
    /\ LET c == Window[pos + 1]
       IN  /\ StringStep(c)
           /\ dep' = Append(dep, depth)
           /\ depth' = DepthAfter(c, inStr, depth)
    /\ pos' = pos + 1
    /\ UNCHANGED <<resp, tag, claim, win, phase, esc, accept>>

\* Mutant of EscapeByte: the state after the byte instead of before it.
EscapeByteShifted ==
    /\ phase = "esc"
    /\ pos < Len(Window)
    /\ StringStep(Window[pos + 1])
    /\ esc' = Append(esc, escd')
    /\ pos' = pos + 1
    /\ UNCHANGED <<resp, tag, claim, win, phase, depth, dep, accept>>

\* _escapes, one byte.
EscapeByte ==
    /\ phase = "esc"
    /\ pos < Len(Window)
    /\ StringStep(Window[pos + 1])
    /\ esc' = Append(esc, escd)
    /\ pos' = pos + 1
    /\ UNCHANGED <<resp, tag, claim, win, phase, depth, dep, accept>>

EscapesDone ==
    /\ phase = "esc"
    /\ pos = Len(Window)
    /\ phase' = "rev"
    /\ inStr' = FALSE
    /\ UNCHANGED <<resp, tag, claim, win, pos, escd, depth, esc, dep, accept>>

\* _parse_rev, one byte, from the last one to the first.
BackwardByte ==
    /\ phase = "rev"
    /\ pos > 0
    /\ LET c == Window[pos]
           r == inStr # (c = "Q" /\ ~ esc[pos])
           d == Wrap8(depth - One(~ r /\ c = "open") + One(~ r /\ c = "close"))
       IN  /\ inStr' = r
           /\ depth' = d
           /\ dep' = <<d>> \o dep
    /\ pos' = pos - 1
    /\ UNCHANGED <<resp, tag, claim, win, phase, escd, esc, accept>>

ScanDone ==
    /\ \/ phase = "fwd" /\ pos = Len(Window)
       \/ phase = "rev" /\ pos = 0
    /\ phase' = "decide"
    /\ UNCHANGED <<resp, tag, claim, win, pos, inStr, escd, depth, esc, dep,
                   accept>>

(***************************************************************************)
(* The end of verify_billing: a pair of another length than the window was *)
(* made for is a failed assertion.                                         *)
(***************************************************************************)
\* Mutant of BytesOk: only the key is compared.
BytesOkKey == \A t \in 1 .. 4 : Window[win.j + t] = Pair(claim.v)[t]

BytesOk == \A t \in DOMAIN Pair(claim.v) :
              Window[win.j + t] = Pair(claim.v)[t]

DepthOk == dep[win.j + 1] = claim.d

\* Mutant of Accepts: the commitment is not looked at again.
AcceptsAnyCom == BytesOk /\ DepthOk

Accepts == claim.com /\ BytesOk /\ DepthOk

Decide ==
    /\ phase = "decide"
    /\ IF win.k - win.j + 1 = Len(Pair(claim.v))
         THEN phase' = "done" /\ accept' = Accepts
         ELSE phase' = "raised" /\ UNCHANGED accept
    /\ UNCHANGED <<resp, tag, claim, win, pos, inStr, escd, depth, esc, dep>>

Next ==
    \/ Select \/ ForwardByte \/ EscapeByte \/ EscapesDone \/ BackwardByte
    \/ ScanDone \/ Decide

Spec == Init /\ [][Next]_vars

-----------------------------------------------------------------------------
(***************************************************************************)
(* Correctness.                                                            *)
(***************************************************************************)
Scanned == phase \in {"decide", "done"}

\* select_window: the pair lies inside the window, the window inside the
\* record, and no window of the other direction is shorter.
WindowFits ==
    win # NoWindow =>
        /\ 0 <= win.j /\ win.j <= win.k /\ win.k < Len(Window)
        /\ BS * (win.o + win.blocks) < Len(Wire) + BS
        /\ \A n \in win.j .. win.k :
             BS * win.o + n \in 0 .. Len(resp) - 1
        /\ win.blocks <= Ceil(BS * win.o + win.k + 1)
        /\ win.blocks <= Ceil(Len(Wire)) - (BS * win.o + win.j) \div BS

\* _parse_fwd computes the true depth of every byte of the response in its
\* window, whatever braces, quotes and backslashes the strings contain.
ForwardExact ==
    Scanned /\ win.rho = "fwd" /\ claim.share =>
        \A n \in 1 .. Len(dep) : n <= Len(resp) => dep[n] = resp[n].depth

\* The same of the backward scan, provided that the tag happens to decrypt
\* to bytes that are no JSON and the window does not start inside a string.
BackwardExact ==
    /\ Scanned /\ win.rho = "rev" /\ claim.share
    /\ \A n \in DOMAIN tag : tag[n] \notin {"Q", "open", "close", "B"}
    /\ ~ resp[BS * win.o + 1].inside
    => \A n \in 1 .. Len(dep) : BS * win.o + n <= Len(resp) =>
           dep[n] = resp[BS * win.o + n].depth

\* A right claim that is scanned forward is accepted: the billed pair is
\* found at depth 2 under the agent's own commitment.
HonestForward ==
    /\ phase = "done" /\ win.rho = "fwd"
    /\ claim.v = claim.truth /\ claim.at = claim.v
    /\ claim.d = 2 /\ claim.com /\ claim.share
    => accept

\* What an accepted claim says is written in the response: the key and the
\* claimed digits, outside any string, under the right key share and
\* commitment, and at the claimed depth when the scan is forward.
AcceptedIsThere ==
    accept =>
        /\ claim.com /\ claim.share
        /\ BS * win.o + win.j \in Found(claim.v)
        /\ ~ resp[BS * win.o + win.j + 1].inside
        /\ win.rho = "fwd" => resp[BS * win.o + win.j + 1].depth = claim.d

\* A forged count of full length is never accepted.
ForgedRejected ==
    accept /\ Len(claim.v) = Len(claim.truth) => claim.v = claim.truth

\* What the README says of the billing proof: forged values are all
\* rejected.  Nothing compares the byte behind the claimed digits.
AcceptedIsTrue == accept => claim.v = claim.truth

\* What test_billing_rev_window asserts of an honest claim in a suffix window.
HonestBackward ==
    /\ phase = "done" /\ win.rho = "rev"
    /\ claim.v = claim.truth /\ claim.at = claim.v
    /\ claim.d = 2 /\ claim.com /\ claim.share
    => accept

=============================================================================
