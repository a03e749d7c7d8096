-------------------------------- MODULE Hkdf --------------------------------
(***************************************************************************)
(* SHA-256 and HMAC as trustedari/circuits.py composes them from the       *)
(* compression function, with and without the precomputed pad states of    *)
(* ExpandOptm.  A chaining state is the sequence of the blocks compressed  *)
(* so far, so two states are equal exactly when their inputs are; a byte   *)
(* of a digest or of a padded key is a term.  A block has BB bytes instead *)
(* of 64, its length field LB instead of 8, a digest DB instead of 32.     *)
(***************************************************************************)
EXTENDS Integers, Sequences

CONSTANTS BB, LB, DB, MaxText      \* MaxText bounds the message lengths

ASSUME HashAssumption ==
    /\ BB \in Nat \ {0} /\ LB \in 1 .. BB - 1 /\ DB \in 1 .. BB
    /\ MaxText \in Nat

VARIABLES
    key, text,      \* HMAC inputs, as sequences of bytes
    pads,           \* hmac_precompute_*: the states behind both pad blocks
    mac, quick      \* hmac_sha256 and hmac_from_pc

hvars == <<key, text, pads, mac, quick>>

Bytes(kind, n) == [i \in 1 .. n |-> <<kind, i>>]

\* Mutant of Padded: the length field covers the last part only.
PaddedShort(msg, pre) ==
    msg \o <<<<"80", 0>>>>
    \o [i \in 1 .. (BB - ((pre + Len(msg) + LB + 1) % BB)) % BB |-> <<"00", 0>>]
    \o [i \in 1 .. LB |-> <<"length", Len(msg)>>]

\* The padding of sha256_from_state, with pre bytes compressed before.
Padded(msg, pre) ==
    msg \o <<<<"80", 0>>>>
    \o [i \in 1 .. (BB - ((pre + Len(msg) + LB + 1) % BB)) % BB |-> <<"00", 0>>]
    \o [i \in 1 .. LB |-> <<"length", pre + Len(msg)>>]

Compress(st, block) == Append(st, block)
Compressed(st, bytes) ==        \* the loop over the blocks
    st \o [n \in 1 .. (Len(bytes) + BB - 1) \div BB |->
              SubSeq(bytes, BB * (n - 1) + 1, BB * n)]

FromState(st, msg, pre) == Compressed(st, Padded(msg, pre))
Sha(msg) == FromState(<<>>, msg, 0)
Digest(st) == [i \in 1 .. DB |-> <<st, i>>]

Pad(pad, k) == [i \in 1 .. BB |-> IF i <= Len(k) THEN <<pad, k[i]>> ELSE <<pad, "0">>]
Hmac(k, msg) == Digest(Sha(Pad("opad", k) \o Digest(Sha(Pad("ipad", k) \o msg))))

Precompute(k) == <<Compress(<<>>, Pad("ipad", k)), Compress(<<>>, Pad("opad", k))>>
FromPads(st, msg) == Digest(FromState(st[2], Digest(FromState(st[1], msg, BB)), BB))

HkdfInit ==
    /\ \E n \in 0 .. BB : key = Bytes("key", n)
    /\ \E n \in 0 .. MaxText : text = Bytes("text", n)
    /\ pads = <<>> /\ mac = <<>> /\ quick = <<>>

Prepare ==      \* once per secret
    /\ pads = <<>>
    /\ pads' = Precompute(key)
    /\ UNCHANGED <<key, text, mac, quick>>

\* The expansions of one secret: each appends the counter byte 1.
Expand ==
    /\ pads # <<>> /\ mac = <<>>
    /\ mac' = Hmac(key, text \o <<<<"1", 1>>>>)
    /\ quick' = FromPads(pads, text \o <<<<"1", 1>>>>)
    /\ UNCHANGED <<key, text, pads>>

-----------------------------------------------------------------------------
\* ExpandOptm is HKDF-Expand: HMAC over precomputed pad states is HMAC, for
\* every key and message length, at the block boundaries too.
QuickIsPlain == quick = mac

=============================================================================
