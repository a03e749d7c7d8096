-------------------------------- MODULE Gcm ---------------------------------
(***************************************************************************)
(* AES-GCM as trustedari/circuits.py computes it on shares (gcm_encrypt),  *)
(* and the decryption of a window of a record by billing.py (_dec_window). *)
(* A byte is the set of the atoms it is the xor of, {} the zero byte: the  *)
(* bit of a text, or byte j of the block cipher output for counter n.  A   *)
(* tag is its mask and the blocks that go into GHASH.                      *)
(***************************************************************************)
EXTENDS Integers, Sequences

CONSTANTS
    BS,         \* bytes of a block (16)
    MaxLen      \* bound: bytes of a text; those of the associated data are
                \* at most BS

ASSUME BlockAssumption == BS \in Nat \ {0} /\ MaxLen \in Nat

VARIABLES
    plain, aad, \* the text and the associated data of one record
    sealed,     \* what gcm_encrypt returns
    window      \* a run of blocks and what _dec_window makes of it

gvars == <<plain, aad, sealed, window>>

XorSet(u, v) == (u \ v) \cup (v \ u)
Texts(n) == UNION {[1 .. m -> {{}, {<<"one", 0, 0>>}}] : m \in 0 .. n}
BlockCount(n) == (n + BS - 1) \div BS

\* Mutant of CounterOf: data starts at the counter of the tag mask.
CounterOfLow(i) == i + 1

\* Counter block of data block i: the one behind J0, whose counter is 1.
CounterOf(i) == i + 2
J0 == 1
Cipher(n, j) == {<<"E", n, j>>}

\* GCTR over the blocks from o on.
Gctr(bytes, o) ==
    [n \in DOMAIN bytes |->
        XorSet(bytes[n], Cipher(CounterOf(o + (n - 1) \div BS), (n - 1) % BS))]

Pad16(s) == s \o [n \in 1 .. (BS - (Len(s) % BS)) % BS |-> {}]
Lens(ad, ct) ==
    [n \in 1 .. BS |-> {<<"len", n, Len(IF 2 * n <= BS THEN ad ELSE ct)>>}]

\* Mutant of GhashInput: the block with the lengths is forgotten.
GhashInputBare(ad, ct) == Pad16(ad) \o Pad16(ct)

GhashInput(ad, ct) ==
    LET data == Pad16(ad) \o Pad16(ct) \o Lens(ad, ct)
    IN  SubSeq(data, 1, BS * (Len(data) \div BS))

Encrypt(ad, pt) ==
    LET ct == Gctr(pt, 0)
    IN  [ct |-> ct, mask |-> {Cipher(J0, j) : j \in 0 .. BS - 1},
         ghash |-> GhashInput(ad, ct)]

\* Mutant of DecWindow: the offset of the window is forgotten.
DecWindowFirst(bytes, o) == Gctr(bytes, 0)
DecWindow(bytes, o) == Gctr(bytes, o)

NoWindow == [o |-> -1, pt |-> <<>>]

GcmInit ==
    /\ plain \in Texts(MaxLen) /\ aad \in Texts(BS)
    /\ sealed = <<>> /\ window = NoWindow

Seal ==
    /\ sealed = <<>>
    /\ sealed' = <<Encrypt(aad, plain)>>
    /\ UNCHANGED <<plain, aad, window>>

OpenWindow ==
    /\ sealed # <<>> /\ window = NoWindow
    /\ \E o, len \in 0 .. BlockCount(Len(plain)) :
        /\ o + len <= BlockCount(Len(plain))
        /\ LET ct   == sealed[1].ct
               last == IF BS * (o + len) < Len(ct) THEN BS * (o + len) ELSE Len(ct)
           IN  window' = [o |-> o, pt |-> DecWindow(SubSeq(ct, BS * o + 1, last), o)]
    /\ UNCHANGED <<plain, aad, sealed>>

GcmNext == Seal \/ OpenWindow

-----------------------------------------------------------------------------
\* The blocks billing decrypts on their own, at any offset, are those bytes of
\* the text gcm_encrypt (and a TLS library) sealed.
WindowIsSlice ==
    \A n \in DOMAIN window.pt : window.pt[n] = plain[BS * window.o + n]

\* No two bytes of a record are xored with the same byte of the block cipher,
\* and none with a byte of the mask that hides the tag.
KeystreamOnce ==
    sealed # <<>> =>
        LET pad(n) == XorSet(sealed[1].ct[n], plain[n])
        IN  \A n \in DOMAIN plain :
                /\ pad(n) \notin sealed[1].mask
                /\ \A m \in DOMAIN plain : pad(n) = pad(m) => n = m

\* GHASH tells records apart: no other text and associated data, of whatever
\* lengths, fill the same blocks.
TagBinds ==
    sealed # <<>> =>
        \A ad \in Texts(BS), pt \in Texts(MaxLen) :
            GhashInput(ad, Gctr(pt, 0)) = sealed[1].ghash
                => ad = aad /\ pt = plain

=============================================================================
