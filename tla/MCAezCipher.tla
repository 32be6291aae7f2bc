---------------------------- MODULE MCAezCipher ----------------------------
(***************************************************************************)
(* Checks _aez_decrypt of btcrecover/aezeed.py against AEZ encryption for *)
(* every message of a bounded set.  The repository only decrypts, so      *)
(* encryption is built here from the code's own encipher and aez_prf the  *)
(* way AEZ defines it: the message followed by tau zero bytes is          *)
(* enciphered, and the empty message becomes the PRF output.              *)
(*                                                                         *)
(* The key is a fixed 48-byte extracted key (_extract_key's blake2b is    *)
(* not modelled), the associated data is the one decode_mnemonic passes:  *)
(* the version byte and a 5-byte salt, and tau is CipherTextExpansion.    *)
(* The variables are the message and its ciphertext; Next leaves them    *)
(* alone, so every reachable state is one message and the properties are *)
(* checked on each.                                                       *)
(***************************************************************************)
EXTENDS AezCipher

CONSTANTS
    MinLen,  \* shortest message
    MaxLen,  \* longest message
    Seeds    \* message contents: byte k of message (n, c) is 37 * k + c

Key == <<3, 10, 17, 24, 31, 38, 45, 52, 59, 66, 73, 80, 87, 94, 101, 108,
         115, 122, 129, 136, 143, 150, 157, 164, 171, 178, 185, 192, 199, 206,
         213, 220, 227, 234, 241, 248, 255, 6, 13, 20, 27, 34, 41, 48, 55, 62,
         69, 76>>
AD == <<<<0, 17, 34, 51, 68, 85>>>>
Tau == 4

St == AezInit(Key)
Delta == AezHash(St, <<>>, AD, Tau * 8)

Message(n, c) == [k \in 1..n |-> ((37 * k) + c) % 256]
Messages == {Message(n, c) : n \in MinLen..MaxLen, c \in Seeds}

Encrypt(m) ==
    IF m = <<>> THEN AezPrf(St, Delta, Tau)
    ELSE Encipher(St, Delta, m \o Zeros(Tau))

\* The ciphertexts that differ from c in the lowest bit of one byte.
Forgeries(c) == {[c EXCEPT ![k] = XorByte(@, 1)] : k \in 1..Len(c)}

VARIABLES msg, ct

Init == msg \in Messages /\ ct = Encrypt(msg)
Next == UNCHANGED <<msg, ct>>
Spec == Init /\ [][Next]_<<msg, ct>>

-----------------------------------------------------------------------------
\* The ciphertext is a byte string tau bytes longer than the message.
TypeOK == ct \in [1..(Len(msg) + Tau) -> Byte]

(***************************************************************************)
(* Decryption inverts encryption: _aez_decrypt of the ciphertext of m,    *)
(* with the same key and AD, succeeds and returns m.  This needs          *)
(* decipher to undo encipher in aez_tiny / aez_core (round order, the     *)
(* round counter, the odd-length nibble shift, the whitening bit) and the *)
(* tag check to find the tau zero bytes again.                            *)
(***************************************************************************)
DecryptInvertsEncrypt ==
    AezDecryptWith(St, Delta, Tau, ct) = [ok |-> TRUE, plaintext |-> msg]

(***************************************************************************)
(* Authenticity: _aez_decrypt returns None for every ciphertext obtained  *)
(* from a genuine one by flipping one bit, because the deciphered tag    *)
(* bytes are no longer all zero (or, for the empty message, the PRF      *)
(* output no longer matches).                                             *)
(***************************************************************************)
ForgeryRejected ==
    \A f \in Forgeries(ct) : ~AezDecryptWith(St, Delta, Tau, f).ok

\* Spec section 4.6: for a fragment of 16 or more bytes aez_core adds
\* AES4(0, I1, L4, frag[0..16]) and AES4(0, I1, L5, pad(frag[16..])) to X.
SpecFragmentX(st, tail, frag, X) ==
    IF frag >= BLOCK_SIZE
    THEN XorBlock(XorBlock(X, AES4(st, ZERO_BLOCK, Ib(st, 1), Lb(st, 4), SubSeq(tail, 1, 16))),
                  AES4(st, ZERO_BLOCK, Ib(st, 1), Lb(st, 5),
                       OneZeroPad(SubSeq(tail, 17, Len(tail)), frag - BLOCK_SIZE)))
    ELSE CoreFragmentX(st, tail, frag, X)

FragmentXAgrees(tail, frag) ==
    CoreFragmentX(St, tail, frag, ZERO_BLOCK) = SpecFragmentX(St, tail, frag, ZERO_BLOCK)

(***************************************************************************)
(* aez_core's X contribution of the final fragment is the one of spec     *)
(* section 4.6.  The code's tail (initial_bytes = n - frag - 32) starts   *)
(* at the fragment, which precedes the final pair, yet the code feeds     *)
(* tail[16:32] to AES4 with L4, not the fragment's first block.           *)
(***************************************************************************)
CoreFragmentXMatchesSpec ==
    LET n == Len(ct)
        frag == n % 32
    IN n >= 32 => FragmentXAgrees(SubSeq(msg \o Zeros(Tau), n - frag - 31, n), frag)
=============================================================================
