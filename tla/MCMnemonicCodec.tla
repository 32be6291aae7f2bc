--------------------------- MODULE MCMnemonicCodec ---------------------------
(***************************************************************************)
(* Checks the aezeed decoder on mnemonics made the way lnd makes them:    *)
(* plaintext = internal version, birthday (big-endian), 16 bytes of       *)
(* entropy; enciphered with AEZ under the key of the passphrase and salt  *)
(* with the version byte and salt as AD; the 33 bytes are version,        *)
(* ciphertext, salt and the CRC-32C of those 29 bytes; the words are the  *)
(* 11-bit groups of the 264 bits.  The repository has no encoder, so it   *)
(* is written here from that layout.  Each state is one such mnemonic,    *)
(* possibly corrupted, and the passphrase it is decoded with.             *)
(***************************************************************************)
EXTENDS MnemonicCodec

\* Two passphrases (0 is "", 1 a user passphrase) give different keys.
MCKdf(pass, salt) == [k \in 1..48 |-> ((7 * k) + (50 * pass) + salt[1] + (3 * salt[5])) % 256]

Entropies == {[k \in 1..16 |-> (11 * k) % 256], [k \in 1..16 |-> (255 - (13 * k)) % 256]}
Birthdays == {4660}   \* 0x1234: its two bytes differ
SaltValues == {<<1, 2, 3, 4, 5>>, <<200, 0, 77, 9, 250>>}

\* corrupt: 0 none, 1..24 word k changed, 25 the last word dropped, 26 an
\* unknown fifth word.
Corruptions == {0, 1, 2, 12, 20, 24, 25, 26}
Inputs == [ent : Entropies, bday : Birthdays, salt : SaltValues, version : {0, 1},
           pass : {0, 1}, dpass : {0, 1}, corrupt : Corruptions]

-----------------------------------------------------------------------------
(* The encoder.                                                            *)
Plaintext(i) == <<0, i.bday \div 256, i.bday % 256>> \o i.ent

WithCrc(body) == body \o Crc32c(body)

\* The enciphered seed under the AEZ state st: version || ciphertext || salt || crc.
EncodeUnder(i, st) ==
    WithCrc(<<i.version>>
            \o Encipher(st, AezHash(st, <<>>, <<<<i.version>> \o i.salt>>, CipherTextExpansion * 8),
                        Plaintext(i) \o Zeros(CipherTextExpansion))
            \o i.salt)

EncodeBytes(i) == EncodeUnder(i, AezInit(MCKdf(i.pass, i.salt)))

\* Bit t (0 = most significant) of a byte string, of a word list.
ByteBit(cb, t) == (cb[(t \div 8) + 1] \div 2^(7 - (t % 8))) % 2
WordBit(w, t) == (w[(t \div 11) + 1] \div 2^(10 - (t % 11))) % 2

RECURSIVE BitsValue(_, _)
BitsValue(bits, acc) == IF bits = <<>> THEN acc ELSE BitsValue(Tail(bits), 2 * acc + Head(bits))

EncodeWords(cb) ==
    [k \in 1..24 |-> BitsValue([b \in 1..11 |-> ByteBit(cb, (11 * (k - 1)) + b - 1)], 0)]

\* The words of bytes b with damage c.
Words(b, c) ==
    LET w == EncodeWords(b)
    IN CASE c = 0  -> w
         [] c <= 24 -> [w EXCEPT ![c] = (@ + 1) % 2048]
         [] c = 25 -> SubSeq(w, 1, 23)
         [] OTHER  -> [w EXCEPT ![5] = Unknown]

\* Reference packing: byte k holds bits 8(k-1) .. 8k-1 of the word stream.
RefPack(w) == [k \in 1..33 |-> BitsValue([b \in 1..8 |-> WordBit(w, (8 * (k - 1)) + b - 1)], 0)]

\* Reference CRC-32C: the reflected bit-serial definition on a list of 32
\* bits, least significant first.
ToBits(c) == [t \in 1..32 |-> (c[4 - ((t - 1) \div 8)] \div 2^((t - 1) % 8)) % 2]
FromBits(b) == [k \in 1..4 |-> BitsValue([j \in 1..8 |-> b[(8 * (4 - k)) + 9 - j]], 0)]
PolyBits == ToBits(<<130, 246, 59, 120>>)
XorBits(a, b) == [t \in 1..32 |-> (a[t] + b[t]) % 2]

\* (The length tests make TLC evaluate b at each step, not at the end.)
RECURSIVE SerialShift(_, _)
SerialShift(b, n) ==
    IF n = 0 \/ Len(b) # 32 THEN b
    ELSE LET s == SubSeq(b, 2, 32) \o <<0>>
         IN SerialShift(IF b[1] = 1 THEN XorBits(s, PolyBits) ELSE s, n - 1)

RECURSIVE SerialCrc(_, _)
SerialCrc(b, data) ==
    IF data = <<>> \/ Len(b) # 32 THEN b
    ELSE SerialCrc(SerialShift(XorBits(b, ToBits(<<0, 0, 0, Head(data)>>)), 8), Tail(data))

RefCrc32c(data) == FromBits([t \in 1..32 |-> 1 - SerialCrc([u \in 1..32 |-> 1], data)[t]])

\* The CRC-32C check value: "123456789" gives 0xE3069283.
ASSUME RefCrc32c(<<49, 50, 51, 52, 53, 54, 55, 56, 57>>) = <<227, 6, 146, 131>>

(* One state per input: the input, its 33 bytes, the (possibly damaged)  *)
(* words and what decode_mnemonic makes of them, each computed once.      *)
VARIABLES
    in,   \* the mnemonic's inputs and the passphrase it is decoded with
    cb,   \* the 33 enciphered-seed bytes lnd writes
    W,    \* the words given to the decoder
    dec   \* decode_mnemonic(W, in.dpass)

Init ==
    /\ in \in Inputs
    /\ cb = EncodeBytes(in)
    /\ W = Words(cb, in.corrupt)
    /\ dec = DecodeMnemonic(W, in.dpass)

Next == UNCHANGED <<in, cb, W, dec>>
Spec == Init /\ [][Next]_<<in, cb, W, dec>>

-----------------------------------------------------------------------------
\* mnemonic_to_bytes of 24 known words yields 33 bytes, and
\* decode_mnemonic returns a DecipheredCipherSeed of a 16-byte entropy, a
\* 5-byte salt and a 16-bit birthday, or raises one of its two errors.
TypeOK ==
    /\ MnemonicToBytes(W).ok => MnemonicToBytes(W).bytes \in [1..EncipheredCipherSeedSize -> Byte]
    /\ dec.kind \in {"ok", "InvalidMnemonic", "InvalidPassphrase"}
    /\ dec.kind = "ok" =>
          /\ dec.seed.entropy \in [1..(DecipheredCipherSeedSize - 3) -> Byte]
          /\ dec.seed.salt \in [1..SaltSize -> Byte]
          /\ dec.seed.birthday \in 0..65535

(***************************************************************************)
(* The bit accumulator of mnemonic_to_bytes (shift in 11 bits, take bytes *)
(* off the top, mask the rest) puts bit t of the word stream at bit t of  *)
(* the byte string, across all 8 alignments of words and bytes.           *)
(***************************************************************************)
PackMatchesBitstream ==
    MnemonicToBytes(W).ok => MnemonicToBytes(W).bytes = RefPack(W)

(***************************************************************************)
(* The table-driven _crc32c (the table built by _crc32c_table, one lookup *)
(* and one shift per byte, the final complement) equals the bit-serial    *)
(* CRC-32C on the 29 bytes a mnemonic carries.                            *)
(***************************************************************************)
Crc32cMatchesBitwise ==
    LET body == SubSeq(cb, 1, 29) IN Crc32c(body) = RefCrc32c(body)

(***************************************************************************)
(* decode_mnemonic inverts the encoding: an intact version-0 mnemonic     *)
(* decoded with the passphrase it was made with gives back its entropy,   *)
(* salt, internal version and birthday; with another passphrase it raises *)
(* InvalidPassphraseError.                                                *)
(***************************************************************************)
DecodeRoundTrip ==
    (in.corrupt = 0 /\ in.version = CipherSeedVersion) =>
        dec =
            IF in.dpass = in.pass
            THEN [kind |-> "ok", seed |-> [entropy |-> in.ent, salt |-> in.salt,
                                           internal_version |-> 0, birthday |-> in.bday]]
            ELSE [kind |-> "InvalidPassphrase", seed |-> NoSeed]

(***************************************************************************)
(* A damaged mnemonic (a changed, missing or unknown word, or another     *)
(* version) is rejected as InvalidMnemonicError, whatever the passphrase, *)
(* and never reported as a wrong passphrase.                              *)
(***************************************************************************)
CorruptionDetected ==
    (in.corrupt # 0 \/ in.version # CipherSeedVersion) =>
        dec.kind = "InvalidMnemonic"

(***************************************************************************)
(* validate_mnemonic, the check that needs no scrypt, accepts exactly the *)
(* mnemonics for which decode_mnemonic gets past its InvalidMnemonicError *)
(* checks: the two functions repeat the same tests in their own code.     *)
(***************************************************************************)
ValidateAgreesWithDecode ==
    ValidateMnemonic(W) <=> dec.kind # "InvalidMnemonic"
====
