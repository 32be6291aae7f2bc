---------------------------- MODULE MnemonicCodec ----------------------------
(***************************************************************************)
(* The aezeed mnemonic layer of btcrecover/aezeed.py: mnemonic_to_bytes   *)
(* packs 24 words of 11 bits into the 33-byte enciphered seed, _crc32c    *)
(* checks its last four bytes, validate_mnemonic and decode_mnemonic      *)
(* accept or reject it, and decode_mnemonic runs scrypt and _aez_decrypt. *)
(*                                                                         *)
(* A word is its index in the wordlist (word_to_index), or Unknown.       *)
(* scrypt and _extract_key's blake2b are the operator Kdf, given by the    *)
(* module that instantiates this one: a key per passphrase and salt.      *)
(* TLC integers have 32 bits with a sign, so a CRC value is a big-endian  *)
(* tuple of four bytes.                                                    *)
(***************************************************************************)
EXTENDS AezCipher

CONSTANTS
    Unknown,   \* a word that is not in the wordlist
    Kdf(_, _)  \* scrypt(DEFAULT_PASSPHRASE + passphrase, salt), extracted to 48 bytes

EncipheredCipherSeedSize == 33
DecipheredCipherSeedSize == 19
SaltSize == 5
CipherTextExpansion == 4
BitsPerWord == 11
CipherSeedVersion == 0

-----------------------------------------------------------------------------
(* _crc32c_table and _crc32c, on 32-bit values held as four bytes.         *)
Xor32(a, b) == <<XorByte(a[1], b[1]), XorByte(a[2], b[2]), XorByte(a[3], b[3]), XorByte(a[4], b[4])>>

\* crc >> 1 and crc >> 8
Shr1(c) == <<c[1] \div 2, (c[2] \div 2) + 128 * (c[1] % 2),
             (c[3] \div 2) + 128 * (c[2] % 2), (c[4] \div 2) + 128 * (c[3] % 2)>>
Shr8(c) == <<0, c[1], c[2], c[3]>>

CRC32C_POLY == <<130, 246, 59, 120>>   \* 0x82F63B78

\* The inner loop of _crc32c_table: eight conditional shifts of crc = i.
RECURSIVE TableBits(_, _)
TableBits(crc, k) ==
    IF k = 0 THEN crc
    ELSE TableBits(IF crc[4] % 2 = 1 THEN Xor32(Shr1(crc), CRC32C_POLY) ELSE Shr1(crc), k - 1)

\* Mutant: seven shifts per table entry instead of eight.
CRC32C_TABLE7 == [i \in 0..255 |-> TableBits(<<0, 0, 0, i>>, 7)]

CRC32C_TABLE == [i \in 0..255 |-> TableBits(<<0, 0, 0, i>>, 8)]

\* crc = TABLE[(crc ^ b) & 0xFF] ^ (crc >> 8) for each byte, from 0xFFFFFFFF.
\* (The length test makes TLC evaluate crc at each byte, not at the end.)
RECURSIVE CrcLoop(_, _)
CrcLoop(crc, data) ==
    IF data = <<>> \/ Len(crc) # 4 THEN crc
    ELSE CrcLoop(Xor32(CRC32C_TABLE[XorByte(crc[4], Head(data))], Shr8(crc)), Tail(data))

Crc32c(data) == LET crc == CrcLoop(<<255, 255, 255, 255>>, data)
                IN [k \in 1..4 |-> 255 - crc[k]]

-----------------------------------------------------------------------------
(* mnemonic_to_bytes: an accumulator of at most 18 bits; each word shifts  *)
(* 11 bits in, and whole bytes are taken off the top while 8 remain.       *)

\* Mutant: out[pos] = bits & 0xFF, the low byte instead of the top one.
RECURSIVE DrainLowByte(_, _, _)
DrainLowByte(bits, bitLen, out) ==
    IF bitLen >= 8
    THEN DrainLowByte(bits % 2^(bitLen - 8), bitLen - 8, Append(out, bits % 256))
    ELSE [bits |-> bits, bitLen |-> bitLen, out |-> out]

RECURSIVE Drain(_, _, _)
Drain(bits, bitLen, out) ==
    IF bitLen >= 8
    THEN Drain(bits % 2^(bitLen - 8), bitLen - 8, Append(out, (bits \div 2^(bitLen - 8)) % 256))
    ELSE [bits |-> bits, bitLen |-> bitLen, out |-> out]

RECURSIVE PackWords(_, _)
PackWords(acc, words) ==
    IF words = <<>> THEN acc.out
    ELSE PackWords(Drain(acc.bits * 2^BitsPerWord + Head(words), acc.bitLen + BitsPerWord, acc.out),
                   Tail(words))

\* ok = FALSE stands for InvalidMnemonicError (wrong length, unknown word).
MnemonicToBytes(words) ==
    IF Len(words) # 24 \/ \E k \in DOMAIN words : words[k] = Unknown
    THEN [ok |-> FALSE, bytes |-> <<>>]
    ELSE [ok |-> TRUE, bytes |-> PackWords([bits |-> 0, bitLen |-> 0, out |-> <<>>], words)]

\* The fields of the 33 bytes: version, ciphertext, salt, checksum.
Ciphertext(cb) == SubSeq(cb, 2, EncipheredCipherSeedSize - 4 - SaltSize)
Salt(cb) == SubSeq(cb, EncipheredCipherSeedSize - 4 - SaltSize + 1, EncipheredCipherSeedSize - 4)
Checksum(cb) == SubSeq(cb, EncipheredCipherSeedSize - 3, EncipheredCipherSeedSize)
\* Mutant: the checksum comparison is left out.
ChecksumIgnored(cb) == TRUE
ChecksumOK(cb) == Checksum(cb) = Crc32c(SubSeq(cb, 1, EncipheredCipherSeedSize - 4))

\* Mutant: validate_mnemonic without the version test.
ValidateNoVersion(words) ==
    LET m == MnemonicToBytes(words)
    IN m.ok /\ ChecksumOK(m.bytes)

ValidateMnemonic(words) ==
    LET m == MnemonicToBytes(words)
    IN m.ok /\ m.bytes[1] = CipherSeedVersion /\ ChecksumOK(m.bytes)

\* Mutant: the birthday read little-endian.
BirthdayLE(pt) == pt[2] + 256 * pt[3]

\* birthday = int.from_bytes(plaintext[1:3], "big")
Birthday(pt) == 256 * pt[2] + pt[3]

NoSeed == [entropy |-> <<>>, salt |-> <<>>, internal_version |-> 0, birthday |-> 0]

\* A failed decode_mnemonic: the exception it raises.
Fail(kind) == [kind |-> kind, seed |-> NoSeed]

\* Mutant: entropy = plaintext[2:], one byte too early.
DecodeResultEntropyEarly(cb, r) ==
    IF ~r.ok \/ Len(r.plaintext) # DecipheredCipherSeedSize
    THEN Fail("InvalidPassphrase")
    ELSE [kind |-> "ok",
          seed |-> [entropy |-> SubSeq(r.plaintext, 3, DecipheredCipherSeedSize),
                    salt |-> Salt(cb),
                    internal_version |-> r.plaintext[1],
                    birthday |-> Birthday(r.plaintext)]]

\* The end of decode_mnemonic given r, the result of _aez_decrypt.
DecodeResult(cb, r) ==
    IF ~r.ok \/ Len(r.plaintext) # DecipheredCipherSeedSize
    THEN Fail("InvalidPassphrase")
    ELSE [kind |-> "ok",
          seed |-> [entropy |-> SubSeq(r.plaintext, 4, DecipheredCipherSeedSize),
                    salt |-> Salt(cb),
                    internal_version |-> r.plaintext[1],
                    birthday |-> Birthday(r.plaintext)]]

\* decode_mnemonic once the bytes cb are known: the version and checksum
\* tests, then the key derivation and _aez_decrypt with AD = version||salt.
DecodeBytes(m, passphrase) ==
    IF ~m.ok THEN Fail("InvalidMnemonic")
    ELSE IF m.bytes[1] # CipherSeedVersion THEN Fail("InvalidMnemonic")
    ELSE IF ~ChecksumOK(m.bytes) THEN Fail("InvalidMnemonic")
    ELSE DecodeResult(m.bytes,
                      AezDecrypt(Kdf(passphrase, Salt(m.bytes)), <<<<m.bytes[1]>> \o Salt(m.bytes)>>,
                                 CipherTextExpansion, Ciphertext(m.bytes)))

\* decode_mnemonic: the result kind is "ok" or the exception raised.
DecodeMnemonic(words, passphrase) == DecodeBytes(MnemonicToBytes(words), passphrase)
=============================================================================
