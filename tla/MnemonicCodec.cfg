\* 256 mnemonics: two entropies, salts and passphrases, version
\* 0 or 1, decoded with either passphrase, intact or damaged in one of
\* seven ways.
CONSTANTS
    Unknown = Unknown
    Kdf <- MCKdf
SPECIFICATION Spec
INVARIANT TypeOK
INVARIANT PackMatchesBitstream
INVARIANT Crc32cMatchesBitwise
INVARIANT DecodeRoundTrip
INVARIANT CorruptionDetected
INVARIANT ValidateAgreesWithDecode
