\* aez_tiny: ciphertexts of 4..31 bytes (messages of 0..27 bytes).
CONSTANTS
    MinLen = 0
    MaxLen = 27
    Seeds = {0, 90, 201, 255}
SPECIFICATION Spec
INVARIANT TypeOK
INVARIANT DecryptInvertsEncrypt
INVARIANT ForgeryRejected
