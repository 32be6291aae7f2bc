\* aez_core: ciphertexts of 32..35 bytes; expected to violate DecryptInvertsEncrypt.
CONSTANTS
    MinLen = 28
    MaxLen = 31
    Seeds = {0, 90}
SPECIFICATION Spec
INVARIANT DecryptInvertsEncrypt
