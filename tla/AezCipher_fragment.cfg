\* aez_core with fragments of 0..19 bytes; expected to violate CoreFragmentXMatchesSpec.
CONSTANTS
    MinLen = 28
    MaxLen = 47
    Seeds = {0, 90}
SPECIFICATION Spec
INVARIANT CoreFragmentXMatchesSpec
