SPECIFICATION PhoneSpec
CONSTANTS
  Tokens = {t1, t2}
  Calls = {c1}
  MaxTaps = 2
SYMMETRY Symmetry
INVARIANTS SignedInAsAsked OrderIsKnownOrHeld
