SPECIFICATION Spec
CHECK_DEADLOCK FALSE
SYMMETRY Alike
CONSTANTS
  a1 = a1  a2 = a2  a3 = a3  r1 = r1  r2 = r2  r3 = r3
  NoRequest = NoRequest
  Actors = {a1, a2, a3}
  Requests = {r1, r2, r3}
  MaxEdits = 6
INVARIANTS
  SignedIsComplete
