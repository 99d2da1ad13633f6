SPECIFICATION Spec
CONSTANTS
  c1 = c1
  c2 = c2
  c3 = c3
  c4 = c4
  c5 = c5
  a1 = a1
  a2 = a2
  Conn = {c1, c2, c3, c4, c5}
  Address = {a1, a2}
  addressOf <- MCAddressOf
  MaxPerIP = 2
  MaxTotal = 3
SYMMETRY MCSymmetry
CHECK_DEADLOCK FALSE
INVARIANTS TypeOK CountersAgree LimitsHeld
PROPERTIES RefusedOnlyWhenFull
