SPECIFICATION Spec
CONSTANTS
  Address = {a}
  Conn = {c}
  maxOf <- MCMaxOf
  windowOf <- MCWindowOf
  StaleAfter = 3
  MaxTime = 5
INVARIANTS TypeOK RateBounded
PROPERTIES RefusedOnlyWhenSpent ImplementsAllowance
