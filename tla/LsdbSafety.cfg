SPECIFICATION Spec
CONSTANTS
  Half = 2
  MaxSum = 1
  MaxAge = 3
  MaxAgeDiff = 1
  Area = {1, 2}
  Global = 0
  Key = {1, 2}
  External = {}
  Wire <- MCWire
  MinLSArrival = 1
  MaxLsas = 1
  MaxTime = 4
INVARIANTS
  TypeOK
  HeldIsNewest
  AgeIsBehind
