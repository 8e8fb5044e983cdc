SPECIFICATION PartsSpec
CONSTANTS
  i1 = i1
  i2 = i2
  i3 = i3
  i4 = i4
  Item = {i1, i2, i3, i4}
  Value <- MCValue
  MaxSent = 2
  MaxCuts = 1
  MaxInt = 255
  Fraction = 64
  Scale = {1, 2, 4, 8, 16}
  MaxInt32 = 7
  MaxInt64 = 127
  Time <- MCTime
  Price <- MCPrice
  MaxInserts = 3
INVARIANTS
  IndexInRange
  PacketsArrive
  OnlyCutStringsStop
  PrimeRight
  MeanRight
PROPERTIES
  FairBetweenRemovals
CHECK_DEADLOCK FALSE
