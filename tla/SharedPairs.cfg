CONSTANTS
  Keys = {k1, k2, k3, k4, k5}
  NoKey = NoKey
  SeenGrowth = 3
  MissModulus = 5
  MaxClock = 8
  x = x
  y = y
  z = z
  a = a
  b = b
  c = c
  PairKeys = {a, b, c}
  Operands <- MCOperands
  Self = x
  Outputs <- TypesAlike
  Ids = {1, 2, 3, 4}
  Concrete <- StoredAlike
SPECIFICATION SlotSpec
INVARIANT OwnAnswers
SYMMETRY Symmetry
