SPECIFICATION Spec
CONSTANTS
  c1 = c1  c2 = c2  c3 = c3  k1 = k1  a1 = a1  a2 = a2
  Clients = {c1, c2, c3}
  Values = {a1, a2}
  Unset = Unset
  Keys = {k1}
  NoKey = NoKey
  Tries <- MCTries
  Scenarios <- MCUnwired
CHECK_DEADLOCK FALSE
PROPERTY ReplayHasNoEffect
