SPECIFICATION Spec
CONSTANTS
  p1 = p1  p2 = p2  d1 = d1  d2 = d2  v1 = v1  v2 = v2  v3 = v3
  b1 = b1  b2 = b2  s1 = s1  s1spaced = s1spaced  s2 = s2  sbad = sbad
  Callers = {p1, p2}
  Drivers = {d1, d2}
  NoDriver = NoDriver
  VehicleIds = {v1, v2, v3}
  Plates = {b1, b2}
  BadPlate = BadPlate
  Spellings = {s1, s1spaced, s2, sbad}
  Normal <- MCNormal
  BadType = BadType
  Calls <- MCCalls
  NoCall = NoCall
SYMMETRY MCSymmetry
PROPERTIES DefaultUnsetsPrevious
