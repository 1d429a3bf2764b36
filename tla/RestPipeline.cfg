SPECIFICATION Spec
CONSTANTS
  e1 = e1  e2 = e2  f1 = f1  n1 = n1  s1 = s1  s2 = s2
  p1 = p1  p2 = p2  u1 = u1  u2 = u2
  Callers = {p1, p2}
  RowIds = {u1, u2}
  NoId = NoId
  ExtIds = {e1, e2}
  Phones = {f1}
  Blank = Blank
  BadPhone = BadPhone
  Plates = {n1}
  Signers = {s1, s2}
  NoKey = NoKey
  Configured = {NoKey, s1}
  Tokens <- MCTokens
  Calls <- MCCalls
  NoCall = NoCall
  MaxVersion = 2
  MaxTime = 2
SYMMETRY MCSymmetry
INVARIANTS OnlyAuthenticCallers AnswerIsTrue NobodyIsMissing
PROPERTIES OwnDataOnly DeletedIsFrozen ImplementsAccounts
