SPECIFICATION Spec
CONSTANTS
  p1 = p1  p2 = p2
  u1 = u1  u2 = u2  e1 = e1  ph1 = ph1  n1 = n1  n2 = n2
  Callers = {p1, p2}
  RowIds = {u1, u2}
  ExtIds = {e1}
  Phones = {ph1}
  Names = {n1, n2}
  DefaultName = Driver
  Blank = Blank
  BadPhone = BadPhone
  NoRow = NoRow
  NoCall = NoCall
  Calls <- MCReadAndUpdate
  Profiles <- MCProfiles
  DbMayFail = FALSE
  RedisMayFail = FALSE
INVARIANT NextReadIsFresh
