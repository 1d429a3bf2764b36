SPECIFICATION Spec
CONSTANTS
  p1 = p1  p2 = p2  u1 = u1  u2 = u2
  e1 = e1  e2 = e2  ph1 = ph1  n1 = n1
  Callers = {p1, p2}
  RowIds = {u1, u2}
  ExtIds = {e1, e2}
  Phones = {ph1}
  Names = {n1}
  DefaultName = Driver
  Blank = Blank
  BadPhone = BadPhone
  NoRow = NoRow
  NoRequest = NoRequest
  Requests <- MCRequests
  MaxVersion = 2
INVARIANTS OneProfilePerDriver AnsweredProfileIsOnRecord
PROPERTY ImplementsDirectory
