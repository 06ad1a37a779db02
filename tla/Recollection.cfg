SPECIFICATION Spec
CONSTANTS
  i1 = i1
  p1 = p1
  c1 = c1
  e1 = e1
  v1 = v1
  A = A
  B = B
  Issues = {i1}
  Prs = {p1}
  Comments = {c1}
  Events = {}
  Reviews = {v1}
  ItemOf <- MCItemOf
  Runs = {A}
  Window = 2
  Day = 1
  Ahead = 1
  MaxTime = 3
INVARIANTS
  RecollectionTypeOK
  LossesExplained
CHECK_DEADLOCK FALSE
