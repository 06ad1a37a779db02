SPECIFICATION Spec
CONSTANTS
  i1 = i1
  p1 = p1
  c1 = c1
  e1 = e1
  v1 = v1
  A = A
  B = B
  Issues = {}
  Prs = {p1}
  Comments = {}
  Events = {}
  Reviews = {v1}
  ItemOf <- MCItemOf
  Runs = {A}
  Window = 2
  Day = 1
  Ahead = 0
  MaxTime = 4
INVARIANTS
  ReviewsWithinReach
CHECK_DEADLOCK FALSE
