SPECIFICATION FacadeSpec
CONSTANTS
  Null = Null
  r1 = r1
  r2 = r2
  Repo = {r1}
  GitlabRepo = {}
  Cloner = {w1, w2}
  Monitor = {m1}
  Run = {c1}
  MaxMessages = 2
  CloneEvent <- AnyCloneEvent
  Event <- SomeEvents
  Jobs = 1
  MaxRepo <- Room
  Weight <- EqualWeight
  Enabled <- CoreAndFacade
SYMMETRY Symmetric
INVARIANT FacadeTypeOK
INVARIANT ConstraintsHold
INVARIANT AnalysedAfterClone
