SPECIFICATION Spec
CONSTANTS
  Null = Null
  r1 = r1
  r2 = r2
  r3 = r3
  Repo = {r1}
  GitlabRepo = {}
  Monitor = {m1}
  Run = {c1, c2}
  MaxRepo <- Room1
  Weight <- EqualWeight
  Jobs = 1
  Event <- PrelimEvents
  Enabled <- CoreOnly
INVARIANT CollectingMeansRunning
