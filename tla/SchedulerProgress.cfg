SPECIFICATION FairSpec
CONSTANTS
  Null = Null
  r1 = r1
  r2 = r2
  r3 = r3
  Repo = {r1, r2, r3}
  GitlabRepo = {r3}
  Monitor = {m1}
  Run = {c1, c2, c3}
  MaxRepo <- ProgressRoom
  Weight <- GitlabFirst
  Jobs = 1
  Event <- NoEvent
  Enabled <- ApiHooks
INVARIANT ActiveBounded
PROPERTY EveryGithubRepoCollected
