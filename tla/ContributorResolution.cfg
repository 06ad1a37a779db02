SPECIFICATION ResolutionFairSpec
CONSTANTS
  Null = Null
  r1 = r1
  r2 = r2
  c1 = c1
  c2 = c2
  c3 = c3
  e1 = e1
  e2 = e2
  n1 = n1
  u1 = u1
  Repo = {r1, r2}
  Commit = {c1, c2, c3}
  Email = {e1, e2}
  Name = {n1}
  User = {u1}
  RepoOf <- MCRepoOf
  EmailOf <- MCEmailOf
  NameOf <- MCNameOf
  UserEmail <- MCUserEmail
  UserName <- MCUserName
  Event <- AllEvents
INVARIANTS
  ResolutionTypeOK
  NoneLeftBehind
PROPERTIES
  ResolvedBeforeRemoved
  WaitingGetAuthor
