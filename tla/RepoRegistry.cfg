SPECIFICATION RegistrySpec
CONSTANTS
  org = org
  other = other
  u1 = u1
  u2 = u2
  s1 = s1
  g1 = g1
  f1 = f1
  c1 = c1
  Urls = {u1, u2}
  Sources = {s1}
  Created <- MCCreated
  Owners = {org, other}
  Orgs = {org}
  OrgOf <- MCOrgOf
  Capitals = {u1}
  UserGroups = {g1}
  Forms = {f1}
  Calls = {c1}
  Frontend = Frontend
  NoSource = NoSource
  NoRepo = NoRepo
  NoUrl = NoUrl
  ChunkSize = 2
  MaxGroups = 2
INVARIANTS
  RegistryTypeOK
  OneRowPerSource
  HandledIsMember
PROPERTIES
  EveryRowGetsStatus
CHECK_DEADLOCK FALSE
