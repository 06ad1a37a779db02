SPECIFICATION KeyFairSpec
CONSTANTS
  Null = Null
  rest = rest
  search = search
  k1 = k1
  k2 = k2
  c1 = c1
  c2 = c2
  Key = {k1, k2}
  Platform = {rest, search}
  Published <- OnBoth
  Client = {c1, c2}
  Within <- Nested
  PlatformOf <- RestSearch
  MaxWait = 1
  MaxInbox = 1
  MaxUnread = 1
  KeyEvent <- EndEvents
INVARIANT OneAnswerEach
INVARIANT InvalidNotHandedBack
PROPERTY ImplementsService
PROPERTY RequestsAnswered
