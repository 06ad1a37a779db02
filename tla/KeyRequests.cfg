SPECIFICATION KeySpec
CONSTANTS
  Null = Null
  rest = rest
  search = search
  k1 = k1
  k2 = k2
  c1 = c1
  c2 = c2
  Key = {k1, k2}
  Platform = {rest}
  Published <- TwoKeys
  Client = {c1, c2}
  Within <- Apart
  PlatformOf <- RestOnly
  MaxWait = 1
  MaxInbox = 1
  MaxUnread = 0
  KeyEvent <- AnyKeyEvent
SYMMETRY KeySymmetric
INVARIANT KeyTypeOK
INVARIANT KeyInOneState
INVARIANT OneAnswerEach
INVARIANT InvalidNotHandedBack
PROPERTY ImplementsService
