SPECIFICATION Spec
CONSTANTS
  t1 = t1
  t2 = t2
  p1 = p1
  p2 = p2
  NoSpec = NoSpec
  NoOp = NoOp
  Wallets = {"mobile"}
  Tabs = {t1}
  Specs = {p1}
  MaxScheds = 1
  MaxSigned <- Signed
  MaxPosts <- Posts
  MaxRestarts <- Restarts
INVARIANT FailedIsBeforeAnyWrite
CHECK_DEADLOCK FALSE
