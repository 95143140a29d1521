SPECIFICATION Spec
CONSTANTS
  t1 = t1
  t2 = t2
  p1 = p1
  p2 = p2
  NoSpec = NoSpec
  NoOp = NoOp
  Wallets = {"custodial", "desktop", "mobile"}
  Tabs = {t1, t2}
  Specs = {p1, p2}
  MaxScheds = 2
  MaxSigned <- Signed
  MaxPosts <- Posts
  MaxRestarts <- Restarts
SYMMETRY TabSymmetry
INVARIANTS
  TypeOK
  OneAtATime
  OutcomesAreTrue
  FundedOnce
  SuccessIsTrue
PROPERTY OutcomeStands
CHECK_DEADLOCK FALSE
