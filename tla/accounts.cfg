SPECIFICATION AccountsSpec
CONSTANTS
  ann = ann
  bob = bob
  cy = cy
  home = home
  r1 = r1
  r2 = r2
  r3 = r3
  None = None
  Address = {ann, bob, cy}
  Org = {home, other}
  other = other
  Password = {"first", "second"}
  Req = {r1, r2, r3}
  MaxAccounts = 4
  MaxClock = 1
  MaxLapses = 1
  Slots = 1
  Burst = 1
  Refill = 1
  Capacity = 2
  Home = home
  Staff <- HomeStaff
  Standing <- Mailed
  Families <- EveryFamily
SYMMETRY Alike
INVARIANTS AccountsTypeOK OwnerRemains InvitationMakesOneAccount ResetRevokes BudgetIsExact
CHECK_DEADLOCK FALSE
