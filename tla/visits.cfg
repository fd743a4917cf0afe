\* Registrations that clash, logins, refreshes and logouts.
SPECIFICATION Spec
CONSTANTS
  ann = ann
  bob = bob
  eve = eve
  t1 = t1
  t2 = t2
  t3 = t3
  c1 = c1
  c2 = c2
  c3 = c3
  Null = Null
  RefreshTTL = 1
  MaxClock = 1
  Users = {ann, bob, eve}
  Tokens = {t1, t2, t3}
  Names <- MCNames
  Grants <- MCGrants
  Accounts <- MCAccounts
  Calls = {c1, c2, c3}
  Menu <- VisitMenu
INVARIANTS RotationIsWhole RegistrationIsWhole AccountsDistinct InductiveInv
PROPERTIES DeadTokensStayDead
CHECK_DEADLOCK FALSE
