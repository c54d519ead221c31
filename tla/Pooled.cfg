SPECIFICATION Spec
CONSTANTS
  Requests = {r1, r2, r3}
  Users = {u1, u2}
  Tickets = {t1, t2, t3}
  Emails = {e1, e2}
  Passwords = {p1, p2}
  u1 = u1  u2 = u2
  t1 = t1  t2 = t2  t3 = t3
  e1 = e1  e2 = e2
  p1 = p1  p2 = p2
  Short = Short
  NoEmail = NoEmail
  Keep = Keep
  Admin = Admin
  Guest = Guest
  None = None
  PoolSize = 2
  Ops = {"create", "update", "delete", "refresh", "askVerify", "reset", "verify"}
  Patches <- FewPatches
  SeedRows <- MCSeedRows
  SeedTickets <- MCSeedTickets
  SeedSessions <- MCSeedSessions
INVARIANTS
  AccountsInv
  TicketSpentOnce
PROPERTIES
  SpendingIsAtomic
  OnlySignupAddsRows
  AllAnswered
CHECK_DEADLOCK FALSE
