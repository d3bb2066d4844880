SPECIFICATION SignInSpec
CONSTANTS
  Accounts = {u1}
  Logins = {c1, c2}
  LockAfter = 2
  Tickets = {t1}
  Sockets = {s1, s2}
  MaxTv = 1
  Null = Null
SYMMETRY Symmetry
INVARIANTS SignInTypeOK GuessesBounded
PROPERTY TicketsNameOneSocket
