SPECIFICATION Spec
CONSTANTS
  Users = {u1, u2}
  Ids = {b1, b2}
  Codes = {c1, c2}
  Anon = Anon
  None = None
  StaleLive = 1
  TicketTtl = 1
  Retention = 1
  MaxAudience = 0
  MaxTickets = 2
SYMMETRY Symmetry
INVARIANTS TypeOK AtMostOneLive ListedResolves
  TicketOpensProvedRow
PROPERTIES BannedStaysDark ImplementsDirectory
