SPECIFICATION FairSpec
CONSTANTS
  Users = {u1}
  Ids = {b1, b2}
  Codes = {c1}
  Anon = Anon
  None = None
  StaleLive = 1
  TicketTtl = 1
  Retention = 1
  MaxAudience = 1
  MaxTickets = 1
PROPERTIES SilentRowsEnd BannedGoesDark AccessDrains
