SPECIFICATION Spec
CONSTANTS
  Handles = {h1, h2}
  Admins = {h2}
  Mailboxes = {e1, e2}
  Calls = {c1, c2}
  MaxUses = 2
  Mode = "invite"
  None = None
CHECK_DEADLOCK FALSE
SYMMETRY Symmetry
INVARIANTS TypeOK VerifiedIsProved InviteHolds
