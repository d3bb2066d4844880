SPECIFICATION SidesSpec
CONSTANTS
  Users = {a1, a2}
  Endpoints = {d1, d2}
  MaxAlerts = 2
  None = None
  Accounts = {u1, u2}
  Tabs = {t1, t2}
  Subs = {e1, e2}
  Slots = {k1, k2}
  Null = Null
SYMMETRY Symmetry
INVARIANTS TypeOK PushTypeOK ToggleIsTrue
PROPERTIES AlertsAreAskedFor
