SPECIFICATION Spec
CONSTANTS
  Tabs = {tab1, tab2}
  Tokens = {t1, t2}
  Families = {f1, f2}
  None = None
  Grace = 0
  RefreshTtl = 1
  MaxEpoch = 1
  MaxVersion = 1
SYMMETRY Symmetry
INVARIANTS PasswordChangeSignsOut
