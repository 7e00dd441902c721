SPECIFICATION BrowserSpec
CONSTANTS
  Tabs = {t1, t2}
  Calls = {c1, c2}
  MaxExpiries = 2
  MayBreak = FALSE
SYMMETRY Symmetry
PROPERTIES
  SilentRenewal
CHECK_DEADLOCK FALSE
