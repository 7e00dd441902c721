SPECIFICATION BrowserFairSpec
CONSTANTS
  Tabs = {t1}
  Calls = {c1, c2, c3}
  MaxExpiries = 3
  MayBreak = TRUE
INVARIANTS
  OneRefreshPerTab
  JarIsCurrent
  LogoutLasts
PROPERTIES
  SilentRenewal
  CallsSettle
CHECK_DEADLOCK FALSE
