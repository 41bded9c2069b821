\* Two browsers, one with two tabs, racing refreshes and sign-outs.
SPECIFICATION Spec
CONSTANTS
  b1 = b1
  b2 = b2
  t1 = t1
  t2 = t2
  t3 = t3
  Browsers = {b1, b2}
  Tabs = {t1, t2, t3}
  Home <- TwoAndOne
  Grace = 0
  MaxClock = 1
  MaxTokens = 3
  MaxExpiries = 1
  MaxFaults = 1
\* Tokens run out.
CHECK_DEADLOCK FALSE
SYMMETRY TabSymmetry
CONSTRAINT FewMishaps
INVARIANTS
  OneLiveToken
  NoUnprovokedRevocation
  RefusedForAReason
  LogoutEndsSession
