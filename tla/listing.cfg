\* Lists of up to three rows, pages of one or two; one other request in flight; three
\* addresses of which one is the proxy; two admissions a window.
SPECIFICATION ListingSpec
CONSTANTS
  Requests = {walker, other}
  Walker = walker
  Addresses = {home, office, proxy}
  Home = home
  Trusted = {proxy}
  None = None
  Nil = Nil
  Burst = 2
  Rate = 1
  Window = 2
  Cutoff = 2
  MaxFaults = 1
  MaxTraffic = 1
  Key <- Keys
  DefaultLimit = 5
  MaxLimit = 2
  Raw <- RawLimits
INVARIANTS
  EachRowOnce
  WindowBound
PROPERTY
  WalkEnds
