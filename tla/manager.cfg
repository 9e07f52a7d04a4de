\* The client's manager: opens, closes, losses and shutdown in any order.
SPECIFICATION FairSpec
CONSTANTS
  Openers = {o1, o2}
  Closers = {k1}
  Handles = {h1, h2}
  Paths = {p1, p2}
  Records = {r1}
  Nobody = Nobody
INVARIANTS
  TypeOK
  EndsOnce
  LeasesAreOwned
  UnknownIsOver
PROPERTIES
  LostIsForgotten
  ShutdownReleases
