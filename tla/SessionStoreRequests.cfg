SPECIFICATION Spec
CONSTANTS
  Browsers = {b1}
  Users = {alice}
  Ids = {i1, i2, i3}
  Idle = 1
  MaxRequests = 3
  NoId = NoId
  NoUser = NoUser
  NoSession = NoSession
SYMMETRY Symmetry
INVARIANTS NeverAuthenticatedInPlace
PROPERTIES LiveCookieLostOnlyTo KeepsSessions
