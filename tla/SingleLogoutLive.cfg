SPECIFICATION FairSpec
CONSTANTS
  RPs = {A, B}
  Browsers = {u}
  States = {s1, s2}
  Ids = {i1, i2}
  Sids = {k1}
  NoId = NoId
  NoSid = NoSid
  NoSession = NoSession
  NoFlow = NoFlow
  NoRP = NoRP
  NoState = NoState
  MaxTasks = 2
  TellsAsker = TRUE
  SidOptional = TRUE
  Reliable = TRUE
PROPERTIES KeepsLogoutPromise RPInitiatedReachesEveryRP
