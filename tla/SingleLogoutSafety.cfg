SPECIFICATION Spec
CONSTANTS
  RPs = {A}
  Browsers = {u, v}
  States = {s1, s2}
  Ids = {i1, i2}
  Sids = {k1, k2}
  NoId = NoId
  NoSid = NoSid
  NoSession = NoSession
  NoFlow = NoFlow
  NoRP = NoRP
  NoState = NoState
  MaxTasks = 3
  TellsAsker = TRUE
  SidOptional = TRUE
  Reliable = FALSE
SYMMETRY Symmetry
INVARIANTS IndexSound StateSpentOnce LostOnlyToSibling SurvivorsExplained
PROPERTIES EndsForItsOwnReason
