SPECIFICATION FairSpec
CONSTANTS
  Logins = {l1, l2, l3}
  NoLogin = NoLogin
  MaxTasks = 4
INVARIANTS CompletesOnce NonceNeverBlamed PairsMatchUnlessCrossed
PROPERTIES LastComesHome
