\* Two authenticators, one of which may become a copy of the other; one always
\* reports 0, the other may come round.
SPECIFICATION Spec
CONSTANTS
  a1 = a1
  a2 = a2
  NoKey = NoKey
  Here = Here
  Elsewhere = Elsewhere
  Auths <- TwoAuths
  Opted <- FirstOpted
  Sites <- TwoSites
  Pages <- TwoPages
  Starts <- Worn
  Gestures <- Seen
  RequireUV = TRUE
  CountSpace = 4
  MaxCeremonies = 3
  MaxResponses = 3
INVARIANTS
  SingleUse
  SignedForThisLogin
  CountsRise
  HolderGetsIn
CHECK_DEADLOCK FALSE
