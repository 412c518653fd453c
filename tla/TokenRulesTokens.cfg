SPECIFICATION MCSpec
CONSTANTS
  Algs = {"RS256", "RS512", "PS256", "HS256", "none"}
  allowed <- MCAllowed
  Pss = {"PS256"}
  Kids = {k1, k2}
  NoKid = NoKid
  TestKid = k1
  AttackerKid = k2
  NoKey = NoKey
  NoLabel = NoLabel
  idp = idp
  other = other
  me = me
  peer = peer
  n1 = n1
  Issuers = {idp, other}
  Issuer = idp
  Clients = {me, peer}
  Client = me
  Nonces = {n1}
  NoNonce = NoNonce
  Start = 2
  Horizon = 3
  Leeway = 1
  Window = 1
INVARIANTS NoConfusion TimelessRefused ReportTellsVerdict SuitePasses
PROPERTIES TimeNeverHelps
