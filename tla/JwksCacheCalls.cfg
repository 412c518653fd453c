SPECIFICATION FairSpec
CONSTANTS
  Callers = {c1, c2}
  Kids = {k1, k2, enc}
  Usable = {k1, k2}
  MinRefetch = 1
  MaxRotations = 1
  NoKid = NoKid
  NoCaller = NoCaller
INVARIANTS FetchesSpaced
PROPERTIES CallsReturn RolloverSurvived KeepsKeyPromise
