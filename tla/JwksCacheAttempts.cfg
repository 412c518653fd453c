SPECIFICATION Spec
CONSTANTS
  Callers = {c1}
  Kids = {k1, k2, enc}
  Usable = {k1, k2}
  MinRefetch = 2
  MaxRotations = 1
  NoKid = NoKid
  NoCaller = NoCaller
PROPERTIES AttemptsSpaced
