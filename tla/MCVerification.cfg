SPECIFICATION Spec
CONSTANTS
  c1 = c1
  c2 = c2
  p1 = p1
  v1 = v1
  v2 = v2
  Creds = {c1}
  NoCred = NoCred
  Publishers = {p1}
  MayFail = TRUE
  Verifiers = {v1}
  MaxTime = 2
  Freshness = 1
INVARIANTS TypeOK VerifiedStoodWhenAsked NoReturnToVerified RevokedHasEnded
