SPECIFICATION Spec
CONSTANTS
    Users = {a, b}
    Institutions = {i}
    Passwords = {p, q}
    Requests = {r1, r2}
    AskedRoles = {"super_admin", "institution_admin", "issuer"}
    MaxAttempts = 1
    NoUser = NoUser
    NoInst = NoInst
    NoToken = NoToken
    Random = Random
SYMMETRY Symmetry
CHECK_DEADLOCK FALSE
INVARIANTS TypeOK LiveSessionsTellTheTruth FailuresLock
PROPERTIES ResetsAreFresh LastSuperNotTakenAlone PromotionComesFromAbove
