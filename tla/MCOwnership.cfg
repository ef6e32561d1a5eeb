SPECIFICATION Spec
CONSTANTS
    admin = admin
    other = other
    here = here
    there = there
    first = first
    second = second
    prog1 = prog1
    prog2 = prog2
    Users = {admin, other}
    Institutions = {here, there}
    Students = {first, second}
    Programmes = {prog1, prog2}
    Records = {1, 2}
    Dates = {1, 2}
    Requests = {r1, r2}
    Accounts <- MCAccounts
    Decisions <- MCDecisions
    InitAccounts <- MCInitAccounts
    InitStudents <- MCInitStudents
    InitRecords <- MCInitRecords
    NoUser = NoUser
    NoInst = NoInst
    NoStudent = NoStudent
    NoRecord = NoRecord
    AnyProg = AnyProg
    MaxEvents = 1
CHECK_DEADLOCK FALSE
INVARIANTS TypeOK DisclosedToOwners SplitsAreRaces GapsAreRaces
PROPERTIES LinkedForGood
