SPECIFICATION Spec
CONSTANTS
    c1 = c1
    c2 = c2
    Creds = {c2}
    Legacy = {}
    Days <- MCDays
    Written <- MCWritten
    Uuids <- MCUuids
    StudentPatterns <- MCStudentPatterns
    MaxIdentifiers = 2
    MaxRows = 2
    Issued <- NarrowIssued
    Renamed <- NarrowIssued
    Id <- MCId
    Token <- MCToken
    Documents <- NarrowDocuments
    Genuine <- NarrowGenuine
    Rendered <- NarrowRendered
    NotPdf = NotPdf
    Unreadable = Unreadable
    Claims = {c2}
    Methods = {"credential_id_file"}
    MaxFaults = 1
    NoRow = NoRow
    NoFile = NoFile
    NoCred = NoCred
CHECK_DEADLOCK FALSE
INVARIANTS CopyIsNotAccused
