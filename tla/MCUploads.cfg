SPECIFICATION Spec
CONSTANTS
    c1 = c1
    c2 = c2
    Creds = {c1, c2}
    Legacy = {c1}
    Days <- MCDays
    Written <- MCWritten
    Uuids <- MCUuids
    StudentPatterns <- MCStudentPatterns
    MaxIdentifiers = 2
    MaxRows = 2
    Issued <- MCIssued
    Renamed <- MCRenamed
    Id <- MCId
    Token <- MCToken
    Documents <- MCDocuments
    Genuine <- MCGenuine
    Rendered <- MCRendered
    NotPdf = NotPdf
    Unreadable = Unreadable
    Claims = {c2}
    Methods = {"file", "credential_id_file", "public_token"}
    MaxFaults = 1
    NoRow = NoRow
    NoFile = NoFile
    NoCred = NoCred
CHECK_DEADLOCK FALSE
INVARIANTS TypeOK ManifestIsExact ComparisonsAccuseEdits ResolvedIsItsSource GenuineIsRecognised AnswersAreLogged LeftFilesAreFaults
