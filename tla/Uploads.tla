------------------------------- MODULE Uploads -------------------------------
(***************************************************************************)
(* The public requests that verify a certificate: by an uploaded file, by  *)
(* a file and an identifier, or by a hash or an identifier alone.          *)
(*                                                                         *)
(* Beside the request, credentials are registered and get their semantic   *)
(* manifests, the backfill script adds manifests to older rows, and the    *)
(* student is edited.  Requests share only the rows, which they read, so   *)
(* one at a time is enough.  A file is known by its SHA-256: two files are *)
(* equal if their hashes are.  What verifyCredentialState says of a row is *)
(* in module Verification; here it is "KNOWN", or "UNKNOWN" without a row. *)
(***************************************************************************)
EXTENDS TamperAnalysis, CredentialResolution

CONSTANTS
    Creds,
    Legacy,       \* the credentials registered by a release without manifests
    Issued,       \* Creds -> the values printed on the official document
    Renamed,      \* Creds -> the values joined with the row after the student was edited
    Id, Token,    \* Creds -> Uuids
    Documents,    \* what may be uploaded: [of, shows, print], for a document made from that of
    Genuine,      \* Creds -> Documents, the official one
    Rendered(_),  \* the pages, each with its size and items, and the metadata of a document
    NotPdf,       \* a file without the PDF signature
    Unreadable,   \* one with it that no reader opens
    Claims,       \* the credentials whose hash or identifier is sent, registered or not
    Methods,      \* the routes that are called
    MaxFaults,    \* how many crashes and failing unlinks
    NoRow, NoFile, NoCred

Files == Documents \cup {NotPdf, Unreadable}

ASSUME UploadsAssumption ==
    /\ Legacy \subseteq Creds
    /\ Claims \subseteq Creds
    /\ NoCred \notin Creds /\ NoFile \notin Files
    /\ NotPdf \notin Documents /\ Unreadable \notin Documents \cup {NotPdf}
    /\ \A file \in Documents : file.of \in Creds
    /\ Genuine \in [Creds -> Documents]
    /\ \A c \in Creds : Genuine[c].of = c /\ Genuine[c].shows = Issued[c]
    /\ Methods \subseteq {"file", "credential_id_file", "public_token_file",
                           "hash", "credential_id", "public_token"}
    /\ MaxFaults \in Nat

VARIABLES
    credentials,  \* Creds -> the manifest columns of its row, or NoRow
    issuing,      \* credentials whose issuance is before setCredentialSemanticManifest
    edited,       \* the student was edited
    request,      \* the local state of the request's handler
    uploads,      \* how many files there are in certificates-temp
    faults        \* history: how many crashes and failing unlinks there were

vars == <<credentials, issuing, edited, request, uploads, faults>>

-----------------------------------------------------------------------------
(* Rows and manifests.                                                     *)

Bare == [manifest |-> "none", version |-> 0, source |-> NoFile, fields |-> <<>>]
Values(c) == IF edited THEN Renamed[c] ELSE Issued[c]
Registered == {c \in Creds : credentials[c] # NoRow}

\* publicCredentialSelect: a row joined with its student.
Joining(c, row, values) ==
    [of |-> c, id |-> Id[c], token |-> Token[c], hash |-> Genuine[c], values |-> values,
     manifest |-> row.manifest, version |-> row.version, source |-> row.source, fields |-> row.fields]
View(c) == Joining(c, credentials[c], Values(c))
Views == {View(c) : c \in Registered}

\* A manifest of a credential's own document for the given values; classification is null.
Manifest(c, values) ==
    [manifest |-> "json", version |-> 1, source |-> Genuine[c],
     fields |-> M!BuildSemanticManifest(Rendered(Genuine[c]).pages,
                                        [f \in FieldNames |-> Official(f, values)])]

\* What the services make of a row and a file depends on nothing else.
VersionsOf(c) == {Issued[c], Renamed[c]}
Versions == UNION {{c} \X VersionsOf(c) : c \in Creds}
ManifestOf == Table([cv \in Versions |-> Manifest(cv[1], cv[2])])
LinesOf == Table([file \in Documents |-> ExtractPdfText(Rendered(file).pages)])
TextOf == Table([file \in Documents |-> DocumentText(LinesOf[file])])

\* A row whose version column does not fit its manifest, which only other hands make.
Damaged(c) == [ManifestOf[c, Issued[c]] EXCEPT !.version = 2]
Columns(c) == {Bare, Damaged(c)} \cup {ManifestOf[c, values] : values \in VersionsOf(c)}
PossibleViews == UNION {{Joining(c, row, values) : row \in Columns(c), values \in VersionsOf(c)} : c \in Creds}

\* NoRow is no row.
ASSUME NoRowAssumption == NoRow \notin PossibleViews /\ \A c \in Creds : NoRow \notin Columns(c)

VerifiedBy ==
    Table([a \in {ManifestOf[version].fields : version \in Versions} \X Documents |->
             M!VerifySemanticManifest(a[1], Rendered(a[2]).pages)])
ComparedBy ==
    Table([a \in Versions \X Documents \X BOOLEAN |->
             Compared(a[1][2], LinesOf[Genuine[a[1][1]]], LinesOf[a[2]], a[3])])
StructureBy ==
    Table([a \in Creds \X Documents |-> Changes(Rendered(Genuine[a[1]]), Rendered(a[2]))])
AnalysisOf(row, file, baseline, fetched) ==
    AnalyseTamperedPdf(row, VerifiedBy[row.fields, file],
                       ComparedBy[<<row.of, row.values>>, file, baseline],
                       StructureVerdict(StructureBy[row.of, file], fetched, file # Unreadable),
                       file # Unreadable)
AnchoredOf ==
    Table([a \in Versions \X Documents |->
             A!AnalyseAnchored(Rendered(Genuine[a[1][1]]).pages, Rendered(a[2]).pages, a[1][2])])

\* createProcessingCredential
Register(c) ==
    /\ credentials[c] = NoRow
    /\ credentials' = [credentials EXCEPT ![c] = Bare]
    /\ issuing' = issuing \cup {c}
    /\ UNCHANGED <<edited, request, uploads, faults>>

\* buildSemanticManifestFromFile and setCredentialSemanticManifest, unless the handler
\* fails.  It has read the student before the row was inserted.
StoreManifest(c) ==
    /\ c \in issuing
    /\ issuing' = issuing \ {c}
    /\ credentials' \in {credentials} \cup {[credentials EXCEPT ![c] = ManifestOf[c, v]] : v \in {Issued[c], Values(c)}}
    /\ UNCHANGED <<edited, request, uploads, faults>>

Assessable(fields) == \E f \in FieldNames : fields[f].status = "ASSESSABLE"

\* The backfill script, which adds a manifest to an older row, built from the values it
\* selected at its start.  A document without a value that is found gets no manifest.
Backfill(c) ==
    /\ c \in Legacy /\ credentials[c].manifest = "none"
    /\ \E values \in {Issued[c], Values(c)} :
          /\ Assessable(ManifestOf[c, values].fields)
          /\ credentials' = [credentials EXCEPT ![c] = ManifestOf[c, values]]
    /\ UNCHANGED <<issuing, edited, request, uploads, faults>>

\* updateStudent
EditStudent == /\ edited' = TRUE
               /\ UNCHANGED <<credentials, issuing, request, uploads, faults>>

World == \/ \E c \in Creds : Register(c) \/ StoreManifest(c) \/ Backfill(c)
         \/ EditStudent

-----------------------------------------------------------------------------
(* A request.                                                              *)

WithFile == {"file", "credential_id_file", "public_token_file"}
Answers  == {"none", "BAD_REQUEST", "INVALID_FILE", "UNAVAILABLE", "KNOWN", "UNKNOWN", "TAMPERED"}

\* Where it stands, how it was asked and of what; the credential as read, how often it was
\* identified and by what; its result, the analysis of the file, what it has logged and
\* answered; and as history the credentials registered at the lookup.
Idle == [pc |-> "idle", method |-> "file", claim |-> NoCred, file |-> NoFile,
         row |-> NoRow, round |-> 0, by |-> "none", result |-> "none", analysis |-> NoAnalysis,
         logged |-> "none", answer |-> "none", known |-> {}]

At(pc) == request.pc = pc
Put(r) == /\ request' = r
          /\ UNCHANGED <<credentials, issuing, edited, uploads, faults>>

\* multer writes the file before the body is validated; validate removes it again.
Upload ==
    /\ At("idle")
    /\ \E method \in Methods \cap WithFile, claim \in Claims \cup {NoCred}, file \in Files :
          /\ method = "file" <=> claim = NoCred
          /\ request' = [Idle EXCEPT !.pc = "validate", !.method = method, !.claim = claim, !.file = file]
    /\ uploads' = uploads + 1
    /\ UNCHANGED <<credentials, issuing, edited, faults>>

\* Mutant: validate leaves it.
LeftBehindBug ==
    /\ At("validate")
    /\ \/ Put([request EXCEPT !.pc = "signature"])
       \/ Put([request EXCEPT !.pc = "done", !.answer = "BAD_REQUEST"])

Validate ==
    /\ At("validate")
    /\ \/ Put([request EXCEPT !.pc = "signature"])
       \/ Put([request EXCEPT !.pc = "cleanup", !.answer = "BAD_REQUEST"])

\* A request without a file.
Ask ==
    /\ At("idle")
    /\ \E method \in Methods \ WithFile, claim \in Claims :
          Put([Idle EXCEPT !.pc = "lookup", !.method = method, !.claim = claim])

\* Mutant: there is no verification to log.
UnloggedBug ==
    /\ At("signature")
    /\ IF request.file = NotPdf THEN Put([request EXCEPT !.pc = "cleanup", !.answer = "INVALID_FILE"])
       ELSE Put([request EXCEPT !.pc = "lookup"])

\* hasPdfSignature
Signature ==
    /\ At("signature")
    /\ IF request.file = NotPdf THEN Put([request EXCEPT !.pc = "log", !.result = "INVALID_FILE"])
       ELSE Put([request EXCEPT !.pc = "lookup"])

\* The credential a request is about: that with the file's hash, or the claimed one.
Wanted == IF request.method = "file" THEN {c \in Registered : Genuine[c] = request.file}
          ELSE Registered \cap {request.claim}

\* Mutant: a file is compared with the document it was found by.
ComparedAnywayBug(row) ==
    CASE row = NoRow /\ request.method = "file" -> "identify"
      [] row = NoRow /\ request.method \notin {"file", "hash"} -> "log"
      [] row # NoRow /\ request.method \in WithFile -> "official"
      [] OTHER -> "verify"

\* Where a request goes when its lookup has found row.
AfterLookup(row) ==
    CASE row = NoRow /\ request.method = "file" -> "identify"
      [] row = NoRow /\ request.method \notin {"file", "hash"} -> "log"
      [] row # NoRow /\ request.method \in WithFile /\ row.hash # request.file -> "official"
      [] OTHER -> "verify"
Lookup ==
    /\ At("lookup")
    /\ LET row == IF Wanted = {} THEN NoRow ELSE View(CHOOSE c \in Wanted : TRUE)
       IN Put([request EXCEPT !.pc = AfterLookup(row), !.row = row, !.known = Registered,
                              !.result = IF AfterLookup(row) = "log" THEN "UNKNOWN" ELSE "none"])

\* Mutant: the blocks are a loop.
RetryBug(found) ==
    [request EXCEPT !.pc = "identify", !.round = @ + 1]

\* A credential was identified, or not.  One whose document is the file after all is not
\* used.  The handler has this block twice; after that it goes on without a credential.
Identified(found) ==
    LET used == {h \in found : h.row.hash # request.file} IN
    IF used # {} THEN LET h == CHOOSE x \in used : TRUE
                      IN [request EXCEPT !.pc = "official", !.row = h.row, !.by = h.method]
    ELSE [request EXCEPT !.pc = IF request.round = 0 THEN "identify" ELSE "verify", !.round = @ + 1]

\* resolveCredentialFromPdf looks up the identifiers, and if none is known the student numbers.
Text == TextOf[request.file]
IdentifyById ==
    /\ At("identify") /\ request.file \in Documents
    /\ IF ByIdentifier(Text, Views) # {} THEN Put(Identified(ByIdentifier(Text, Views)))
       ELSE Put([request EXCEPT !.pc = "rank"])
IdentifyByNumber ==
    /\ At("rank")
    /\ \E found \in ByStudentNumber(Text, Views) : Put(Identified(Ranked(Text, found)))

\* It catches everything: a file it cannot read and a failing query identify nothing.
NotIdentified == request.pc \in {"identify", "rank"} /\ Put(Identified({}))

\* verifyCredentialState of the official document comes before the analysis.
OfficialState == At("official") /\ Put([request EXCEPT !.pc = "analyse"])

Analyse ==
    /\ At("analyse")
    /\ \E baseline, fetched \in BOOLEAN :
         Put([request EXCEPT !.pc = "log", !.result = "TAMPERED",
                             !.analysis = AnalysisOf(request.row, request.file, baseline, fetched)])

\* verifyKnownHash
Verify ==
    /\ At("verify")
    /\ Put([request EXCEPT !.pc = "log", !.result = IF request.row = NoRow THEN "UNKNOWN" ELSE "KNOWN"])

\* logOutcome: the verification log, then the audit log.
LogVerification ==
    At("log") /\ Put([request EXCEPT !.pc = "audit", !.logged = request.result])
Finish(answer) ==
    [request EXCEPT !.pc = IF request.method \in WithFile THEN "cleanup" ELSE "done", !.answer = answer]
LogAudit == At("audit") /\ Put(Finish(request.result))

\* Any of these may throw.  hasPdfSignature and the hash need the file, the others the
\* database or the chain; the analysis throws nothing.
Fail == /\ request.pc \in {"signature", "lookup", "official", "verify", "log", "audit"}
        /\ Put(Finish("UNAVAILABLE"))

\* finally removes the file, if it can; the answer has been sent, except by validate.
Cleanup ==
    /\ At("cleanup")
    /\ request' = [request EXCEPT !.pc = "done"]
    /\ \/ uploads' = uploads - 1 /\ UNCHANGED faults
       \/ faults < MaxFaults /\ faults' = faults + 1 /\ UNCHANGED uploads
    /\ UNCHANGED <<credentials, issuing, edited>>

\* The process stops: nobody removes the file.
Crash ==
    /\ request.pc \notin {"idle", "done"} /\ request.method \in WithFile
    /\ faults < MaxFaults
    /\ request' = Idle
    /\ faults' = faults + 1
    /\ UNCHANGED <<credentials, issuing, edited, uploads>>

Leave == At("done") /\ Put(Idle)

Handler == \/ Upload \/ Validate \/ Ask \/ Signature \/ Lookup \/ IdentifyById \/ IdentifyByNumber \/ NotIdentified
           \/ OfficialState \/ Analyse \/ Verify \/ LogVerification \/ LogAudit
           \/ Fail \/ Cleanup \/ Crash \/ Leave

Init ==
    /\ \E damaged \in SUBSET Legacy :
          credentials = [c \in Creds |-> CASE c \in damaged -> Damaged(c)
                                        [] c \in Legacy \ damaged -> Bare
                                        [] OTHER -> NoRow]
    /\ issuing = {}
    /\ edited = FALSE
    /\ request = Idle
    /\ uploads = 0
    /\ faults = 0

Next == World \/ Handler

Spec == Init /\ [][Next]_vars

-----------------------------------------------------------------------------
(* What holds of official documents; none of it mentions a request.        *)

\* Printouts with the words apart, and those that have them where they were.
WordsApart == {"whole", "resaved", "gapped", "enlarged"}
InPlace == {"whole", "resaved", "gapped"}
Edits(file) == {f \in FieldNames : file.shows[f] # Issued[file.of][f]}

\* On an official document the rows stand apart, as both analyses see them; and a value
\* that both find by its position alone does not begin with a row too narrow for that.
ManifestPages(file) == M!SemanticLayout(Rendered(file).pages)
AnchoredPages(file) == A!AnchoredLayout(Rendered(file).pages)
AnchorOf(c, values, f) == A!FindAnchor(AnchoredPages(Genuine[c]), f, A!AnchoredCandidates(f, values), values)
PositionsAreFound ==
    \A version \in Versions :
       LET file == Genuine[version[1]] IN
       /\ \A p \in DOMAIN ManifestPages(file) : M!StandApart(ManifestPages(file)[p])
       /\ \A p \in DOMAIN AnchoredPages(file) : A!StandApart(AnchoredPages(file)[p])
       /\ \A f \in FieldNames :
             LET placed == ManifestOf[version].fields[f].anchor
                 anchor == AnchorOf(version[1], version[2], f)
             IN /\ placed.type = "POSITION" => M!Covers(ManifestPages(file), placed)
                /\ anchor.type = "COORDINATE" => A!Covers(AnchoredPages(file), anchor)

\* That is so if the rows have some width and such a value stands on one row.
OnOneRow ==
    \A version \in Versions :
       LET file == Genuine[version[1]]
           manifest == ManifestPages(file)
           anchored == AnchoredPages(file)
       IN /\ \A p \in DOMAIN manifest : M!StandApart(manifest[p]) /\ M!Wide(manifest[p])
          /\ \A p \in DOMAIN anchored : A!StandApart(anchored[p]) /\ A!Wide(anchored[p])
          /\ \A f \in FieldNames :
                LET placed == ManifestOf[version].fields[f].anchor
                    anchor == AnchorOf(version[1], version[2], f)
                IN /\ placed.type = "POSITION" => placed.span = 1
                   /\ anchor.type = "COORDINATE" => anchor.span = 1

\* A printout that shows what was issued, with its words apart for the identification.
Unedited(file) == file.shows = Issued[file.of] /\ file.print # "spaced"

-----------------------------------------------------------------------------
TypeOK ==
    /\ \A c \in Creds : credentials[c] \in {NoRow} \cup Columns(c)
    /\ issuing \subseteq Registered
    /\ edited \in BOOLEAN
    /\ request.method \in Methods \cup {"file"} /\ request.claim \in Claims \cup {NoCred}
    /\ request.file \in Files \cup {NoFile}
    /\ request.row \in PossibleViews \cup {NoRow}
    /\ request.round \in 0..2
    /\ request.known \subseteq Registered
    /\ {request.result, request.logged, request.answer} \subseteq Answers
    /\ uploads \in Nat /\ faults \in 0..MaxFaults

\* The file is a printout of the document of the credential it is compared with.
OwnFile == /\ request.result = "TAMPERED"
           /\ request.file \in Documents /\ request.file.of = request.row.of
EditedFields == Edits(request.file)
Accused(fields) == {f \in FieldNames : fields[f] = "ALTERED"}

\* A copy of an official document with other metadata, but nothing else, is said to be
\* tampered with, and not to have an altered field.
Copies == {file \in Documents : Rendered(file).pages = Rendered(Genuine[file.of]).pages}
CopyIsNotAccused ==
    (OwnFile /\ request.file \in Copies) => Accused(request.analysis.fields) = {}

\* By its manifest a document is accused of exactly its edits, however it was printed: no
\* field that still shows what was issued, and every field the manifest can assess that now
\* shows something else.  A value that is gone may pass as not assessable.  The student may
\* have been edited since, or before the manifest was built.
ManifestIsExact ==
    (OwnFile /\ request.analysis.source = "PERSISTED_MANIFEST") =>
        LET accused == Accused(request.analysis.fields)
        IN /\ accused \subseteq EditedFields
           /\ \A f \in EditedFields : \/ f \in accused
                                      \/ request.row.fields[f].status # "ASSESSABLE"
                                      \/ request.file.shows[f] = <<>>

\* Without a baseline, by a manifest that is not the credential's, or from a file that cannot
\* be read, no field is ever said to be altered.
NothingIsInvented ==
    request.analysis.source \notin {"PERSISTED_MANIFEST", "LEGACY_BASELINE"} =>
      Accused(request.analysis.fields) = {}

\* Whatever else a document shows, its manifest does not accuse it of a field whose label,
\* context, sentence or place it still has, with the value there.
IntactIsNotAccused ==
    (OwnFile /\ request.analysis.source = "PERSISTED_MANIFEST") =>
      \A f \in Accused(request.analysis.fields) :
         ~M!Intact(ManifestPages(Genuine[request.row.of]), ManifestPages(request.file), request.row.fields[f].anchor)

\* Without a manifest a document is accused of no more than its edits, if its words are still
\* apart, by the lines of the official document; if they are where they were, by the anchored
\* analysis; and with nothing to compare it with, of nothing.
ComparisonsAccuseEdits ==
    /\ NothingIsInvented
    /\ OwnFile /\ request.file.print \in WordsApart => Accused(request.analysis.fields) \subseteq EditedFields
    /\ OwnFile /\ request.file.print \in InPlace =>
         Accused(AnchoredOf[<<request.row.of, request.row.values>>, request.file]) \subseteq EditedFields

\* A printout that still shows everything, with its words apart, is never taken for another
\* credential's, not even one of the same student, if its own was registered when asked, and
\* no more than are read for a student number.
ResolvedIsItsSource ==
    (/\ request.by # "none" /\ Unedited(request.file)
     /\ request.file.of \in request.known /\ Cardinality(request.known) <= MaxRows) =>
        request.row.of = request.file.of

\* The official document of a credential that was registered when the request asked is
\* answered as that credential, and never as unknown or as tampered.
GenuineIsRecognised ==
    \A c \in request.known :
       (request.method = "file" /\ request.file = Genuine[c]) =>
           /\ request.row # NoRow /\ request.row.of = c
           /\ request.answer \notin {"UNKNOWN", "TAMPERED"}

\* Nobody is told the outcome of a verification that is not in the verification log.
AnswersAreLogged ==
    request.answer \in {"INVALID_FILE", "KNOWN", "UNKNOWN", "TAMPERED"} => request.logged = request.answer

\* An uploaded file is removed when its request ends: what lies in certificates-temp is the
\* present request's, or was left there by a crash or a failing unlink.
LeftFilesAreFaults ==
    uploads = faults + (IF request.method \in WithFile /\ request.pc \notin {"idle", "done"} THEN 1 ELSE 0)
=============================================================================
