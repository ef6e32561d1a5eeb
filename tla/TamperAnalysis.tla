---------------------------- MODULE TamperAnalysis ----------------------------
(***************************************************************************)
(* What is said about an uploaded document that is not the official one:   *)
(* which fields were altered, by the credential's semantic manifest or, if *)
(* it has none, by comparing lines with the official document; and how its *)
(* structure differs.                                                      *)
(***************************************************************************)
EXTENDS PdfStructure

M == INSTANCE SemanticManifest
A == INSTANCE SemanticAnchor
T == INSTANCE LegacyText

Silent(status) == Table([f \in FieldNames |-> status])

\* resolvePersistedSemanticManifest: a manifest that is there must be of the version and of
\* the source the row says, and its source must be the credential's own document.
ManifestState(row) ==
    CASE row.manifest = "none" -> "absent"
      [] row.manifest # "none" /\ row.version = 1 /\ row.source = row.hash -> "valid"
      [] OTHER -> "invalid"

NoAnalysis ==
    [available |-> FALSE, source |-> "none", fields |-> Silent("NOT_AVAILABLE"),
     structure |-> [available |-> FALSE, changes |-> {}]]

\* analyseSemanticChanges over the lines of both documents.  The official one is the
\* baseline; it is fetched, and without it there is none.
Compared(values, official, submitted, baseline) ==
    [source |-> IF baseline THEN "LEGACY_BASELINE" ELSE "LEGACY_NO_BASELINE",
     fields |-> T!AnalyseSemanticChanges(values, submitted, IF baseline THEN official ELSE <<>>)]

\* analyseTamperedPdf.  What the manifest says counts if it is valid, what the comparison
\* says if there is none; an invalid manifest fails closed, whatever the lines would say.
\* A file that cannot be read makes everything unavailable.
AnalyseTamperedPdf(row, verified, compared, structure, readable) ==
    LET state == ManifestState(row) IN
    CASE ~readable /\ state # "invalid" -> NoAnalysis
      [] readable /\ state = "valid" ->
           [available |-> TRUE, source |-> "PERSISTED_MANIFEST", fields |-> verified, structure |-> structure]
      [] readable /\ state = "absent" ->
           [available |-> TRUE, source |-> compared.source, fields |-> compared.fields, structure |-> structure]
      [] state = "invalid" ->
           [available |-> TRUE, source |-> "PERSISTED_MANIFEST_INVALID",
            fields |-> Silent("NOT_AVAILABLE"), structure |-> structure]
=============================================================================
