------------------------- MODULE CredentialResolution -------------------------
(***************************************************************************)
(* Which credential an uploaded document that is no registered one was     *)
(* made from: by an identifier printed on it, or by a student number and   *)
(* how many of the credential's values the document shows.                 *)
(*                                                                         *)
(* rows is the set of credentials the database returned, each with its id, *)
(* its public token and the values of its row joined with its student.     *)
(***************************************************************************)
EXTENDS PdfLayout

CONSTANTS
    Uuids,            \* tokens that look like a UUID
    StudentPatterns,  \* the patterns of student numbers, each the tokens that match it
    MaxIdentifiers,   \* of each kind; 12
    MaxRows           \* that are read for a student number; 20

ASSUME ResolutionAssumption == MaxIdentifiers \in Nat \ {0} /\ MaxRows \in Nat \ {0}

\* The first identifiers that match some patterns: each once, pattern by pattern, in the
\* order of the text.
Identifiers(text, patterns) ==
    LET matches == FlattenSeq([k \in DOMAIN patterns |-> SelectSeq(text, LAMBDA t : t \in patterns[k])])
        all == Kept(matches, LAMBDA i : ~\E j \in 1..i - 1 : matches[j] = matches[i])
    IN SubSeq(all, 1, Smaller(Len(all), MaxIdentifiers))

\* The text in which identifiers and values are looked for.
DocumentText(lines) == Norm(Joined(lines))

Found(method, row) == [method |-> method, row |-> row]

\* The loop over UUIDs: each is looked up as an id, then as a public token.
ByIdentifier(text, rows) ==
    LET uuids == Identifiers(text, <<Uuids>>)
        Hits(u) == {Found("CREDENTIAL_ID", r) : r \in {q \in rows : q.id = u}}
        Tokens(u) == {Found("PUBLIC_TOKEN", r) : r \in {q \in rows : q.token = u}}
        known == Earliest({i \in DOMAIN uuids : Hits(uuids[i]) \cup Tokens(uuids[i]) # {}})
    IN UNION {IF Hits(uuids[i]) # {} THEN Hits(uuids[i]) ELSE Tokens(uuids[i]) : i \in known}

\* findCredentialsByStudentNumberForVerification, for all numbers on the document.  Of a
\* number with more rows than are read their status and age decide which; that is left open.
ByStudentNumber(text, rows) ==
    LET read == Identifiers(text, StudentPatterns)
        numbers == {<<read[i]>> : i \in DOMAIN read}
        Of(some, number) == {r \in some : r.values.student_number = number}
    IN {found \in SUBSET rows :
          /\ \A r \in found : r.values.student_number \in numbers
          /\ \A number \in numbers :
                Cardinality(Of(found, number)) = Smaller(MaxRows, Cardinality(Of(rows, number)))}

\* scoreCandidate: what the document shows of a credential, and what that weighs.
Shows(text, value) == value # <<>> /\ Includes(text, Norm(value))
ScoredFields == {"student_number", "student_name", "institution_name", "programme", "qualification"}
Evidence(text, row) ==
    {f \in ScoredFields : Shows(text, row.values[f])}
    \cup {f \in {"issue_date"} : \E form \in {"iso", "slash"} :
                                    Includes(text, <<Written[form][row.values.issue_date]>>)}
Weight(f) == CASE f = "student_number" -> 6
               [] f = "issue_date" -> 1
               [] OTHER -> 3
Score(text, row) ==
    LET evidence == Evidence(text, row)
        Points(f) == IF f \in evidence THEN Weight(f) ELSE 0
    IN Points("student_number") + Points("student_name") + Points("institution_name")
       + Points("programme") + Points("qualification") + Points("issue_date")

\* Mutant: the first row the database returns.
FirstRowBug(text, rows) ==
    {Found("DOCUMENT_ATTRIBUTES", r) :
       r \in {q \in rows : Score(text, q) >= 6 /\ q = CHOOSE o \in rows : TRUE}}

\* The ranking: the best candidate, if it is two points ahead of the second.
Ranked(text, rows) ==
    {Found("DOCUMENT_ATTRIBUTES", r) :
       r \in {q \in rows : /\ Score(text, q) >= 6
                           /\ \A o \in rows \ {q} : Score(text, q) - Score(text, o) >= 2}}
=============================================================================
