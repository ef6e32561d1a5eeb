------------------------------ MODULE LegacyText ------------------------------
(***************************************************************************)
(* The comparison without a manifest: the lines of the official and of the *)
(* submitted document are parsed into fields, and a field is called        *)
(* altered only if it is certain whose value it is.                        *)
(***************************************************************************)
EXTENDS PdfLayout

\* candidatesFor
LegacyForms == {"iso", "dash", "slash", "long", "us comma"}
LegacyCandidates(f, credential) ==
    IF f = "issue_date" THEN {<<Written[form][credential.issue_date]>> : form \in LegacyForms}
    ELSE {Norm(credential[f])} \ {<<>>}

\* labelledLine: a label alone, or with a separator and perhaps a value.
LabelledLine(line) ==
    UNION {{[field |-> f,
             value |-> IF line = l THEN <<>> ELSE Norm(Tail(Norm(SubSeq(line, Len(l) + 1, Len(line)))))] :
              l \in {m \in ToSet(Labels[f]) :
                       /\ IsPrefix(m, line)
                       /\ LET rest == Norm(SubSeq(line, Len(m) + 1, Len(line)))
                          IN rest = <<>> \/ Head(rest) \in {":", "-"}}} : f \in FieldNames}

IsContextCue(line) ==
    line \in HolderContexts \cup QualificationContexts \/ IsPrefix(Append(IssuedBy, " "), line)

IsPlain(line) == LabelledLine(line) = {} /\ ~IsContextCue(line)

\* pushParsedField: an empty value is kept, a value that is there already is not.
PushParsedField(fields, f, value) ==
    IF value # <<>> /\ value \in ToSet(fields[f]) THEN fields
    ELSE [fields EXCEPT ![f] = Append(@, value)]

\* A value taken from the line below line i.
Take(parsed, lines, i, f) ==
    [fields |-> PushParsedField(parsed.fields, f, lines[i + 1]),
     consumed |-> parsed.consumed \cup {i, i + 1}]

\* The first pass meets a line with a label.
ParseLabelled(parsed, lines, i) ==
    LET l == CHOOSE x \in LabelledLine(lines[i]) : TRUE IN
    IF l.value = <<>> /\ i < Len(lines) /\ IsPlain(lines[i + 1]) THEN Take(parsed, lines, i, l.field)
    ELSE [fields |-> PushParsedField(parsed.fields, l.field, l.value),
          consumed |-> parsed.consumed \cup {i}]

\* The second pass meets a context above a line nobody has taken, or the issued sentence.
ParseContext(parsed, lines, i) ==
    LET f == IF lines[i] \in HolderContexts THEN "student_name" ELSE "qualification"
        free == i < Len(lines) /\ i + 1 \notin parsed.consumed /\ IsPlain(lines[i + 1])
        issued == IssuedParts(lines[i])
        parts == CHOOSE p \in issued : TRUE
    IN CASE lines[i] \in HolderContexts \cup QualificationContexts /\ free -> Take(parsed, lines, i, f)
         [] lines[i] \in HolderContexts \cup QualificationContexts /\ ~free ->
              [parsed EXCEPT !.consumed = @ \cup {i}]
         [] lines[i] \notin HolderContexts \cup QualificationContexts /\ issued # {} ->
              [fields |-> PushParsedField(
                            PushParsedField(parsed.fields, "institution_name", parts.institution_name),
                            "issue_date", parts.issue_date),
               consumed |-> parsed.consumed \cup {i}]
         [] OTHER -> parsed

ParseFields(lines) ==
    LET none == [fields |-> [f \in FieldNames |-> <<>>], consumed |-> {}]
        rows == [i \in DOMAIN lines |-> i]
        first == FoldLeft(LAMBDA parsed, i : IF LabelledLine(lines[i]) = {} THEN parsed
                                             ELSE ParseLabelled(parsed, lines, i), none, rows)
        both == FoldLeft(LAMBDA parsed, i : ParseContext(parsed, lines, i), first, rows)
        free == SelectSeq(rows, LAMBDA i : i \notin both.consumed)
    IN [fields |-> both.fields, unclaimed |-> [k \in DOMAIN free |-> lines[free[k]]]]

-----------------------------------------------------------------------------
\* Runs of up to three adjacent lines.
Segments(lines) ==
    {s \in (DOMAIN lines) \X (DOMAIN lines) : s[1] <= s[2] /\ s[2] < s[1] + 3}
SegmentText(lines, s) == Joined(SubSeq(lines, s[1], s[2]))

\* findUniqueCandidateInLines
FoundOnce(lines, candidates) ==
    Cardinality({s \in Segments(lines) : SegmentText(lines, s) \in candidates}) = 1

\* The lines that are the value.
Matching(lines, candidates) == {i \in DOMAIN lines : lines[i] \in candidates}

\* reconstructLabelledCandidate: the labelled text is the value, or becomes it with one
\* run of unclaimed lines before or after it.
Reconstructs(base, unclaimed, candidates) ==
    \/ base \in candidates
    \/ /\ base # <<>>
       /\ LET Hits(order(_)) == {s \in Segments(unclaimed) : order(SegmentText(unclaimed, s)) \in candidates}
              After(t) == base \o <<" ">> \o t
              Before(t) == t \o <<" ">> \o base
              both == {s \in Hits(After) \cap Hits(Before) :
                         After(SegmentText(unclaimed, s)) = Before(SegmentText(unclaimed, s))}
          IN Cardinality(Hits(After)) + Cardinality(Hits(Before) \ both) = 1

\* Some other field, or any field, shows one of the candidates.
ShownBy(fields, names, candidates) ==
    \E g \in names : \E i \in DOMAIN fields[g] : fields[g][i] \in candidates

\* A field that carries a label, a context or the issued sentence on the official document.
LabelledVerdict(f, original, submitted, candidates) ==
    LET base == original.fields[f]  sub == submitted.fields[f]
        known == Len(base) = 1 /\ Reconstructs(base[1], original.unclaimed, candidates)
        elsewhere == ShownBy(submitted.fields, FieldNames \ {f}, candidates)
    IN CASE ~known \/ elsewhere \/ Len(sub) > 1 -> "NOT_ASSESSABLE"
         [] known /\ ~elsewhere /\ Len(sub) = 0 ->
              IF FoundOnce(submitted.unclaimed, candidates) THEN "UNCHANGED" ELSE "NOT_ASSESSABLE"
         [] known /\ ~elsewhere /\ Len(sub) = 1 ->
              IF Reconstructs(sub[1], submitted.unclaimed, candidates) THEN "UNCHANGED" ELSE "ALTERED"

\* Mutant: it does not matter where else the value stands now.
GoneIsAlteredBug(f, credential, original, submitted, candidates) ==
    LET sub == submitted.fields[f]
        known == /\ Cardinality(Matching(original.unclaimed, candidates)) = 1
                 /\ \A g \in FieldNames \ {f} : LegacyCandidates(g, credential) \cap candidates = {}
        now == Matching(submitted.unclaimed, candidates)
    IN CASE ~known \/ Len(sub) > 1 -> "NOT_ASSESSABLE"
         [] known /\ Len(sub) = 1 -> IF sub[1] \in candidates THEN "UNCHANGED" ELSE "ALTERED"
         [] known /\ Len(sub) = 0 -> IF now # {} THEN "UNCHANGED" ELSE "ALTERED"

\* A field without one, which must be a whole line, once, of one field only.
UnlabelledVerdict(f, credential, original, submitted, candidates) ==
    LET sub == submitted.fields[f]
        known == /\ Cardinality(Matching(original.unclaimed, candidates)) = 1
                 /\ \A g \in FieldNames \ {f} : LegacyCandidates(g, credential) \cap candidates = {}
        now == Matching(submitted.unclaimed, candidates)
        moved == \/ ShownBy(submitted.fields, FieldNames, candidates)
                 \/ \E i, j \in DOMAIN submitted.unclaimed :
                       i < j /\ Joined(SubSeq(submitted.unclaimed, i, j)) \in candidates
    IN CASE ~known \/ Len(sub) > 1 -> "NOT_ASSESSABLE"
         [] known /\ Len(sub) = 1 -> IF sub[1] \in candidates THEN "UNCHANGED" ELSE "ALTERED"
         [] known /\ Len(sub) = 0 ->
              CASE Cardinality(now) = 1 -> "UNCHANGED"
                [] Cardinality(now) > 1 \/ (now = {} /\ moved) -> "NOT_ASSESSABLE"
                [] now = {} /\ ~moved -> "ALTERED"

\* analyseSemanticChanges; without a baseline its text is empty.
AnalyseSemanticChanges(credential, submittedLines, baselineLines) ==
    LET original == ParseFields(baselineLines)
        submitted == ParseFields(submittedLines)
        Verdict(f) ==
          LET candidates == LegacyCandidates(f, credential) IN
          CASE candidates = {} -> "NOT_AVAILABLE"
            [] candidates # {} /\ baselineLines = <<>> -> "NOT_ASSESSABLE"
            [] candidates # {} /\ baselineLines # <<>> /\ original.fields[f] # <<>> ->
                 LabelledVerdict(f, original, submitted, candidates)
            [] OTHER -> UnlabelledVerdict(f, credential, original, submitted, candidates)
    IN Table([f \in FieldNames |-> Verdict(f)])
=============================================================================
