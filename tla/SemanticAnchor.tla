---------------------------- MODULE SemanticAnchor ----------------------------
(***************************************************************************)
(* The anchored analysis: the official document says where the value of a  *)
(* field stands, and the submitted one is read at the same anchor.  It     *)
(* differs from the manifest in how rows are built, in what counts as a    *)
(* label or a context, in the forms of a date it knows, and in that it     *)
(* calls a value that has become empty altered.                            *)
(***************************************************************************)
EXTENDS PdfLayout

\* candidatesFor: the texts a value may be printed as.
AnchoredForms == {"iso", "dash", "slash", "long", "us", "year slash"}
AnchoredCandidates(f, credential) ==
    IF f = "issue_date" THEN {<<Written[form][credential.issue_date]>> : form \in AnchoredForms}
    ELSE {Norm(credential[f])} \ {<<>>}

\* matchLabel: a row that is a label, or a label with a separator and a value.
MatchLabel(row, labels) ==
    LET Rest(l) == Norm(SubSeq(row, Len(l) + 1, Len(row)))
        found == Earliest({i \in DOMAIN labels :
                          /\ IsPrefix(labels[i], row)
                          /\ Rest(labels[i]) = <<>> \/ Head(Rest(labels[i])) \in {":", "-"}})
        Value(l) == IF Rest(l) = <<>> THEN <<>> ELSE Norm(Tail(Rest(l)))
    IN {[label |-> labels[i], value |-> Value(labels[i])] : i \in found}

IsAnyLabel(rows, r) ==
    r \in DOMAIN rows /\ \E f \in FieldNames : MatchLabel(rows[r].text, Labels[f]) # {}

\* The value below row r: one row, or two if the first is no label itself.
ValueBelow(rows, r, candidates) ==
    LET fit == {span \in {1, 2} : CombineRows(rows, r + 1, span) \in candidates}
    IN IF fit = {} \/ (Least(fit) = 2 /\ IsAnyLabel(rows, r + 1)) THEN {} ELSE {Least(fit)}

LabelAnchors(layout, f, candidates) ==
    Only(UNION {
      {IF l.value \in candidates
       THEN Hit(at, 1, Anchor("LABEL", layout, at, l.label, at[2], 1))
       ELSE LET span == Least(ValueBelow(layout[at[1]], at[2], candidates))
            IN Hit(at, span, Anchor("LABEL_NEXT", layout, at, l.label, at[2] + 1, span)) :
         l \in {m \in MatchLabel(RowAt(layout, at).text, Labels[f]) :
                  m.value \in candidates \/ ValueBelow(layout[at[1]], at[2], candidates) # {}}} :
      at \in Places(layout)})

\* The row must be the context, not merely begin with it.
ContextAnchors(layout, f, candidates) ==
    LET Fit(at) == {span \in {1, 2} : CombineRows(layout[at[1]], at[2] + 1, span) \in candidates}
    IN Only({Hit(at, Least(Fit(at)),
                 Anchor("CONTEXT_NEXT", layout, at, RowAt(layout, at).text, at[2] + 1, Least(Fit(at)))) :
               at \in {a \in Places(layout) : RowAt(layout, a).text \in Contexts(f) /\ Fit(a) # {}}})

IssuedAnchor(layout, f, candidates) ==
    IF f \notin IssuedFields THEN NoAnchor
    ELSE Only({Hit(at, 1, Anchor("ISSUED_SENTENCE", layout, at, <<>>, at[2], 1)) :
                 at \in {a \in Places(layout) :
                           /\ IssuedParts(RowAt(layout, a).text) # {}
                           /\ IssuedPart(RowAt(layout, a).text, f) \in candidates}})

CoordinateAnchor(layout, f, candidates, credential) ==
    IF \E g \in FieldNames \ {f} : AnchoredCandidates(g, credential) \cap candidates # {} THEN NoAnchor
    ELSE Only({Hit(h[1], h[2], Anchor("COORDINATE", layout, h[1], <<>>, h[1][2], h[2])) :
                 h \in {g \in Places(layout) \X {1, 2} :
                          CombineRows(layout[g[1][1]], g[1][2], g[2]) \in candidates}})

FindAnchor(layout, f, candidates, credential) ==
    FirstAnchor(<<LabelAnchors(layout, f, candidates),
                  ContextAnchors(layout, f, candidates),
                  IssuedAnchor(layout, f, candidates),
                  CoordinateAnchor(layout, f, candidates, credential)>>)

-----------------------------------------------------------------------------
(* What stands at an anchor: a set of one text, or none where the code     *)
(* returns null.                                                           *)

ResolveLabel(rows, f, a) ==
    LET own == {r \in DOMAIN rows : \E l \in MatchLabel(rows[r].text, Labels[f]) : l.label = a.of}
        Value(r) == (CHOOSE l \in MatchLabel(rows[r].text, Labels[f]) : TRUE).value
    IN {IF a.type = "LABEL" THEN Value(r) ELSE CombineRows(rows, r + 1, a.span) : r \in Sole(own)}

ResolveContext(rows, a) ==
    LET own == {r \in DOMAIN rows : rows[r].text = a.of}
    IN {CombineRows(rows, r + 1, a.span) : r \in Sole(own)}

ResolveIssued(rows, f) ==
    LET own == {r \in DOMAIN rows : IssuedParts(rows[r].text) # {}}
    IN {IssuedPart(rows[r].text, f) : r \in Sole(own)}

ResolveCoordinate(rows, a) ==
    LET r == NearestRow(rows, a.box, Larger(80, (3 * a.box.height) \div 2))
    IN IF r = 0 THEN {} ELSE {CombineRows(rows, r, a.span)}

ResolveAnchor(layout, f, a) ==
    IF a.page \notin DOMAIN layout THEN {}
    ELSE CASE a.type \in {"LABEL", "LABEL_NEXT"} -> ResolveLabel(layout[a.page], f, a)
           [] a.type = "CONTEXT_NEXT"    -> ResolveContext(layout[a.page], a)
           [] a.type = "ISSUED_SENTENCE" -> ResolveIssued(layout[a.page], f)
           [] a.type = "COORDINATE"      -> ResolveCoordinate(layout[a.page], a)

AnchoredLayout(pages) == Listed([p \in DOMAIN pages |-> AnchorRows(pages[p])])

AnchoredVerdict(official, submitted, f, credential) ==
    LET candidates == AnchoredCandidates(f, credential)
        anchor == FindAnchor(official, f, candidates, credential)
        found == ResolveAnchor(submitted, f, anchor)
    IN CASE candidates = {} -> "NOT_AVAILABLE"
         [] candidates # {} /\ (anchor = NoAnchor \/ found = {}) -> "NOT_ASSESSABLE"
         [] OTHER -> IF found \subseteq candidates THEN "UNCHANGED" ELSE "ALTERED"

AnalyseAnchored(officialPages, submittedPages, credential) ==
    LET official == AnchoredLayout(officialPages)
        submitted == AnchoredLayout(submittedPages)
    IN Table([f \in FieldNames |-> AnchoredVerdict(official, submitted, f, credential)])
=============================================================================
