--------------------------- MODULE SemanticManifest ---------------------------
(***************************************************************************)
(* The semantic manifest of a certificate: written at issuance, it says    *)
(* where on the official document the value of each field stands, and is   *)
(* compared with what stands there on a document somebody uploads.         *)
(*                                                                         *)
(* A layout is a sequence of pages, a page a sequence of rows.  <<>>       *)
(* stands for a missing value, NoAnchor for null.                          *)
(***************************************************************************)
EXTENDS PdfLayout

\* parseLabel: the row begins with a label, perhaps followed by ":" or "-".
ParseLabel(row, labels) ==
    LET found == Earliest({i \in DOMAIN labels : IsPrefix(labels[i], row)})
        Rest(l) == Norm(SubSeq(row, Len(l) + 1, Len(row)))
        Value(l) == IF Rest(l) # <<>> /\ Head(Rest(l)) \in {":", "-"} THEN Norm(Tail(Rest(l)))
                    ELSE Rest(l)
    IN {[label |-> labels[i], value |-> Value(labels[i])] : i \in found}

\* valueEquals, for an official value in canonical form.
ValueEquals(f, candidate, official) ==
    LET c == CanonicalizeFieldValue(f, candidate) IN c # <<>> /\ c = official

\* How many rows from first on make up the value: the first of 1 and 2 that do.
Spans(f, rows, first, official) ==
    LET fit == {span \in {1, 2} : ValueEquals(f, CombineRows(rows, first, span), official)}
    IN IF fit = {} THEN {} ELSE {Least(fit)}

FindLabelAnchor(layout, f, official) ==
    Only(UNION {
      {IF ValueEquals(f, l.value, official)
       THEN Hit(at, 1, Anchor("LABEL_INLINE", layout, at, l.label, at[2], 1))
       ELSE LET span == Least(Spans(f, layout[at[1]], at[2] + 1, official))
            IN Hit(at, span, Anchor("LABEL_NEXT", layout, at, l.label, at[2] + 1, span)) :
         l \in {m \in ParseLabel(RowAt(layout, at).text, Labels[f]) :
                  \/ ValueEquals(f, m.value, official)
                  \/ Spans(f, layout[at[1]], at[2] + 1, official) # {}}} :
      at \in Places(layout)})

FindContextAnchor(layout, f, official) ==
    Only(UNION {
      {Hit(at, span, Anchor("CONTEXT_NEXT", layout, at,
                            CHOOSE c \in Contexts(f) : IsPrefix(c, RowAt(layout, at).text),
                            at[2] + 1, span)) :
         span \in Spans(f, layout[at[1]], at[2] + 1, official)} :
      at \in {a \in Places(layout) : \E c \in Contexts(f) : IsPrefix(c, RowAt(layout, a).text)}})

FindIssuedByAnchor(layout, f, official) ==
    IF f \notin IssuedFields THEN NoAnchor
    ELSE Only({Hit(at, 1, Anchor("ISSUED_BY", layout, at, <<>>, at[2], 1)) :
                 at \in {a \in Places(layout) :
                           /\ IssuedParts(RowAt(layout, a).text) # {}
                           /\ ValueEquals(f, IssuedPart(RowAt(layout, a).text, f), official)}})

\* A value without a label: it stands once on the document and belongs to one field.  On
\* the last row of a page it is found with a span of one and with a span of two.
FindUniqueValueAnchor(layout, f, official, values) ==
    IF \E g \in FieldNames \ {f} : CanonicalizeFieldValue(g, values[g]) = official THEN NoAnchor
    ELSE Only({Hit(h[1], h[2], Anchor("POSITION", layout, h[1], <<>>, h[1][2], h[2])) :
                 h \in {g \in Places(layout) \X {1, 2} :
                          ValueEquals(f, CombineRows(layout[g[1][1]], g[1][2], g[2]), official)}})

BuildFieldManifest(layout, f, values) ==
    LET official == CanonicalizeFieldValue(f, values[f])
        anchor == FirstAnchor(<<FindLabelAnchor(layout, f, official),
                                FindContextAnchor(layout, f, official),
                                FindIssuedByAnchor(layout, f, official),
                                FindUniqueValueAnchor(layout, f, official, values)>>)
    IN CASE Norm(values[f]) = <<>> -> [status |-> "NOT_AVAILABLE", value |-> <<>>, anchor |-> NoAnchor]
         [] Norm(values[f]) # <<>> /\ (official = <<>> \/ anchor = NoAnchor) ->
              [status |-> "NOT_ASSESSABLE", value |-> <<>>, anchor |-> NoAnchor]
         [] OTHER -> [status |-> "ASSESSABLE", value |-> official, anchor |-> anchor]

\* extractSemanticLayout
SemanticLayout(pages) == Listed([p \in DOMAIN pages |-> VisualRows(pages[p])])

BuildSemanticManifest(pages, values) ==
    LET layout == SemanticLayout(pages)
    IN Table([f \in FieldNames |-> BuildFieldManifest(layout, f, values)])

-----------------------------------------------------------------------------
(* What a submitted document shows where the manifest says.                *)

\* The one element of a set of rows, or 0.
OneOf(rows) == IF Sole(rows) = {} THEN 0 ELSE CHOOSE r \in Sole(rows) : TRUE

ExtractByLabel(rows, a) ==
    LET r == OneOf({q \in DOMAIN rows : ParseLabel(rows[q].text, <<a.of>>) # {}})
    IN CASE r = 0 -> <<>>
         [] r # 0 /\ a.type = "LABEL_INLINE" ->
              (CHOOSE l \in ParseLabel(rows[r].text, <<a.of>>) : TRUE).value
         [] r # 0 /\ a.type = "LABEL_NEXT" -> CombineRows(rows, r + 1, a.span)

ExtractByContext(rows, a) ==
    LET r == OneOf({q \in DOMAIN rows : IsPrefix(a.of, rows[q].text)})
    IN IF r = 0 THEN <<>> ELSE CombineRows(rows, r + 1, a.span)

ExtractIssuedBy(rows, f) ==
    LET r == OneOf({q \in DOMAIN rows : IssuedParts(rows[q].text) # {}})
    IN IF r = 0 THEN <<>> ELSE IssuedPart(rows[r].text, f)

ExtractByPosition(rows, a) ==
    LET r == NearestRow(rows, a.box, Larger((PageHeight * 15) \div 1000, 2 * a.box.height))
    IN IF r = 0 THEN <<>> ELSE CombineRows(rows, r, a.span)

ExtractSubmittedValue(layout, f, a) ==
    CASE a.page \notin DOMAIN layout -> <<>>
      [] a.page \in DOMAIN layout /\ a.type \in {"LABEL_INLINE", "LABEL_NEXT"} ->
           ExtractByLabel(layout[a.page], a)
      [] a.page \in DOMAIN layout /\ a.type = "CONTEXT_NEXT" -> ExtractByContext(layout[a.page], a)
      [] a.page \in DOMAIN layout /\ a.type = "ISSUED_BY" -> ExtractIssuedBy(layout[a.page], f)
      [] a.page \in DOMAIN layout /\ a.type = "POSITION" -> ExtractByPosition(layout[a.page], a)

\* Mutant: what is not found has been altered.
AbsentIsAlteredBug(layout, f, stored) ==
    LET found == CanonicalizeFieldValue(f, ExtractSubmittedValue(layout, f, stored.anchor))
    IN CASE stored.status # "ASSESSABLE" -> stored.status
         [] stored.status = "ASSESSABLE" ->
              IF found = stored.value THEN "UNCHANGED" ELSE "ALTERED"

FieldVerdict(layout, f, stored) ==
    LET found == CanonicalizeFieldValue(f, ExtractSubmittedValue(layout, f, stored.anchor))
    IN CASE stored.status # "ASSESSABLE" -> stored.status
         [] stored.status = "ASSESSABLE" /\ found = <<>> -> "NOT_ASSESSABLE"
         [] stored.status = "ASSESSABLE" /\ found # <<>> ->
              IF found = stored.value THEN "UNCHANGED" ELSE "ALTERED"

VerifySemanticManifest(manifest, pages) ==
    LET layout == SemanticLayout(pages)
    IN Table([f \in FieldNames |-> FieldVerdict(layout, f, manifest[f])])

-----------------------------------------------------------------------------
(* A document that still has what an anchor is about, whatever else it     *)
(* shows, and wherever, if that is not found by its place.                 *)

\* The rows of a page with the label, the context or the sentence, or at the place.
CueRows(rows, a) ==
    {r \in DOMAIN rows :
       CASE a.type \in {"LABEL_INLINE", "LABEL_NEXT"} -> ParseLabel(rows[r].text, <<a.of>>) # {}
         [] a.type = "CONTEXT_NEXT" -> IsPrefix(a.of, rows[r].text)
         [] a.type = "ISSUED_BY" -> IssuedParts(rows[r].text) # {}
         [] OTHER -> rows[r].y = a.box.y}

\* Row q of another page is as row r, and so is what follows it where the value is read from.
SameAt(official, r, submitted, q, a) ==
    CASE a.type \in {"LABEL_NEXT", "CONTEXT_NEXT"} ->
           /\ submitted[q].text = official[r].text
           /\ CombineRows(submitted, q + 1, a.span) = CombineRows(official, r + 1, a.span)
      [] a.type = "POSITION" ->
           /\ submitted[q].y = official[r].y
           /\ EnoughOverlap(a.box.x1, a.box.x2, submitted[q].x1, submitted[q].x2)
           /\ CombineRows(submitted, q, a.span) = CombineRows(official, r, a.span)
      [] OTHER -> submitted[q].text = official[r].text

Intact(official, submitted, a) ==
    /\ a.page \in DOMAIN submitted
    /\ a.type = "POSITION" => StandApart(submitted[a.page])
    /\ \A r \in CueRows(official[a.page], a) :
          \E q \in DOMAIN submitted[a.page] : SameAt(official[a.page], r, submitted[a.page], q, a)
=============================================================================
