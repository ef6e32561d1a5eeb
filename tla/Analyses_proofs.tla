--------------------------- MODULE Analyses_proofs ---------------------------
(* Of what the analyses say of a document, for any rows, values and layouts: *)
(* that they find their own document unchanged, and that the manifest does   *)
(* not accuse what is still on a document, whatever else is.  How rows are   *)
(* built from the items of a page is left to the hypotheses.                 *)
EXTENDS TamperAnalysis, FiniteSetTheorems, TLAPS

-----------------------------------------------------------------------------
(* The semantic manifest, held against the document it was built from.       *)

\* An anchor that counts is that of a match.
LEMMA OnlyIsAHit ==
  ASSUME NEW hits, M!Only(hits) # M!NoAnchor
  PROVE  \E h \in hits : M!Only(hits) = h.anchor
BY DEF M!Only, M!Sole

\* The first anchor there is, is one of them.
LEMMA FirstAnchorIsOne ==
  ASSUME NEW a, NEW b, NEW c, NEW d, M!FirstAnchor(<<a, b, c, d>>) # M!NoAnchor
  PROVE  M!FirstAnchor(<<a, b, c, d>>) \in {a, b, c, d}
BY DEF M!FirstAnchor, M!Earliest

\* If a row is among some, it is the only one or there is no only one.
LEMMA OneOfIsIt ==
  ASSUME NEW rows, NEW r \in rows PROVE M!OneOf(rows) \in {0, r}
BY DEF M!OneOf, M!Sole

\* An anchor keeps its type, its page, what it is of and its span.
LEMMA AnchorFields ==
  ASSUME NEW type, NEW layout, NEW at, NEW of, NEW first, NEW span
  PROVE  LET a == M!Anchor(type, layout, at, of, first, span)
         IN a.type = type /\ a.page = at[1] /\ a.of = of /\ a.span = span
BY DEF M!Anchor

\* The number of rows chosen for a value is one that fits, and is the least.
LEMMA SpansFit ==
  ASSUME NEW f, NEW rows, NEW first, NEW official, NEW span \in M!Spans(f, rows, first, official)
  PROVE  /\ M!ValueEquals(f, M!CombineRows(rows, first, span), official)
         /\ M!Least(M!Spans(f, rows, first, official)) = span
<1> DEFINE fit == {s \in {1, 2} : M!ValueEquals(f, M!CombineRows(rows, first, s), official)}
<1>1. span = M!Least(fit) /\ fit # {} /\ M!Spans(f, rows, first, official) = {span}
  BY DEF M!Spans
<1>2. span \in fit
  BY <1>1 DEF M!Least
<1>3. M!Least({span}) = span
  BY <1>2 DEF M!Least
<1> QED BY <1>1, <1>2, <1>3

\* The label a row was parsed with parses it again, alone.
LEMMA ParsedAgain ==
  ASSUME NEW row, NEW labels, NEW l \in M!ParseLabel(row, labels)
  PROVE  M!ParseLabel(row, <<l.label>>) = {l}
BY DEF M!ParseLabel, M!Earliest

\* A place is a row of a page.
LEMMA AtPlace ==
  ASSUME NEW layout, NEW at \in M!Places(layout)
  PROVE  /\ at[1] \in DOMAIN layout /\ at[2] \in DOMAIN layout[at[1]]
         /\ M!RowAt(layout, at) = layout[at[1]][at[2]]
BY DEF M!Places, M!RowAt

-----------------------------------------------------------------------------
\* What a document shows at an anchor is nothing, or the official value.
Reads(f, text, official) == text = <<>> \/ M!ValueEquals(f, text, official)

\* Where a label leads on a document that still has it, with the value, that value stands or
\* nothing can be attributed.
LEMMA LabelReads ==
  ASSUME NEW layout, NEW submitted, NEW f, NEW official, M!FindLabelAnchor(layout, f, official) # M!NoAnchor,
         M!Intact(layout, submitted, M!FindLabelAnchor(layout, f, official))
  PROVE  Reads(f, M!ExtractSubmittedValue(submitted, f, M!FindLabelAnchor(layout, f, official)), official)
<1> DEFINE a == M!FindLabelAnchor(layout, f, official)
           Values(at) == {m \in M!ParseLabel(M!RowAt(layout, at).text, M!Labels[f]) :
                            \/ M!ValueEquals(f, m.value, official)
                            \/ M!Spans(f, layout[at[1]], at[2] + 1, official) # {}}
           HitAt(at, l) == IF M!ValueEquals(f, l.value, official)
                           THEN M!Hit(at, 1, M!Anchor("LABEL_INLINE", layout, at, l.label, at[2], 1))
                           ELSE LET span == M!Least(M!Spans(f, layout[at[1]], at[2] + 1, official))
                                IN M!Hit(at, span, M!Anchor("LABEL_NEXT", layout, at, l.label, at[2] + 1, span))
<1>1. PICK at \in M!Places(layout) : \E l \in Values(at) : a = HitAt(at, l).anchor
  <2> DEFINE hits == UNION {{HitAt(at, l) : l \in Values(at)} : at \in M!Places(layout)}
  <2>1. a = M!Only(hits)
    BY DEF M!FindLabelAnchor
  <2>2. PICK h \in hits : a = h.anchor
    BY <2>1, OnlyIsAHit
  <2> QED
    BY <2>2
<1>2. PICK l \in Values(at) : a = HitAt(at, l).anchor
  BY <1>1
<1> DEFINE rows == layout[at[1]]
           now == submitted[at[1]]
           found == {q \in DOMAIN now : M!ParseLabel(now[q].text, <<l.label>>) # {}}
           r == M!OneOf(found)
<1>3. at[1] \in DOMAIN layout /\ at[2] \in DOMAIN rows /\ M!RowAt(layout, at) = rows[at[2]]
  BY AtPlace
<1>4. M!ParseLabel(rows[at[2]].text, <<l.label>>) = {l}
  BY <1>3, ParsedAgain
<1>5. ASSUME a.type \in {"LABEL_INLINE", "LABEL_NEXT"}, a.page = at[1], a.of = l.label
      PROVE  \E q \in DOMAIN now : /\ at[1] \in DOMAIN submitted /\ r \in {0, q}
                                   /\ M!SameAt(rows, at[2], now, q, a) /\ now[q].text = rows[at[2]].text
  <2> HIDE DEF a
  <2>1. M!Intact(layout, submitted, a) /\ a.type # "POSITION" /\ a.type # "CONTEXT_NEXT"
    BY <1>5 DEF a
  <2>2. at[2] \in M!CueRows(rows, a)
    BY <1>3, <1>4, <1>5 DEF M!CueRows
  <2>3. PICK q \in DOMAIN now : M!SameAt(rows, at[2], now, q, a)
    BY <1>5, <2>1, <2>2 DEF M!Intact
  <2>4. now[q].text = rows[at[2]].text
    BY <1>5, <2>1, <2>3 DEF M!SameAt
  <2>5. r \in {0, q}
    BY <1>4, <2>4, OneOfIsIt
  <2> QED
    BY <1>5, <2>1, <2>3, <2>4, <2>5 DEF M!Intact
<1>6. CASE M!ValueEquals(f, l.value, official)
  <2>1. a = M!Anchor("LABEL_INLINE", layout, at, l.label, at[2], 1)
    BY <1>2, <1>6 DEF M!Hit
  <2>2. a.type = "LABEL_INLINE" /\ a.page = at[1] /\ a.of = l.label
    BY <2>1, AnchorFields
  <2>5. PICK q \in DOMAIN now : /\ at[1] \in DOMAIN submitted /\ r \in {0, q}
                                /\ now[q].text = rows[at[2]].text
    BY <1>5, <2>2
  <2> HIDE DEF a
  <2>3. M!ExtractSubmittedValue(submitted, f, a) = M!ExtractByLabel(now, a)
    BY <2>2, <2>5 DEF M!ExtractSubmittedValue
  <2>4. M!ExtractByLabel(now, a) \in {<<>>, l.value}
    BY <1>4, <2>2, <2>5 DEF M!ExtractByLabel
  <2> QED
    BY <1>6, <2>3, <2>4 DEF Reads, a
<1>7. CASE ~M!ValueEquals(f, l.value, official)
  <2>1. PICK span \in M!Spans(f, rows, at[2] + 1, official) : TRUE
    BY <1>7
  <2>2. /\ M!ValueEquals(f, M!CombineRows(rows, at[2] + 1, span), official)
        /\ M!Least(M!Spans(f, rows, at[2] + 1, official)) = span
    BY SpansFit
  <2>3. a = M!Anchor("LABEL_NEXT", layout, at, l.label, at[2] + 1, span)
    BY <1>2, <1>7, <2>2 DEF M!Hit
  <2>4. a.type = "LABEL_NEXT" /\ a.page = at[1] /\ a.of = l.label /\ a.span = span
    BY <2>3, AnchorFields
  <2>7. PICK q \in DOMAIN now : /\ at[1] \in DOMAIN submitted /\ r \in {0, q}
                                /\ M!SameAt(rows, at[2], now, q, a)
    BY <1>5, <2>4
  <2> HIDE DEF a
  <2>5. M!ExtractSubmittedValue(submitted, f, a) = M!ExtractByLabel(now, a)
    BY <2>4, <2>7 DEF M!ExtractSubmittedValue
  <2>8. M!CombineRows(now, q + 1, span) = M!CombineRows(rows, at[2] + 1, span)
    BY <2>4, <2>7 DEF M!SameAt
  <2>6. M!ExtractByLabel(now, a) \in {<<>>, M!CombineRows(rows, at[2] + 1, span)}
    BY <2>4, <2>7, <2>8 DEF M!ExtractByLabel
  <2> QED
    BY <2>2, <2>5, <2>6 DEF Reads, a
<1> QED
  BY <1>6, <1>7

\* So it does below the words of a context,
LEMMA ContextReads ==
  ASSUME NEW layout, NEW submitted, NEW f, NEW official, M!FindContextAnchor(layout, f, official) # M!NoAnchor,
         M!Intact(layout, submitted, M!FindContextAnchor(layout, f, official))
  PROVE  Reads(f, M!ExtractSubmittedValue(submitted, f, M!FindContextAnchor(layout, f, official)), official)
<1> DEFINE a == M!FindContextAnchor(layout, f, official)
           Context(at) == CHOOSE c \in M!Contexts(f) : M!IsPrefix(c, M!RowAt(layout, at).text)
           AnchorAt(at, span) == M!Anchor("CONTEXT_NEXT", layout, at, Context(at), at[2] + 1, span)
           Cues == {at \in M!Places(layout) : \E c \in M!Contexts(f) : M!IsPrefix(c, M!RowAt(layout, at).text)}
<1>1. PICK at \in Cues : \E span \in M!Spans(f, layout[at[1]], at[2] + 1, official) : a = AnchorAt(at, span)
  <2> DEFINE hits == UNION {{M!Hit(at, span, AnchorAt(at, span)) :
                               span \in M!Spans(f, layout[at[1]], at[2] + 1, official)} : at \in Cues}
  <2>1. a = M!Only(hits)
    BY DEF M!FindContextAnchor
  <2>2. PICK h \in hits : a = h.anchor
    BY <2>1, OnlyIsAHit
  <2> QED
    BY <2>2 DEF M!Hit
<1>2. PICK span \in M!Spans(f, layout[at[1]], at[2] + 1, official) : a = AnchorAt(at, span)
  BY <1>1
<1> DEFINE rows == layout[at[1]]
           now == submitted[at[1]]
           r == M!OneOf({q \in DOMAIN now : M!IsPrefix(a.of, now[q].text)})
<1>3. at[1] \in DOMAIN layout /\ at[2] \in DOMAIN rows /\ M!RowAt(layout, at) = rows[at[2]]
  BY AtPlace
<1>4. M!ValueEquals(f, M!CombineRows(rows, at[2] + 1, span), official)
  BY SpansFit
<1>5. a.type = "CONTEXT_NEXT" /\ a.page = at[1] /\ a.of = Context(at) /\ a.span = span
  BY <1>2, AnchorFields
<1>6. M!IsPrefix(a.of, rows[at[2]].text)
  BY <1>3, <1>5
<1>7. M!Intact(layout, submitted, a)
  OBVIOUS
<1> HIDE DEF a
<1>8. at[2] \in M!CueRows(rows, a)
  BY <1>3, <1>5, <1>6 DEF M!CueRows
<1>9. PICK q \in DOMAIN now : at[1] \in DOMAIN submitted /\ M!SameAt(rows, at[2], now, q, a)
  BY <1>5, <1>7, <1>8 DEF M!Intact
<1>10. /\ now[q].text = rows[at[2]].text
       /\ M!CombineRows(now, q + 1, span) = M!CombineRows(rows, at[2] + 1, span)
  BY <1>5, <1>9 DEF M!SameAt
<1>11. r \in {0, q}
  BY <1>6, <1>10, OneOfIsIt
<1>12. M!ExtractSubmittedValue(submitted, f, a) \in {<<>>, M!CombineRows(rows, at[2] + 1, span)}
  BY <1>5, <1>9, <1>10, <1>11 DEF M!ExtractSubmittedValue, M!ExtractByContext
<1> QED
  BY <1>4, <1>12 DEF Reads, a

\* in the sentence that says who issued the document and when,
LEMMA IssuedByReads ==
  ASSUME NEW layout, NEW submitted, NEW f, NEW official, M!FindIssuedByAnchor(layout, f, official) # M!NoAnchor,
         M!Intact(layout, submitted, M!FindIssuedByAnchor(layout, f, official))
  PROVE  Reads(f, M!ExtractSubmittedValue(submitted, f, M!FindIssuedByAnchor(layout, f, official)), official)
<1> DEFINE a == M!FindIssuedByAnchor(layout, f, official)
           Sentences == {at \in M!Places(layout) :
                           /\ M!IssuedParts(M!RowAt(layout, at).text) # {}
                           /\ M!ValueEquals(f, M!IssuedPart(M!RowAt(layout, at).text, f), official)}
<1>1. PICK at \in Sentences : a = M!Anchor("ISSUED_BY", layout, at, <<>>, at[2], 1)
  <2> DEFINE hits == {M!Hit(at, 1, M!Anchor("ISSUED_BY", layout, at, <<>>, at[2], 1)) : at \in Sentences}
  <2>1. a = M!Only(hits)
    BY DEF M!FindIssuedByAnchor
  <2>2. PICK h \in hits : a = h.anchor
    BY <2>1, OnlyIsAHit
  <2> QED
    BY <2>2 DEF M!Hit
<1> DEFINE rows == layout[at[1]]
           now == submitted[at[1]]
           r == M!OneOf({q \in DOMAIN now : M!IssuedParts(now[q].text) # {}})
<1>2. at[1] \in DOMAIN layout /\ at[2] \in DOMAIN rows /\ M!RowAt(layout, at) = rows[at[2]]
  BY AtPlace
<1>3. a.type = "ISSUED_BY" /\ a.page = at[1]
  BY <1>1, AnchorFields
<1>4. M!Intact(layout, submitted, a) /\ M!IssuedParts(rows[at[2]].text) # {}
  BY <1>2
<1> HIDE DEF a
<1>5. at[2] \in M!CueRows(rows, a)
  BY <1>2, <1>3, <1>4 DEF M!CueRows
<1>6. PICK q \in DOMAIN now : at[1] \in DOMAIN submitted /\ M!SameAt(rows, at[2], now, q, a)
  BY <1>3, <1>4, <1>5 DEF M!Intact
<1>7. now[q].text = rows[at[2]].text
  BY <1>3, <1>6 DEF M!SameAt
<1>8. r \in {0, q}
  BY <1>4, <1>7, OneOfIsIt
<1>9. M!ExtractSubmittedValue(submitted, f, a) \in {<<>>, M!IssuedPart(rows[at[2]].text, f)}
  BY <1>3, <1>6, <1>7, <1>8 DEF M!ExtractSubmittedValue, M!ExtractIssuedBy
<1> QED
  BY <1>2, <1>9 DEF Reads, a

\* The outline of some rows begins at the first of them.
LEMMA OutlineStartsAt ==
  ASSUME NEW rows \in Seq(M!Rows), NEW r \in DOMAIN rows, NEW span \in {1, 2}
  PROVE  M!Outline(rows, r, span).y = rows[r].y
<1> DEFINE last == M!Smaller(r + span - 1, Len(rows))
<1>1. r \in 1..Len(rows) /\ last \in r..Len(rows)
  BY DEF M!Smaller
<1>2. SubSeq(rows, r, last)[1] = rows[r]
  BY <1>1
<1> QED
  BY <1>2 DEF M!Outline, M!MergeBounds

\* On rows that stand apart the row nearest to an outline is the one at whose height it
\* begins, if that covers enough of it.
LEMMA ApartRowsAreFound ==
  ASSUME NEW rows, M!StandApart(rows), NEW r \in DOMAIN rows, NEW box, NEW reach \in Nat, rows[r].y = box.y,
         M!EnoughOverlap(box.x1, box.x2, rows[r].x1, rows[r].x2)
  PROVE  M!NearestRow(rows, box, reach) = r
<1> DEFINE Gap(q) == M!Distance(rows[q].y, box.y)
           near == {q \in DOMAIN rows : /\ Gap(q) <= reach
                                        /\ M!EnoughOverlap(box.x1, box.x2, rows[q].x1, rows[q].x2)}
           Rank(q) == <<Gap(q), -M!OverlapOf(box.x1, box.x2, rows[q].x1, rows[q].x2), q>>
           Before(a, b) == \/ a[1] < b[1]
                           \/ a[1] = b[1] /\ a[2] < b[2]
                           \/ a[1] = b[1] /\ a[2] = b[2] /\ a[3] <= b[3]
<1>2. \A q \in DOMAIN rows : rows[q].y \in Int /\ q \in Nat
  <2>1. rows \in Seq(M!Rows)
    BY DEF M!StandApart
  <2>2. \A q \in DOMAIN rows : rows[q] \in M!Rows /\ q \in Nat
    BY <2>1
  <2> QED
    BY <2>2 DEF M!Rows
<1>3. Gap(r) = 0 /\ \A q \in DOMAIN rows : q # r => Gap(q) \in Nat /\ Gap(q) > 0
  BY <1>2 DEF M!StandApart, M!Distance, M!Larger
<1>4. r \in near
  BY <1>3 DEF M!StandApart
<1> HIDE DEF Gap
<1>5. \A q \in near : Before(Rank(r), Rank(q))
  BY <1>2, <1>3
<1>6. \A q \in near : Before(Rank(q), Rank(r)) => q = r
  BY <1>3
<1> HIDE DEF near, Before, Rank
<1>7. r = CHOOSE q \in near : \A p \in near : Before(Rank(q), Rank(p))
  BY <1>4, <1>5, <1>6
<1> QED
  BY <1>4, <1>7 DEF M!NearestRow, near, Before, Rank, Gap

\* The greatest of two numbers is a number,
LEMMA GreatestOfTwo == ASSUME NEW a \in Int, NEW b \in Int PROVE M!Greatest({a, b}) \in Int
BY DEF M!Greatest

\* and so is the height of an outline.
LEMMA OutlineHeight ==
  ASSUME NEW rows \in Seq(M!Rows), NEW r \in DOMAIN rows, NEW span \in {1, 2}
  PROVE  M!Outline(rows, r, span).height \in Int
<1> DEFINE last == M!Smaller(r + span - 1, Len(rows))
           part == SubSeq(rows, r, last)
           heights == {part[k].height : k \in DOMAIN part}
<1>1. r \in 1..Len(rows) /\ last \in {r, r + 1} /\ last <= Len(rows)
  BY DEF M!Smaller
<1>2. DOMAIN part \in {{1}, {1, 2}} /\ \A k \in DOMAIN part : part[k] \in M!Rows
  BY <1>1
<1>3. \A k \in DOMAIN part : part[k].height \in Int
  BY <1>2 DEF M!Rows
<1>4. PICK a \in Int, b \in Int : heights = {a, b}
  <2>1. CASE DOMAIN part = {1}
    <3>1. heights = {part[1].height, part[1].height} /\ part[1].height \in Int
      BY <1>3, <2>1
    <3> QED
      BY <3>1
  <2>2. CASE DOMAIN part = {1, 2}
    <3>1. heights = {part[1].height, part[2].height} /\ part[1].height \in Int /\ part[2].height \in Int
      BY <1>3, <2>2
    <3> QED
      BY <3>1
  <2> QED
    BY <1>2, <2>1, <2>2
<1> QED
  BY <1>4, GreatestOfTwo DEF M!Outline, M!MergeBounds

\* At its position a value is found that is still there, if the row it begins with covers
\* enough of it.
LEMMA PositionReads ==
  ASSUME NEW layout, NEW submitted, NEW f, NEW official, NEW values,
         \A p \in DOMAIN layout : M!StandApart(layout[p]),
         M!FindUniqueValueAnchor(layout, f, official, values) # M!NoAnchor,
         M!Intact(layout, submitted, M!FindUniqueValueAnchor(layout, f, official, values))
  PROVE  Reads(f, M!ExtractSubmittedValue(submitted, f, M!FindUniqueValueAnchor(layout, f, official, values)), official)
<1> DEFINE a == M!FindUniqueValueAnchor(layout, f, official, values)
           AnchorAt(h) == M!Anchor("POSITION", layout, h[1], <<>>, h[1][2], h[2])
           Found == {h \in M!Places(layout) \X {1, 2} :
                       M!ValueEquals(f, M!CombineRows(layout[h[1][1]], h[1][2], h[2]), official)}
<1>1. PICK h \in Found : a = AnchorAt(h)
  <2> DEFINE hits == {M!Hit(h[1], h[2], AnchorAt(h)) : h \in Found}
  <2>1. a = M!Only(hits)
    BY DEF M!FindUniqueValueAnchor
  <2>2. PICK hit \in hits : a = hit.anchor
    BY <2>1, OnlyIsAHit
  <2> QED
    BY <2>2 DEF M!Hit
<1> DEFINE at == h[1]
           span == h[2]
           rows == layout[at[1]]
           now == submitted[at[1]]
           reach == M!Larger((M!PageHeight * 15) \div 1000, 2 * a.box.height)
<1>2. at \in M!Places(layout) /\ span \in {1, 2}
  BY <1>1
<1>3. at[1] \in DOMAIN layout /\ at[2] \in DOMAIN rows
  BY <1>2, AtPlace
<1>4. a.type = "POSITION" /\ a.page = at[1] /\ a.span = span /\ a.box = M!Outline(rows, at[2], span)
  BY <1>1 DEF M!Anchor
<1>5. reach \in Nat
  <2>1. rows \in Seq(M!Rows)
    BY <1>3 DEF M!StandApart
  <2>2. a.box.height \in Int
    BY <1>2, <1>3, <1>4, <2>1, OutlineHeight
  <2> QED
    BY <2>2 DEF M!Larger, M!PageHeight
<1>6. rows[at[2]].y = a.box.y
  BY <1>2, <1>3, <1>4, OutlineStartsAt DEF M!StandApart
<1>7. M!Intact(layout, submitted, a)
  OBVIOUS
<1> HIDE DEF a
<1>8. at[1] \in DOMAIN submitted /\ M!StandApart(now)
  BY <1>4, <1>7 DEF M!Intact
<1>9. PICK q \in DOMAIN now : M!SameAt(rows, at[2], now, q, a)
  <2>1. at[2] \in M!CueRows(rows, a)
    BY <1>3, <1>4, <1>6 DEF M!CueRows
  <2> QED
    BY <1>4, <1>7, <2>1 DEF M!Intact
<1>10. /\ now[q].y = a.box.y
       /\ M!EnoughOverlap(a.box.x1, a.box.x2, now[q].x1, now[q].x2)
       /\ M!CombineRows(now, q, span) = M!CombineRows(rows, at[2], span)
  BY <1>4, <1>6, <1>9 DEF M!SameAt
<1>11. M!NearestRow(now, a.box, reach) = q
  BY <1>5, <1>8, <1>10, ApartRowsAreFound
<1>12. M!ExtractSubmittedValue(submitted, f, a) \in {<<>>, M!CombineRows(rows, at[2], span)}
  BY <1>4, <1>8, <1>10, <1>11 DEF M!ExtractSubmittedValue, M!ExtractByPosition
<1> QED
  BY <1>1, <1>12 DEF Reads, a

\* Nothing is no value of any field.
LEMMA NothingIsNoValue ==
  ASSUME NEW f PROVE M!CanonicalizeFieldValue(f, <<>>) = <<>>
<1>1. M!Norm(<<>>) = <<>>
  BY DEF M!Norm, M!Blank
<1>2. M!Named(<<>>, M!CanonicalForms) = {}
  BY DEF M!Named
<1> QED
  BY <1>1, <1>2 DEF M!CanonicalizeFieldValue, M!CanonicalizeDate

\* Where the manifest of a document says, a document that still has that shows the stored
\* value or nothing that can be attributed.
LEMMA ManifestReadsIntact ==
  ASSUME NEW layout, NEW submitted, NEW f, NEW values,
         \A p \in DOMAIN layout : M!StandApart(layout[p]),
         M!BuildFieldManifest(layout, f, values).status = "ASSESSABLE",
         M!Intact(layout, submitted, M!BuildFieldManifest(layout, f, values).anchor)
  PROVE  LET stored == M!BuildFieldManifest(layout, f, values)
         IN /\ stored.value = M!CanonicalizeFieldValue(f, values[f])
            /\ Reads(f, M!ExtractSubmittedValue(submitted, f, stored.anchor), stored.value)
<1> DEFINE official == M!CanonicalizeFieldValue(f, values[f])
           label == M!FindLabelAnchor(layout, f, official)
           context == M!FindContextAnchor(layout, f, official)
           issued == M!FindIssuedByAnchor(layout, f, official)
           position == M!FindUniqueValueAnchor(layout, f, official, values)
           anchor == M!FirstAnchor(<<label, context, issued, position>>)
           stored == M!BuildFieldManifest(layout, f, values)
<1>1. /\ stored.value = official /\ stored.anchor = anchor /\ anchor # M!NoAnchor
      /\ M!Intact(layout, submitted, anchor)
  BY DEF M!BuildFieldManifest
<1> HIDE DEF label, context, issued, position, stored
<1>2. anchor \in {label, context, issued, position}
  BY <1>1, FirstAnchorIsOne
<1> HIDE DEF anchor, official
<1>3. Reads(f, M!ExtractSubmittedValue(submitted, f, anchor), official)
  BY <1>1, <1>2, LabelReads, ContextReads, IssuedByReads, PositionReads
     DEF label, context, issued, position
<1> QED
  BY <1>1, <1>3 DEF official, stored

\* A document has what its own manifest is about, if it is covered where it stands.
LEMMA IntactItself ==
  ASSUME NEW layout, NEW a, a.page \in DOMAIN layout, M!StandApart(layout[a.page]),
         a.type = "POSITION" => M!Covers(layout, a)
  PROVE  M!Intact(layout, layout, a)
<1> SUFFICES ASSUME NEW r \in M!CueRows(layout[a.page], a)
             PROVE  /\ r \in DOMAIN layout[a.page]
                    /\ M!SameAt(layout[a.page], r, layout[a.page], r, a)
  BY DEF M!Intact
<1>1. r \in DOMAIN layout[a.page]
  BY DEF M!CueRows
<1>2. a.type = "POSITION" => layout[a.page][r].y = a.box.y
  BY DEF M!CueRows
<1> QED
  BY <1>1, <1>2 DEF M!SameAt, M!Covers

\* An anchor is on a page of the document.
LEMMA AnchorOnPage ==
  ASSUME NEW layout, NEW f, NEW values, M!BuildFieldManifest(layout, f, values).status = "ASSESSABLE"
  PROVE  M!BuildFieldManifest(layout, f, values).anchor.page \in DOMAIN layout
<1> DEFINE official == M!CanonicalizeFieldValue(f, values[f])
           label == M!FindLabelAnchor(layout, f, official)
           context == M!FindContextAnchor(layout, f, official)
           issued == M!FindIssuedByAnchor(layout, f, official)
           position == M!FindUniqueValueAnchor(layout, f, official, values)
           anchor == M!FirstAnchor(<<label, context, issued, position>>)
           OnPage(a) == a # M!NoAnchor => a.page \in DOMAIN layout
<1>1. M!BuildFieldManifest(layout, f, values).anchor = anchor /\ anchor # M!NoAnchor
  BY DEF M!BuildFieldManifest
<1>2. ASSUME NEW hits, \A h \in hits : h.anchor.page \in DOMAIN layout PROVE OnPage(M!Only(hits))
  BY <1>2, OnlyIsAHit
<1>3. \A type, at, of, first, span, n :
         at \in M!Places(layout) => M!Hit(at, n, M!Anchor(type, layout, at, of, first, span)).anchor.page \in DOMAIN layout
  BY AtPlace DEF M!Hit, M!Anchor
<1>4. OnPage(label)
  BY <1>2, <1>3 DEF M!FindLabelAnchor
<1>5. OnPage(context)
  BY <1>2, <1>3 DEF M!FindContextAnchor
<1>6. OnPage(issued)
  BY <1>2, <1>3 DEF M!FindIssuedByAnchor
<1>7. OnPage(position)
  BY <1>2, <1>3 DEF M!FindUniqueValueAnchor
<1> HIDE DEF label, context, issued, position
<1>8. anchor \in {label, context, issued, position}
  BY <1>1, FirstAnchorIsOne
<1> QED
  BY <1>1, <1>4, <1>5, <1>6, <1>7, <1>8

\* So it shows the stored value there itself, or nothing that can be attributed.
LEMMA ManifestReadsItself ==
  ASSUME NEW layout, NEW f, NEW values,
         \A p \in DOMAIN layout : M!StandApart(layout[p]),
         LET a == M!BuildFieldManifest(layout, f, values).anchor IN a.type = "POSITION" => M!Covers(layout, a),
         M!BuildFieldManifest(layout, f, values).status = "ASSESSABLE"
  PROVE  LET stored == M!BuildFieldManifest(layout, f, values)
         IN /\ stored.value = M!CanonicalizeFieldValue(f, values[f])
            /\ Reads(f, M!ExtractSubmittedValue(layout, f, stored.anchor), stored.value)
<1>1. M!BuildFieldManifest(layout, f, values).anchor.page \in DOMAIN layout
  BY AnchorOnPage
<1>2. M!Intact(layout, layout, M!BuildFieldManifest(layout, f, values).anchor)
  BY <1>1, IntactItself
<1> QED
  BY <1>2, ManifestReadsIntact

\* A field whose label, context, sentence or place a document still has, with the value there,
\* is never called altered by the manifest, whatever else the document shows and wherever:
\* a second label or sentence makes it unassessable, and rows above or below shift nothing.
THEOREM IntactFieldIsNotAccused ==
  ASSUME NEW layout, NEW submitted, NEW f, NEW values, \A p \in DOMAIN layout : M!StandApart(layout[p]),
         M!Intact(layout, submitted, M!BuildFieldManifest(layout, f, values).anchor)
  PROVE  M!FieldVerdict(submitted, f, M!BuildFieldManifest(layout, f, values)) # "ALTERED"
<1> DEFINE stored == M!BuildFieldManifest(layout, f, values)
           read == M!ExtractSubmittedValue(submitted, f, stored.anchor)
           found == M!CanonicalizeFieldValue(f, read)
<1>1. stored.status \in {"NOT_AVAILABLE", "NOT_ASSESSABLE", "ASSESSABLE"}
  BY DEF M!BuildFieldManifest
<1>2. stored.status = "ASSESSABLE" => found \in {<<>>, stored.value}
  <2>1. stored.status = "ASSESSABLE" => Reads(f, read, stored.value)
    BY ManifestReadsIntact
  <2> HIDE DEF stored
  <2> QED
    BY <2>1, NothingIsNoValue DEF Reads, M!ValueEquals
<1>3. M!FieldVerdict(submitted, f, stored) =
        CASE stored.status # "ASSESSABLE" -> stored.status
          [] stored.status = "ASSESSABLE" /\ found = <<>> -> "NOT_ASSESSABLE"
          [] stored.status = "ASSESSABLE" /\ found # <<>> -> IF found = stored.value THEN "UNCHANGED" ELSE "ALTERED"
  BY DEF M!FieldVerdict
<1> HIDE DEF stored, found
<1> QED
  BY <1>1, <1>2, <1>3 DEF stored

\* The official document, held against its own manifest, has every field unchanged or, where
\* nothing can be attributed, not assessable: verifySemanticManifestAgainstBytes undoes what
\* buildFieldManifest did, on rows that stand apart and with a value found by its position
\* beginning with a row that covers enough of it.
THEOREM ManifestFindsItsDocumentUnchanged ==
  ASSUME NEW layout, NEW f, NEW values, \A p \in DOMAIN layout : M!StandApart(layout[p]),
         LET a == M!BuildFieldManifest(layout, f, values).anchor IN a.type = "POSITION" => M!Covers(layout, a)
  PROVE  LET stored == M!BuildFieldManifest(layout, f, values)
         IN M!FieldVerdict(layout, f, stored) =
              IF stored.status = "ASSESSABLE" /\ M!ExtractSubmittedValue(layout, f, stored.anchor) # <<>>
              THEN "UNCHANGED"
              ELSE IF stored.status = "ASSESSABLE" THEN "NOT_ASSESSABLE" ELSE stored.status
<1> DEFINE stored == M!BuildFieldManifest(layout, f, values)
           read == M!ExtractSubmittedValue(layout, f, stored.anchor)
<1>1. CASE stored.status = "ASSESSABLE"
  <2>1. Reads(f, read, stored.value)
    BY <1>1, ManifestReadsItself
  <2> HIDE DEF stored
  <2>2. read = <<>> => M!CanonicalizeFieldValue(f, read) = <<>>
    BY NothingIsNoValue
  <2>3. read # <<>> => /\ M!CanonicalizeFieldValue(f, read) # <<>>
                       /\ M!CanonicalizeFieldValue(f, read) = stored.value
    BY <2>1 DEF Reads, M!ValueEquals
  <2> HIDE DEF read
  <2>4. M!FieldVerdict(layout, f, stored) = IF read # <<>> THEN "UNCHANGED" ELSE "NOT_ASSESSABLE"
    BY <1>1, <2>2, <2>3 DEF M!FieldVerdict, read
  <2> QED
    BY <1>1, <2>4 DEF read, stored
<1>2. CASE stored.status # "ASSESSABLE"
  <2> HIDE DEF stored
  <2>1. M!FieldVerdict(layout, f, stored) = stored.status
    BY <1>2 DEF M!FieldVerdict
  <2> QED
    BY <1>2, <2>1 DEF stored
<1> QED
  BY <1>1, <1>2

-----------------------------------------------------------------------------
(* The anchored analysis.  It reads rows in its own way, and otherwise       *)
(* shares the notions of a row, an outline and an anchor.                    *)

\* Both analyses mean the same by an anchor and a place,
LEMMA SharedAnchors ==
  /\ A!NoAnchor = M!NoAnchor
  /\ \A hits : A!Only(hits) = M!Only(hits)
  /\ \A anchors : A!FirstAnchor(anchors) = M!FirstAnchor(anchors)
  /\ \A layout : A!Places(layout) = M!Places(layout)
  /\ \A layout, at : A!RowAt(layout, at) = M!RowAt(layout, at)
  /\ \A at, span, anchor : A!Hit(at, span, anchor) = M!Hit(at, span, anchor)
<1>1. A!NoAnchor = M!NoAnchor
  BY DEF A!NoAnchor, M!NoAnchor, A!NoBox, M!NoBox
<1>2. \A hits : A!Only(hits) = M!Only(hits)
  BY <1>1 DEF A!Only, M!Only, A!Sole, M!Sole
<1>3. \A anchors : A!FirstAnchor(anchors) = M!FirstAnchor(anchors)
  BY <1>1 DEF A!FirstAnchor, M!FirstAnchor, A!Earliest, M!Earliest
<1> QED
  BY <1>1, <1>2, <1>3 DEF A!Places, M!Places, A!RowAt, M!RowAt, A!Hit, M!Hit

\* and by an outline and the nearest row.
LEMMA SharedRows ==
  /\ \A rows, first, span : A!Outline(rows, first, span) = M!Outline(rows, first, span)
  /\ \A rows, box, reach : A!NearestRow(rows, box, reach) = M!NearestRow(rows, box, reach)
  /\ \A rows : A!StandApart(rows) <=> M!StandApart(rows)
  /\ \A layout, a : A!Covers(layout, a) <=> M!Covers(layout, a)
  /\ \A rows : A!Wide(rows) <=> M!Wide(rows)
<1>1. \A rows, first, span : A!Outline(rows, first, span) = M!Outline(rows, first, span)
  BY DEF A!Outline, M!Outline, A!MergeBounds, M!MergeBounds, A!Least, M!Least, A!Greatest, M!Greatest,
         A!Smaller, M!Smaller
<1>2. \A a1, a2, b1, b2 : A!OverlapOf(a1, a2, b1, b2) = M!OverlapOf(a1, a2, b1, b2)
  BY DEF A!OverlapOf, M!OverlapOf, A!Smaller, M!Smaller, A!Larger, M!Larger
<1>3. \A a1, a2, b1, b2 : A!EnoughOverlap(a1, a2, b1, b2) <=> M!EnoughOverlap(a1, a2, b1, b2)
  BY <1>2 DEF A!EnoughOverlap, M!EnoughOverlap, A!Larger, M!Larger
<1>4. ASSUME NEW rows, NEW box, NEW reach PROVE A!NearestRow(rows, box, reach) = M!NearestRow(rows, box, reach)
  BY DEF A!NearestRow, M!NearestRow, A!EnoughOverlap, M!EnoughOverlap, A!OverlapOf, M!OverlapOf,
         A!Distance, M!Distance, A!Smaller, M!Smaller, A!Larger, M!Larger
<1>5. \A rows : A!StandApart(rows) <=> M!StandApart(rows)
  BY <1>1, <1>3 DEF A!StandApart, M!StandApart, A!Rows, M!Rows
<1>6. \A layout, a : A!Covers(layout, a) <=> M!Covers(layout, a)
  BY <1>3 DEF A!Covers, M!Covers
<1> QED
  BY <1>1, <1>4, <1>5, <1>6 DEF A!Wide, M!Wide

\* The labels of a field are a sequence.
LEMMA LabelsAreNumbered == \A f \in A!FieldNames : DOMAIN A!Labels[f] \subseteq Int
BY DEF A!FieldNames, A!Fields, A!Labels

\* The one match of a label in a row.
LEMMA OneMatch ==
  ASSUME NEW f \in A!FieldNames, NEW row, NEW l \in A!MatchLabel(row, A!Labels[f])
  PROVE  A!MatchLabel(row, A!Labels[f]) = {l}
BY LabelsAreNumbered DEF A!MatchLabel, A!Earliest

\* The rows chosen below a label make up the value.
LEMMA BelowFits ==
  ASSUME NEW rows, NEW r, NEW candidates, A!ValueBelow(rows, r, candidates) # {}
  PROVE  LET span == A!Least(A!ValueBelow(rows, r, candidates))
         IN A!CombineRows(rows, r + 1, span) \in candidates
<1> DEFINE fit == {s \in {1, 2} : A!CombineRows(rows, r + 1, s) \in candidates}
<1>1. fit # {} /\ A!ValueBelow(rows, r, candidates) = {A!Least(fit)}
  BY DEF A!ValueBelow
<1>2. A!Least(fit) \in fit
  BY <1>1 DEF A!Least
<1>3. A!Least({A!Least(fit)}) = A!Least(fit)
  <2>1. \A n \in {1, 2} : A!Least({n}) = n
    BY DEF A!Least
  <2> QED
    BY <1>2, <2>1
<1> QED
  BY <1>1, <1>2, <1>3

\* Where a label leads, the anchored analysis finds a text the value may be printed as, or none.
LEMMA ResolvesLabel ==
  ASSUME NEW layout, NEW f \in A!FieldNames, NEW candidates, A!LabelAnchors(layout, f, candidates) # A!NoAnchor
  PROVE  A!ResolveAnchor(layout, f, A!LabelAnchors(layout, f, candidates)) \subseteq candidates
<1> DEFINE a == A!LabelAnchors(layout, f, candidates)
           Fitting(at) == {m \in A!MatchLabel(A!RowAt(layout, at).text, A!Labels[f]) :
                             m.value \in candidates \/ A!ValueBelow(layout[at[1]], at[2], candidates) # {}}
           HitAt(at, l) == IF l.value \in candidates
                           THEN A!Hit(at, 1, A!Anchor("LABEL", layout, at, l.label, at[2], 1))
                           ELSE LET span == A!Least(A!ValueBelow(layout[at[1]], at[2], candidates))
                                IN A!Hit(at, span, A!Anchor("LABEL_NEXT", layout, at, l.label, at[2] + 1, span))
<1>1. PICK at \in A!Places(layout) : \E l \in Fitting(at) : a = HitAt(at, l).anchor
  <2> DEFINE hits == UNION {{HitAt(at, l) : l \in Fitting(at)} : at \in A!Places(layout)}
  <2>1. a = A!Only(hits)
    BY DEF A!LabelAnchors
  <2>2. PICK h \in hits : a = h.anchor
    BY <2>1, OnlyIsAHit, SharedAnchors
  <2> QED
    BY <2>2
<1>2. PICK l \in Fitting(at) : a = HitAt(at, l).anchor
  BY <1>1
<1> DEFINE rows == layout[at[1]]
           span == A!Least(A!ValueBelow(rows, at[2], candidates))
           own == {r \in DOMAIN rows : \E m \in A!MatchLabel(rows[r].text, A!Labels[f]) : m.label = l.label}
<1>3. at[1] \in DOMAIN layout /\ at[2] \in DOMAIN rows /\ A!RowAt(layout, at) = rows[at[2]]
  BY AtPlace, SharedAnchors
<1>4. A!MatchLabel(rows[at[2]].text, A!Labels[f]) = {l}
  BY <1>3, OneMatch
<1>5. A!Sole(own) \subseteq {at[2]}
  BY <1>3, <1>4 DEF A!Sole
<1>6. CASE l.value \in candidates
  <2>1. a.type = "LABEL" /\ a.page = at[1] /\ a.of = l.label
    BY <1>2, <1>6 DEF A!Hit, A!Anchor
  <2> HIDE DEF a
  <2>2. A!ResolveAnchor(layout, f, a) = A!ResolveLabel(rows, f, a)
    BY <1>3, <2>1 DEF A!ResolveAnchor
  <2>3. A!ResolveLabel(rows, f, a) \subseteq {l.value}
    <3> DEFINE Value(r) == (CHOOSE m \in A!MatchLabel(rows[r].text, A!Labels[f]) : TRUE).value
    <3>1. Value(at[2]) = l.value
      BY <1>4
    <3> HIDE DEF Value
    <3>2. A!ResolveLabel(rows, f, a) = {Value(r) : r \in A!Sole(own)}
      BY <2>1 DEF A!ResolveLabel, Value
    <3> QED
      BY <1>5, <3>1, <3>2
  <2> QED
    BY <1>6, <2>2, <2>3 DEF a
<1>7. CASE l.value \notin candidates
  <2>1. a.type = "LABEL_NEXT" /\ a.page = at[1] /\ a.of = l.label /\ a.span = span
    BY <1>2, <1>7 DEF A!Hit, A!Anchor
  <2>2. A!CombineRows(rows, at[2] + 1, span) \in candidates
    BY <1>2, <1>7, BelowFits
  <2> HIDE DEF a, span
  <2>3. A!ResolveAnchor(layout, f, a) = A!ResolveLabel(rows, f, a)
    BY <1>3, <2>1 DEF A!ResolveAnchor
  <2>4. A!ResolveLabel(rows, f, a) \subseteq {A!CombineRows(rows, at[2] + 1, span)}
    BY <1>5, <2>1 DEF A!ResolveLabel
  <2> QED
    BY <2>2, <2>3, <2>4 DEF a
<1> QED
  BY <1>6, <1>7

\* So it does below the words of a context,
LEMMA ResolvesContext ==
  ASSUME NEW layout, NEW f, NEW candidates, A!ContextAnchors(layout, f, candidates) # A!NoAnchor
  PROVE  A!ResolveAnchor(layout, f, A!ContextAnchors(layout, f, candidates)) \subseteq candidates
<1> DEFINE a == A!ContextAnchors(layout, f, candidates)
           Fit(at) == {span \in {1, 2} : A!CombineRows(layout[at[1]], at[2] + 1, span) \in candidates}
           AnchorAt(at) == A!Anchor("CONTEXT_NEXT", layout, at, A!RowAt(layout, at).text, at[2] + 1, A!Least(Fit(at)))
           Cues == {at \in A!Places(layout) : A!RowAt(layout, at).text \in A!Contexts(f) /\ Fit(at) # {}}
<1>1. PICK at \in Cues : a = AnchorAt(at)
  <2> DEFINE hits == {A!Hit(at, A!Least(Fit(at)), AnchorAt(at)) : at \in Cues}
  <2>1. a = A!Only(hits)
    BY DEF A!ContextAnchors
  <2>2. PICK h \in hits : a = h.anchor
    BY <2>1, OnlyIsAHit, SharedAnchors
  <2> HIDE DEF a
  <2> QED
    BY <2>2 DEF A!Hit
<1> DEFINE rows == layout[at[1]]
           span == A!Least(Fit(at))
           own == {r \in DOMAIN rows : rows[r].text = rows[at[2]].text}
<1>2. at[1] \in DOMAIN layout /\ at[2] \in DOMAIN rows /\ A!RowAt(layout, at) = rows[at[2]]
  BY AtPlace, SharedAnchors
<1>3. A!CombineRows(rows, at[2] + 1, span) \in candidates
  <2>1. span \in Fit(at)
    BY <1>1 DEF A!Least
  <2> QED
    BY <2>1
<1>4. a.type = "CONTEXT_NEXT" /\ a.page = at[1] /\ a.of = rows[at[2]].text /\ a.span = span
  BY <1>1, <1>2 DEF A!Anchor
<1>5. A!Sole(own) \subseteq {at[2]}
  BY <1>2 DEF A!Sole
<1> HIDE DEF a, span
<1>6. A!ResolveAnchor(layout, f, a) = A!ResolveContext(rows, a)
  BY <1>2, <1>4 DEF A!ResolveAnchor
<1>7. A!ResolveContext(rows, a) \subseteq {A!CombineRows(rows, at[2] + 1, span)}
  BY <1>4, <1>5 DEF A!ResolveContext
<1> QED
  BY <1>3, <1>6, <1>7 DEF a

\* in the sentence that says who issued the document and when,
LEMMA ResolvesIssued ==
  ASSUME NEW layout, NEW f, NEW candidates, A!IssuedAnchor(layout, f, candidates) # A!NoAnchor
  PROVE  A!ResolveAnchor(layout, f, A!IssuedAnchor(layout, f, candidates)) \subseteq candidates
<1> DEFINE a == A!IssuedAnchor(layout, f, candidates)
           Sentences == {at \in A!Places(layout) :
                           /\ A!IssuedParts(A!RowAt(layout, at).text) # {}
                           /\ A!IssuedPart(A!RowAt(layout, at).text, f) \in candidates}
<1>1. PICK at \in Sentences : a = A!Anchor("ISSUED_SENTENCE", layout, at, <<>>, at[2], 1)
  <2> DEFINE hits == {A!Hit(at, 1, A!Anchor("ISSUED_SENTENCE", layout, at, <<>>, at[2], 1)) : at \in Sentences}
  <2>1. a = A!Only(hits)
    BY DEF A!IssuedAnchor
  <2>2. PICK h \in hits : a = h.anchor
    BY <2>1, OnlyIsAHit, SharedAnchors
  <2> HIDE DEF a
  <2> QED
    BY <2>2 DEF A!Hit
<1> DEFINE rows == layout[at[1]]
           own == {r \in DOMAIN rows : A!IssuedParts(rows[r].text) # {}}
<1>2. at[1] \in DOMAIN layout /\ at[2] \in DOMAIN rows /\ A!RowAt(layout, at) = rows[at[2]]
  BY AtPlace, SharedAnchors
<1>3. a.type = "ISSUED_SENTENCE" /\ a.page = at[1]
  BY <1>1 DEF A!Anchor
<1>4. A!Sole(own) \subseteq {at[2]}
  BY <1>1, <1>2 DEF A!Sole
<1> HIDE DEF a
<1>5. A!ResolveAnchor(layout, f, a) = A!ResolveIssued(rows, f)
  BY <1>2, <1>3 DEF A!ResolveAnchor
<1>6. A!ResolveIssued(rows, f) \subseteq {A!IssuedPart(rows[at[2]].text, f)}
  BY <1>4 DEF A!ResolveIssued
<1> QED
  BY <1>1, <1>2, <1>5, <1>6 DEF a

\* and at its coordinates, if the row it begins with covers enough of it.
LEMMA ResolvesCoordinate ==
  ASSUME NEW layout, NEW f, NEW candidates, NEW credential, \A p \in DOMAIN layout : A!StandApart(layout[p]),
         A!CoordinateAnchor(layout, f, candidates, credential) # A!NoAnchor,
         LET a == A!CoordinateAnchor(layout, f, candidates, credential)
         IN a.type = "COORDINATE" => A!Covers(layout, a)
  PROVE  A!ResolveAnchor(layout, f, A!CoordinateAnchor(layout, f, candidates, credential)) \subseteq candidates
<1> DEFINE a == A!CoordinateAnchor(layout, f, candidates, credential)
           AnchorAt(h) == A!Anchor("COORDINATE", layout, h[1], <<>>, h[1][2], h[2])
           Found == {h \in A!Places(layout) \X {1, 2} :
                       A!CombineRows(layout[h[1][1]], h[1][2], h[2]) \in candidates}
<1>1. PICK h \in Found : a = AnchorAt(h)
  <2> DEFINE hits == {A!Hit(h[1], h[2], AnchorAt(h)) : h \in Found}
  <2>1. a = A!Only(hits)
    BY DEF A!CoordinateAnchor
  <2>2. PICK hit \in hits : a = hit.anchor
    BY <2>1, OnlyIsAHit, SharedAnchors
  <2> QED
    BY <2>2 DEF A!Hit
<1> DEFINE at == h[1]
           span == h[2]
           rows == layout[at[1]]
           reach == A!Larger(80, (3 * a.box.height) \div 2)
<1>2. at \in A!Places(layout) /\ span \in {1, 2}
  BY <1>1
<1>3. at[1] \in DOMAIN layout /\ at[2] \in DOMAIN rows
  BY <1>2, AtPlace, SharedAnchors
<1>4. a.type = "COORDINATE" /\ a.page = at[1] /\ a.span = span /\ a.box = M!Outline(rows, at[2], span)
  BY <1>1, SharedRows DEF A!Anchor
<1>5. M!StandApart(rows)
  BY <1>3, SharedRows
<1>6. reach \in Nat
  <2>1. rows \in Seq(M!Rows)
    BY <1>5 DEF M!StandApart
  <2>2. a.box.height \in Int
    BY <1>2, <1>3, <1>4, <2>1, OutlineHeight
  <2> QED
    BY <2>2 DEF A!Larger
<1>7. A!NearestRow(rows, a.box, reach) = at[2]
  <2>1. rows[at[2]].y = a.box.y
    BY <1>2, <1>3, <1>4, <1>5, OutlineStartsAt DEF M!StandApart
  <2>2. M!Covers(layout, a)
    BY <1>4, SharedRows
  <2>3. M!EnoughOverlap(a.box.x1, a.box.x2, rows[at[2]].x1, rows[at[2]].x2)
    BY <1>3, <1>4, <2>1, <2>2 DEF M!Covers
  <2> QED
    BY <1>3, <1>4, <1>5, <1>6, <2>1, <2>3, ApartRowsAreFound, SharedRows
<1> HIDE DEF a
<1>8. A!ResolveAnchor(layout, f, a) \subseteq {A!CombineRows(rows, at[2], span)}
  BY <1>3, <1>4, <1>7 DEF A!ResolveAnchor, A!ResolveCoordinate
<1> QED
  BY <1>1, <1>8 DEF a

\* What an official document shows at the anchor of a field is one of the texts its value may
\* be printed as.
LEMMA AnchorReadsItself ==
  ASSUME NEW layout, NEW f \in A!FieldNames, NEW credential,
         \A p \in DOMAIN layout : A!StandApart(layout[p]),
         LET a == A!FindAnchor(layout, f, A!AnchoredCandidates(f, credential), credential)
         IN a # A!NoAnchor /\ (a.type = "COORDINATE" => A!Covers(layout, a))
  PROVE  LET candidates == A!AnchoredCandidates(f, credential)
         IN A!ResolveAnchor(layout, f, A!FindAnchor(layout, f, candidates, credential)) \subseteq candidates
<1> DEFINE candidates == A!AnchoredCandidates(f, credential)
           label == A!LabelAnchors(layout, f, candidates)
           context == A!ContextAnchors(layout, f, candidates)
           issued == A!IssuedAnchor(layout, f, candidates)
           coordinate == A!CoordinateAnchor(layout, f, candidates, credential)
           anchor == A!FindAnchor(layout, f, candidates, credential)
<1>1. anchor \in {label, context, issued, coordinate}
  <2> HIDE DEF label, context, issued, coordinate
  <2>1. anchor = M!FirstAnchor(<<label, context, issued, coordinate>>)
    BY SharedAnchors DEF A!FindAnchor, label, context, issued, coordinate
  <2> QED
    BY <2>1, FirstAnchorIsOne, SharedAnchors
<1> HIDE DEF anchor, candidates
<1>2. A!ResolveAnchor(layout, f, anchor) \subseteq candidates
  BY <1>1, ResolvesLabel, ResolvesContext, ResolvesIssued, ResolvesCoordinate DEF anchor, candidates
<1> QED
  BY <1>2 DEF anchor, candidates

\* A field at whose anchor a file shows nothing, or no more than the official document, is not
\* called altered by the anchored analysis.
THEOREM AnchoredAlikeIsNotAccused ==
  ASSUME NEW official, NEW submitted, NEW f \in A!FieldNames, NEW credential,
         \A p \in DOMAIN official : A!StandApart(official[p]),
         LET a == A!FindAnchor(official, f, A!AnchoredCandidates(f, credential), credential)
         IN a # A!NoAnchor => /\ a.type = "COORDINATE" => A!Covers(official, a)
                              /\ A!ResolveAnchor(submitted, f, a) \subseteq A!ResolveAnchor(official, f, a)
  PROVE  A!AnchoredVerdict(official, submitted, f, credential) # "ALTERED"
<1> DEFINE candidates == A!AnchoredCandidates(f, credential)
           anchor == A!FindAnchor(official, f, candidates, credential)
           found == A!ResolveAnchor(submitted, f, anchor)
<1>1. anchor # A!NoAnchor => found \subseteq candidates
  BY AnchorReadsItself
<1>2. A!AnchoredVerdict(official, submitted, f, credential) =
        CASE candidates = {} -> "NOT_AVAILABLE"
          [] candidates # {} /\ (anchor = A!NoAnchor \/ found = {}) -> "NOT_ASSESSABLE"
          [] OTHER -> IF found \subseteq candidates THEN "UNCHANGED" ELSE "ALTERED"
  BY DEF A!AnchoredVerdict
<1> HIDE DEF anchor, candidates, found
<1> QED
  BY <1>1, <1>2

-----------------------------------------------------------------------------
(* The comparison of lines.                                                  *)

\* On the official document a field that was found by its label is not called altered;
LEMMA LabelledOnItself ==
  ASSUME NEW f, NEW parsed, NEW candidates
  PROVE  T!LabelledVerdict(f, parsed, parsed, candidates) # "ALTERED"
<1> DEFINE base == parsed.fields[f]
           known == Len(base) = 1 /\ T!Reconstructs(base[1], parsed.unclaimed, candidates)
           elsewhere == T!ShownBy(parsed.fields, T!FieldNames \ {f}, candidates)
<1>1. T!LabelledVerdict(f, parsed, parsed, candidates) =
        CASE ~known \/ elsewhere \/ Len(base) > 1 -> "NOT_ASSESSABLE"
          [] known /\ ~elsewhere /\ Len(base) = 0 ->
               IF T!FoundOnce(parsed.unclaimed, candidates) THEN "UNCHANGED" ELSE "NOT_ASSESSABLE"
          [] known /\ ~elsewhere /\ Len(base) = 1 ->
               IF T!Reconstructs(base[1], parsed.unclaimed, candidates) THEN "UNCHANGED" ELSE "ALTERED"
  BY DEF T!LabelledVerdict
<1> HIDE DEF elsewhere
<1>2. CASE ~known \/ elsewhere
  <2>1. T!LabelledVerdict(f, parsed, parsed, candidates) = "NOT_ASSESSABLE"
    BY <1>1, <1>2
  <2> QED
    BY <2>1
<1>3. CASE known /\ ~elsewhere
  BY <1>1, <1>3
<1> QED
  BY <1>2, <1>3

\* None is not one.
LEMMA NobodyIsOne == T!Cardinality({}) # 1
BY FS_EmptySet DEF T!Cardinality, Cardinality

\* nor is one without a label.
LEMMA UnlabelledOnItself ==
  ASSUME NEW f, NEW credential, NEW parsed, NEW candidates, parsed.fields[f] = <<>>
  PROVE  T!UnlabelledVerdict(f, credential, parsed, parsed, candidates) # "ALTERED"
<1> DEFINE sub == parsed.fields[f]
           now == T!Matching(parsed.unclaimed, candidates)
           known == /\ T!Cardinality(now) = 1
                    /\ \A g \in T!FieldNames \ {f} : T!LegacyCandidates(g, credential) \cap candidates = {}
           moved == \/ T!ShownBy(parsed.fields, T!FieldNames, candidates)
                    \/ \E i, j \in DOMAIN parsed.unclaimed :
                          i < j /\ T!Joined(SubSeq(parsed.unclaimed, i, j)) \in candidates
           counted == CASE T!Cardinality(now) = 1 -> "UNCHANGED"
                        [] T!Cardinality(now) > 1 \/ (now = {} /\ moved) -> "NOT_ASSESSABLE"
                        [] now = {} /\ ~moved -> "ALTERED"
<1>1. Len(sub) = 0
  OBVIOUS
<1>2. T!UnlabelledVerdict(f, credential, parsed, parsed, candidates) =
        CASE ~known \/ Len(sub) > 1 -> "NOT_ASSESSABLE"
          [] known /\ Len(sub) = 1 -> IF sub[1] \in candidates THEN "UNCHANGED" ELSE "ALTERED"
          [] known /\ Len(sub) = 0 -> counted
  BY DEF T!UnlabelledVerdict
<1>3. ASSUME T!Cardinality(now) = 1 PROVE counted = "UNCHANGED"
  <2>1. now # {}
    BY <1>3, NobodyIsOne
  <2> HIDE DEF now, moved
  <2> QED
    BY <1>3, <2>1
<1>4. known => T!Cardinality(now) = 1
  OBVIOUS
<1> HIDE DEF known, now, counted
<1>5. CASE ~known
  <2>1. T!UnlabelledVerdict(f, credential, parsed, parsed, candidates) = "NOT_ASSESSABLE"
    BY <1>1, <1>2, <1>5
  <2> QED
    BY <2>1
<1>6. CASE known
  BY <1>1, <1>2, <1>3, <1>4, <1>6
<1> QED
  BY <1>5, <1>6

\* What the comparison of lines says of a field, case by case.
LEMMA ComparedField ==
  ASSUME NEW credential, NEW lines, NEW baseline, NEW f \in T!FieldNames
  PROVE  LET original == T!ParseFields(baseline)
             submitted == T!ParseFields(lines)
             candidates == T!LegacyCandidates(f, credential)
         IN T!AnalyseSemanticChanges(credential, lines, baseline)[f] =
              CASE candidates = {} -> "NOT_AVAILABLE"
                [] candidates # {} /\ baseline = <<>> -> "NOT_ASSESSABLE"
                [] candidates # {} /\ baseline # <<>> /\ original.fields[f] # <<>> ->
                     T!LabelledVerdict(f, original, submitted, candidates)
                [] OTHER -> T!UnlabelledVerdict(f, credential, original, submitted, candidates)
<1>1. \A table : T!Table(table) = table
  BY DEF T!Table
<1> QED
  BY <1>1 DEF T!AnalyseSemanticChanges

\* Without a baseline no field is called altered,
LEMMA NoBaselineAccusesNothing ==
  ASSUME NEW credential, NEW lines, NEW f \in T!FieldNames
  PROVE  T!AnalyseSemanticChanges(credential, lines, <<>>)[f] \in {"NOT_AVAILABLE", "NOT_ASSESSABLE"}
<1> DEFINE candidates == T!LegacyCandidates(f, credential)
<1> HIDE DEF candidates
<1>1. CASE candidates = {}
  BY <1>1, ComparedField DEF candidates
<1>2. CASE candidates # {}
  BY <1>2, ComparedField DEF candidates
<1> QED
  BY <1>1, <1>2

\* and a document is never said to differ from itself.
LEMMA SameLinesAreNotAccused ==
  ASSUME NEW credential, NEW lines, NEW f \in T!FieldNames
  PROVE  T!AnalyseSemanticChanges(credential, lines, lines)[f] # "ALTERED"
<1> DEFINE parsed == T!ParseFields(lines)
           candidates == T!LegacyCandidates(f, credential)
           labelled == T!LabelledVerdict(f, parsed, parsed, candidates)
           unlabelled == T!UnlabelledVerdict(f, credential, parsed, parsed, candidates)
<1>1. labelled # "ALTERED"
  BY LabelledOnItself
<1>2. parsed.fields[f] = <<>> => unlabelled # "ALTERED"
  BY UnlabelledOnItself
<1>3. T!AnalyseSemanticChanges(credential, lines, lines)[f] =
        CASE candidates = {} -> "NOT_AVAILABLE"
          [] candidates # {} /\ lines = <<>> -> "NOT_ASSESSABLE"
          [] candidates # {} /\ lines # <<>> /\ parsed.fields[f] # <<>> -> labelled
          [] OTHER -> unlabelled
  BY ComparedField
<1> HIDE DEF parsed, candidates, labelled, unlabelled
<1>4. CASE candidates = {} \/ lines = <<>>
  BY <1>3, <1>4
<1>5. CASE candidates # {} /\ lines # <<>> /\ parsed.fields[f] # <<>>
  BY <1>1, <1>3, <1>5
<1>6. CASE candidates # {} /\ lines # <<>> /\ parsed.fields[f] = <<>>
  BY <1>2, <1>3, <1>6
<1> QED
  BY <1>4, <1>5, <1>6

-----------------------------------------------------------------------------
(* Values on one row.  A row of some width covers its own outline, so that a *)
(* value that stands on it is found again by its position.                   *)

\* The least and the greatest of one number are that number,
LEMMA LeastOfOne == ASSUME NEW a \in Int PROVE M!Least({a}) = a /\ M!Greatest({a}) = a
BY DEF M!Least, M!Greatest

\* a single row is a part of its own,
LEMMA OneRow ==
  ASSUME NEW rows \in Seq(M!Rows), NEW r \in 1..Len(rows)
  PROVE  LET part == SubSeq(rows, r, r) IN DOMAIN part = {1} /\ part[1] = rows[r]
<1>1. r \in Nat /\ r >= 1 /\ r <= Len(rows)
  OBVIOUS
<1>2. SubSeq(rows, r, r) \in Seq(M!Rows) /\ Len(SubSeq(rows, r, r)) = 1
  BY <1>1
<1>3. DOMAIN SubSeq(rows, r, r) = 1..1
  BY <1>2
<1>4. SubSeq(rows, r, r)[1] = rows[r]
  BY <1>1
<1> QED
  BY <1>3, <1>4

\* its outline ends where it does,
LEMMA OutlineOfOne ==
  ASSUME NEW rows \in Seq(M!Rows), NEW r \in 1..Len(rows)
  PROVE  LET box == M!Outline(rows, r, 1)
         IN /\ box.x1 = rows[r].x1 /\ box.x1 \in Int
            /\ box.x2 = rows[r].x2 /\ box.x2 \in Int
<1> DEFINE part == SubSeq(rows, r, M!Smaller(r + 1 - 1, Len(rows)))
           lefts == {part[k].x1 : k \in DOMAIN part}
           rights == {part[k].x2 : k \in DOMAIN part}
<1>1. M!Smaller(r + 1 - 1, Len(rows)) = r
  BY DEF M!Smaller
<1>2. DOMAIN part = {1} /\ part[1] = rows[r]
  BY <1>1, OneRow
<1>3. rows[r].x1 \in Int /\ rows[r].x2 \in Int
  <2>1. rows[r] \in M!Rows
    OBVIOUS
  <2> QED
    BY <2>1 DEF M!Rows
<1>4. lefts = {rows[r].x1} /\ rights = {rows[r].x2}
  <2> HIDE DEF part
  <2> QED
    BY <1>2
<1>5. /\ M!Outline(rows, r, 1).x1 = M!Least(lefts)
      /\ M!Outline(rows, r, 1).x2 = M!Greatest(rights)
  BY DEF M!Outline, M!MergeBounds
<1> HIDE DEF lefts, rights
<1> QED
  BY <1>3, <1>4, <1>5, LeastOfOne

\* and a row of some width covers it.
LEMMA RowCoversItself ==
  ASSUME NEW layout, NEW a, M!StandApart(layout[a.page]), M!Wide(layout[a.page]),
         NEW r \in DOMAIN layout[a.page], a.box = M!Outline(layout[a.page], r, 1)
  PROVE  M!Covers(layout, a)
<1> DEFINE rows == layout[a.page]
<1>1. rows \in Seq(M!Rows) /\ r \in 1..Len(rows) /\ rows[r].x1 < rows[r].x2
  BY DEF M!StandApart, M!Wide
<1>2. /\ a.box.x1 = rows[r].x1 /\ a.box.x1 \in Int
      /\ a.box.x2 = rows[r].x2 /\ a.box.x2 \in Int
  BY <1>1, OutlineOfOne
<1>3. \A q \in DOMAIN rows : rows[q].y = a.box.y => q = r
  BY <1>1, OutlineStartsAt DEF M!StandApart
<1>4. M!EnoughOverlap(a.box.x1, a.box.x2, rows[r].x1, rows[r].x2)
  BY <1>1, <1>2 DEF M!EnoughOverlap, M!OverlapOf, M!Smaller, M!Larger
<1> QED
  BY <1>3, <1>4 DEF M!Covers

\* An anchor of the manifest that is found by position alone outlines as many rows as it spans,
LEMMA PositionIsAPlace ==
  ASSUME NEW layout, NEW f, NEW values, M!BuildFieldManifest(layout, f, values).anchor.type = "POSITION"
  PROVE  LET a == M!BuildFieldManifest(layout, f, values).anchor
         IN \E at \in M!Places(layout) : a.page = at[1] /\ a.box = M!Outline(layout[a.page], at[2], a.span)
<1> DEFINE official == M!CanonicalizeFieldValue(f, values[f])
           label == M!FindLabelAnchor(layout, f, official)
           context == M!FindContextAnchor(layout, f, official)
           issued == M!FindIssuedByAnchor(layout, f, official)
           position == M!FindUniqueValueAnchor(layout, f, official, values)
           a == M!BuildFieldManifest(layout, f, values).anchor
<1>1. M!NoAnchor.type # "POSITION"
  BY DEF M!NoAnchor
<1>2. a = M!NoAnchor \/ a = M!FirstAnchor(<<label, context, issued, position>>)
  BY DEF M!BuildFieldManifest
<1>3. label = M!NoAnchor \/ label.type \in {"LABEL_INLINE", "LABEL_NEXT"}
  <2> SUFFICES ASSUME label # M!NoAnchor PROVE label.type \in {"LABEL_INLINE", "LABEL_NEXT"}
    OBVIOUS
  <2> QED
    BY OnlyIsAHit, AnchorFields DEF M!FindLabelAnchor, M!Hit
<1>4. context = M!NoAnchor \/ context.type = "CONTEXT_NEXT"
  BY OnlyIsAHit, AnchorFields DEF M!FindContextAnchor, M!Hit
<1>5. issued = M!NoAnchor \/ issued.type = "ISSUED_BY"
  BY OnlyIsAHit, AnchorFields DEF M!FindIssuedByAnchor, M!Hit
<1>6. ASSUME position # M!NoAnchor
      PROVE  \E at \in M!Places(layout) :
                position.page = at[1] /\ position.box = M!Outline(layout[position.page], at[2], position.span)
  <2> DEFINE AnchorAt(h) == M!Anchor("POSITION", layout, h[1], <<>>, h[1][2], h[2])
             Found == {h \in M!Places(layout) \X {1, 2} :
                         M!ValueEquals(f, M!CombineRows(layout[h[1][1]], h[1][2], h[2]), official)}
             hits == {M!Hit(h[1], h[2], AnchorAt(h)) : h \in Found}
  <2>1. position = M!Only(hits)
    BY <1>6 DEF M!FindUniqueValueAnchor
  <2>2. PICK hit \in hits : position = hit.anchor
    BY <1>6, <2>1, OnlyIsAHit
  <2>3. PICK h \in Found : position = AnchorAt(h)
    BY <2>2 DEF M!Hit
  <2>4. h[1] \in M!Places(layout)
    BY <2>3
  <2>5. /\ position.page = h[1][1]
        /\ position.box = M!Outline(layout[position.page], h[1][2], position.span)
    BY <2>3 DEF M!Anchor
  <2> HIDE DEF position
  <2> QED
    BY <2>4, <2>5
<1> HIDE DEF label, context, issued, position, a
<1>7. a \in {label, context, issued, position} /\ a # M!NoAnchor /\ a.type = "POSITION"
  BY <1>1, <1>2, FirstAnchorIsOne DEF a
<1>8. a = position
  BY <1>3, <1>4, <1>5, <1>7
<1> QED
  BY <1>6, <1>7, <1>8 DEF a

\* and so does one of the anchored analysis.
LEMMA CoordinateIsAPlace ==
  ASSUME NEW layout, NEW f, NEW credential,
         A!FindAnchor(layout, f, A!AnchoredCandidates(f, credential), credential).type = "COORDINATE"
  PROVE  LET a == A!FindAnchor(layout, f, A!AnchoredCandidates(f, credential), credential)
         IN \E at \in M!Places(layout) : a.page = at[1] /\ a.box = M!Outline(layout[a.page], at[2], a.span)
<1> DEFINE candidates == A!AnchoredCandidates(f, credential)
           label == A!LabelAnchors(layout, f, candidates)
           context == A!ContextAnchors(layout, f, candidates)
           issued == A!IssuedAnchor(layout, f, candidates)
           coordinate == A!CoordinateAnchor(layout, f, candidates, credential)
           a == A!FindAnchor(layout, f, candidates, credential)
<1>1. M!NoAnchor.type # "COORDINATE"
  BY DEF M!NoAnchor
<1>2. a = M!FirstAnchor(<<label, context, issued, coordinate>>)
  BY SharedAnchors DEF A!FindAnchor
<1>3. label = M!NoAnchor \/ label.type \in {"LABEL", "LABEL_NEXT"}
  BY OnlyIsAHit, SharedAnchors DEF A!LabelAnchors, A!Hit, A!Anchor
<1>4. context = M!NoAnchor \/ context.type = "CONTEXT_NEXT"
  <2> DEFINE Fit(at) == {span \in {1, 2} : A!CombineRows(layout[at[1]], at[2] + 1, span) \in candidates}
             AnchorAt(at) == A!Anchor("CONTEXT_NEXT", layout, at, A!RowAt(layout, at).text, at[2] + 1, A!Least(Fit(at)))
             Cues == {at \in A!Places(layout) : A!RowAt(layout, at).text \in A!Contexts(f) /\ Fit(at) # {}}
             hits == {A!Hit(at, A!Least(Fit(at)), AnchorAt(at)) : at \in Cues}
  <2>1. context = A!Only(hits)
    BY DEF A!ContextAnchors
  <2>2. ASSUME context # M!NoAnchor PROVE context.type = "CONTEXT_NEXT"
    <3>1. PICK h \in hits : context = h.anchor
      BY <2>1, <2>2, OnlyIsAHit, SharedAnchors
    <3>2. PICK at \in Cues : h = A!Hit(at, A!Least(Fit(at)), AnchorAt(at))
      BY <3>1
    <3> HIDE DEF context, Fit
    <3>3. context = AnchorAt(at)
      BY <3>1, <3>2 DEF A!Hit
    <3>4. AnchorAt(at).type = "CONTEXT_NEXT"
      BY DEF A!Anchor
    <3> QED
      BY <3>3, <3>4
  <2> QED
    BY <2>2
<1>5. issued = M!NoAnchor \/ issued.type = "ISSUED_SENTENCE"
  BY OnlyIsAHit, SharedAnchors DEF A!IssuedAnchor, A!Hit, A!Anchor
<1>6. ASSUME coordinate # M!NoAnchor
      PROVE  \E at \in M!Places(layout) :
                coordinate.page = at[1] /\ coordinate.box = M!Outline(layout[coordinate.page], at[2], coordinate.span)
  <2> DEFINE AnchorAt(h) == A!Anchor("COORDINATE", layout, h[1], <<>>, h[1][2], h[2])
             Found == {h \in A!Places(layout) \X {1, 2} :
                         A!CombineRows(layout[h[1][1]], h[1][2], h[2]) \in candidates}
             hits == {A!Hit(h[1], h[2], AnchorAt(h)) : h \in Found}
  <2>1. coordinate = A!Only(hits)
    BY <1>6, SharedAnchors DEF A!CoordinateAnchor
  <2>2. PICK hit \in hits : coordinate = hit.anchor
    BY <1>6, <2>1, OnlyIsAHit, SharedAnchors
  <2>3. PICK h \in Found : coordinate = AnchorAt(h)
    BY <2>2 DEF A!Hit
  <2>4. h[1] \in M!Places(layout)
    BY <2>3, SharedAnchors
  <2>5. /\ coordinate.page = h[1][1]
        /\ coordinate.box = M!Outline(layout[coordinate.page], h[1][2], coordinate.span)
    BY <2>3, SharedRows DEF A!Anchor
  <2> HIDE DEF coordinate
  <2> QED
    BY <2>4, <2>5
<1> HIDE DEF label, context, issued, coordinate, a
<1>7. a \in {label, context, issued, coordinate} /\ a # M!NoAnchor /\ a.type = "COORDINATE"
  BY <1>1, <1>2, FirstAnchorIsOne DEF a, candidates
<1>8. a = coordinate
  BY <1>3, <1>4, <1>5, <1>7
<1> QED
  BY <1>6, <1>7, <1>8 DEF a, candidates

\* So an anchor of one row is covered where it stands, on pages with rows of some width.
LEMMA PlaceIsCovered ==
  ASSUME NEW layout, \A p \in DOMAIN layout : M!StandApart(layout[p]) /\ M!Wide(layout[p]),
         NEW a, a.span = 1,
         \E at \in M!Places(layout) : a.page = at[1] /\ a.box = M!Outline(layout[a.page], at[2], a.span)
  PROVE  M!Covers(layout, a)
BY AtPlace, RowCoversItself
=============================================================================
