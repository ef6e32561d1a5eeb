------------------------------ MODULE PdfLayout ------------------------------
(***************************************************************************)
(* From the text items of a PDF page to rows of text.  Three services do   *)
(* it, each in its own way.                                                *)
(*                                                                         *)
(* A page has a size and items; an item has a text, a place, a width and a *)
(* height, in tenths of a point.  A row keeps its text, its left and right *)
(* ends, its baseline and its height.                                      *)
(***************************************************************************)
EXTENDS CertificateText, FiniteSets

\* The size of A4.
PageWidth  == 5950
PageHeight == 8420

Larger(a, b)  == IF a > b THEN a ELSE b
Smaller(a, b) == IF a < b THEN a ELSE b
Distance(a, b) == Larger(a - b, b - a)
\* The least and the greatest of a non-empty set of numbers.
Least(S)    == CHOOSE m \in S : \A n \in S : m <= n
Greatest(S) == CHOOSE m \in S : \A n \in S : n <= m

-----------------------------------------------------------------------------
(* Three ways to read rows: how far an item may be from a row, and how the *)
(* text of a row is put together.                                          *)

\* The text of a row, item by item: what was read, where the last item ended, and
\* whether a space is due.
Start == [text |-> <<>>, right |-> 0, pending |-> FALSE]

\* visualRowsFromItems, for the semantic manifest.

ManifestReach(height, h) == Larger(25, Smaller(80, (Larger(height, h) * 35) \div 100))

\* An item of its own that is only a space makes the next one start a word; the spaces at
\* the ends of an item are trimmed.
ManifestRead(acc, item) ==
    LET space == /\ acc.text # <<>>
                 /\ acc.pending \/ item.x - acc.right > Larger(8, (item.h * 12) \div 100)
    IN IF Blank(item.text)
       THEN [acc EXCEPT !.right = item.x + item.w, !.pending = @ \/ acc.text # <<>>]
       ELSE [text |-> acc.text \o (IF space THEN <<" ">> ELSE <<>>) \o Norm(item.text),
             right |-> item.x + item.w, pending |-> FALSE]

\* extractLayout, for the anchored analysis.

AnchorReach(height, h) == 25

\* A space that is an item of its own only moves the place from which the gap is measured.
AnchorRead(acc, item) ==
    LET gap == acc.text # <<>> /\ item.x - acc.right > Larger(5, (item.h * 8) \div 100)
    IN IF Blank(item.text) THEN [acc EXCEPT !.right = item.x + item.w]
       ELSE [acc EXCEPT !.text = @ \o (IF gap THEN <<" ">> ELSE <<>>) \o item.text,
                        !.right = item.x + item.w]

\* spatialTextLines, for the comparison without a manifest.

LineReach(height, h) == 20

LineRead(acc, item) ==
    LET gap == /\ acc.text # <<>> /\ Last(acc.text) # " " /\ Head(item.text) # " "
               /\ item.x - acc.right > Larger(5, (item.h * 8) \div 100)
    IN IF Blank(item.text) THEN [acc EXCEPT !.right = item.x + item.w]
       ELSE [acc EXCEPT !.text = @ \o (IF gap THEN <<" ">> ELSE <<>>) \o item.text,
                        !.right = item.x + item.w]

Reach(way, height, h) ==
    CASE way = "manifest" -> ManifestReach(height, h)
      [] way = "anchor" -> AnchorReach(height, h)
      [] way = "line" -> LineReach(height, h)
Read(way, acc, item) ==
    CASE way = "manifest" -> ManifestRead(acc, item)
      [] way = "anchor" -> AnchorRead(acc, item)
      [] way = "line" -> LineRead(acc, item)

-----------------------------------------------------------------------------
(* Rows.                                                                   *)

\* Each item, from the top left, joins the nearest bucket within reach of it, or opens one.
Place(way, buckets, item) ==
    LET near == {k \in DOMAIN buckets :
                   Distance(buckets[k].y, item.y) <= Reach(way, buckets[k].height, item.h)}
        best == CHOOSE k \in near : \A l \in near :
                   \/ Distance(buckets[k].y, item.y) < Distance(buckets[l].y, item.y)
                   \/ /\ Distance(buckets[k].y, item.y) = Distance(buckets[l].y, item.y)
                      /\ k <= l
    IN IF near = {} THEN Append(buckets, [y |-> item.y, height |-> item.h, items |-> <<item>>])
       ELSE [buckets EXCEPT ![best].items = Append(@, item),
                            ![best].height = Larger(@, item.h)]

LeftToRight(items) == SortSeq(items, LAMBDA a, b : a.x < b.x)

\* The buckets come out from the top down, because the items went in that way.
Buckets(way, items) ==
    FoldLeft(LAMBDA buckets, item : Place(way, buckets, item), <<>>,
             SortSeq(items, LAMBDA a, b : a.y > b.y \/ (a.y = b.y /\ a.x < b.x)))

RowsOf(way, items) ==
    LET Row(bucket) ==
          LET useful == {bucket.items[i] : i \in {j \in DOMAIN bucket.items : ~Blank(bucket.items[j].text)}}
          IN [text |-> Norm(FoldLeft(LAMBDA acc, item : Read(way, acc, item), Start, LeftToRight(bucket.items)).text),
              x1 |-> IF useful = {} THEN 0 ELSE Least({g.x : g \in useful}),
              x2 |-> IF useful = {} THEN 0 ELSE Greatest({g.x + g.w : g \in useful}),
              y |-> bucket.y,
              height |-> IF way = "manifest" THEN bucket.height
                         ELSE Greatest({10} \cup {g.h : g \in useful})]
        buckets == Buckets(way, items)
    IN SelectSeq([k \in DOMAIN buckets |-> Row(buckets[k])], LAMBDA row : row.text # <<>>)

\* The manifest takes places as parts of the page, here of one of A4 size.
VisualRows(page) ==
    LET rows == RowsOf("manifest", page.items)
        Across(n) == (n * PageWidth) \div page.width
        Down(n) == (n * PageHeight) \div page.height
    IN [k \in DOMAIN rows |-> [text |-> rows[k].text, x1 |-> Across(rows[k].x1), x2 |-> Across(rows[k].x2),
                               y |-> Down(rows[k].y), height |-> Down(rows[k].height)]]
AnchorRows(page) == RowsOf("anchor", page.items)
SpatialTextLines(page) ==
    LET rows == RowsOf("line", page.items) IN Listed([k \in DOMAIN rows |-> rows[k].text])

\* extractPdfText: the lines of all pages, one page after the other.
ExtractPdfText(pages) == FlattenSeq([p \in DOMAIN pages |-> SpatialTextLines(pages[p])])

-----------------------------------------------------------------------------
\* combineRows: the text of span rows, or of as many as there are.
CombineRows(rows, first, span) ==
    LET part == SubSeq(rows, first, Smaller(first + span - 1, Len(rows)))
    IN Joined([k \in DOMAIN part |-> part[k].text])

\* mergeBounds: the rows' outline.
MergeBounds(rows) ==
    [x1 |-> Least({rows[k].x1 : k \in DOMAIN rows}),
     x2 |-> Greatest({rows[k].x2 : k \in DOMAIN rows}),
     y |-> rows[1].y, height |-> Greatest({rows[k].height : k \in DOMAIN rows})]

Outline(rows, first, span) == MergeBounds(SubSeq(rows, first, Smaller(first + span - 1, Len(rows))))

\* How much of a is covered by b, and whether that is at least 15 percent.
OverlapOf(a1, a2, b1, b2) == Larger(0, Smaller(a2, b2) - Larger(a1, b1))
EnoughOverlap(a1, a2, b1, b2) ==
    100 * OverlapOf(a1, a2, b1, b2) >= 15 * Larger(1, a2 - a1)

-----------------------------------------------------------------------------
(* Anchors, which both semantic analyses place on the rows of a document:  *)
(* where a value stands, of is the label or the context above it.          *)

NoBox == [x1 |-> 0, x2 |-> 0, y |-> 0, height |-> 0]
NoAnchor == [type |-> "none", page |-> 0, of |-> <<>>, span |-> 0, box |-> NoBox]
Anchor(type, layout, at, of, first, span) ==
    [type |-> type, page |-> at[1], of |-> of, span |-> span,
     box |-> Outline(layout[at[1]], first, span)]

\* The rows of a layout, as pairs of a page and a row number.
Places(layout) == UNION {{<<p, r>> : r \in DOMAIN layout[p]} : p \in DOMAIN layout}
RowAt(layout, at) == layout[at[1]][at[2]]

\* An anchor counts if nothing else matches.
Only(hits) == IF Sole(hits) = {} THEN NoAnchor ELSE (CHOOSE h \in Sole(hits) : TRUE).anchor
\* Of the anchors of different kinds the first there is.
FirstAnchor(anchors) ==
    LET found == Earliest({i \in DOMAIN anchors : anchors[i] # NoAnchor})
    IN IF found = {} THEN NoAnchor ELSE anchors[CHOOSE i \in found : TRUE]
Hit(at, span, anchor) == [at |-> at, span |-> span, anchor |-> anchor]

\* Of the rows near a box the nearest, then the one that covers most of it, then the first.
NearestRow(rows, box, reach) ==
    LET near == {r \in DOMAIN rows :
                   /\ Distance(rows[r].y, box.y) <= reach
                   /\ EnoughOverlap(box.x1, box.x2, rows[r].x1, rows[r].x2)}
        Rank(r) == <<Distance(rows[r].y, box.y), -OverlapOf(box.x1, box.x2, rows[r].x1, rows[r].x2), r>>
        Before(a, b) == \/ a[1] < b[1]
                        \/ a[1] = b[1] /\ a[2] < b[2]
                        \/ a[1] = b[1] /\ a[2] = b[2] /\ a[3] <= b[3]
    IN IF near = {} THEN 0 ELSE CHOOSE r \in near : \A q \in near : Before(Rank(r), Rank(q))

\* The rows of a page stand apart: no two are at the same height.
Rows == [text : Seq(STRING), x1 : Int, x2 : Int, y : Int, height : Int]
StandApart(rows) ==
    /\ rows \in Seq(Rows)
    /\ \A r, q \in DOMAIN rows : r # q => rows[r].y # rows[q].y

\* Every row of a page has some width.
Wide(rows) == \A r \in DOMAIN rows : rows[r].x1 < rows[r].x2

\* The row at which the outline of an anchor begins covers enough of it.
Covers(layout, a) ==
    \A r \in DOMAIN layout[a.page] :
       LET row == layout[a.page][r]
       IN row.y = a.box.y => EnoughOverlap(a.box.x1, a.box.x2, row.x1, row.x2)
=============================================================================
