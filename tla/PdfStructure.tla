----------------------------- MODULE PdfStructure -----------------------------
(***************************************************************************)
(* How the structure of a submitted PDF differs from the official one,     *)
(* whatever its text says.  A document has pages, of a size and with items *)
(* in the order of its content stream, and metadata; coordinates are in    *)
(* tenths of a point, to which round takes them.                           *)
(***************************************************************************)
EXTENDS PdfLayout

\* different, for two numbers.
Different(a, b, tolerance) == Distance(a, b) > tolerance

\* Pairs of pages, and of items that stand at the same place of their content streams.
PagePairs(official, submitted) ==
    {<<official.pages[p], submitted.pages[p]>> : p \in 1..Smaller(Len(official.pages), Len(submitted.pages))}
ItemPairs(official, submitted) ==
    UNION {{<<q[1].items[i], q[2].items[i]>> : i \in 1..Smaller(Len(q[1].items), Len(q[2].items))} :
            q \in PagePairs(official, submitted)}

\* compareStructures: the kinds of changes; how often each occurs is left out.
Changes(official, submitted) ==
    LET pairs == ItemPairs(official, submitted)
        Some(Changed(_, _)) == \E q \in pairs : Changed(q[1], q[2])
    IN {kind \in {"PAGE_COUNT_CHANGED", "PAGE_DIMENSIONS_CHANGED", "TEXT_OBJECT_COUNT_CHANGED",
                  "TEXT_POSITION_CHANGED", "FONT_CHANGED", "FONT_SIZE_CHANGED", "TEXT_WIDTH_CHANGED",
                  "PDF_METADATA_CHANGED"} :
          CASE kind = "PAGE_COUNT_CHANGED" -> Len(official.pages) # Len(submitted.pages)
            [] kind = "PAGE_DIMENSIONS_CHANGED" ->
                 \E q \in PagePairs(official, submitted) :
                    Different(q[1].width, q[2].width, 5) \/ Different(q[1].height, q[2].height, 5)
            [] kind = "TEXT_OBJECT_COUNT_CHANGED" ->
                 \E q \in PagePairs(official, submitted) : Len(q[1].items) # Len(q[2].items)
            [] kind = "TEXT_POSITION_CHANGED" ->
                 Some(LAMBDA a, b : Different(a.x, b.x, 10) \/ Different(a.y, b.y, 10))
            [] kind = "FONT_CHANGED" -> Some(LAMBDA a, b : a.font # b.font)
            [] kind = "FONT_SIZE_CHANGED" -> Some(LAMBDA a, b : Different(a.h, b.h, 5))
            [] kind = "TEXT_WIDTH_CHANGED" -> Some(LAMBDA a, b : Different(a.w, b.w, 10))
            [] kind = "PDF_METADATA_CHANGED" -> official.meta # submitted.meta}

\* analysePdfStructureAgainstOfficial: a fetch that fails, or a file that cannot be read,
\* makes the analysis unavailable.
StructureVerdict(changes, fetched, readable) ==
    IF fetched /\ readable
    THEN [available |-> TRUE, changes |-> changes]
    ELSE [available |-> FALSE, changes |-> {}]
=============================================================================
