------------------------------ MODULE OcrPages ------------------------------
(***************************************************************************)
(* From what an engine recognised to numbered blocks (ocr/blocks.py,       *)
(* ocr/regions.py, ocr/quality.py and the two providers).                  *)
(*                                                                         *)
(* Pure functions of boxes: a word is its engine's numbering, its box and  *)
(* its confidence; its text is a name.                                     *)
(***************************************************************************)
EXTENDS Integers, Sequences, SequencesExt, Orders

Box == [left : Int, top : Int, width : Int, height : Int]

Right(b) == b.left + b.width
Bottom(b) == b.top + b.height

FromEdges(left, top, right, bottom) ==
    [left |-> left, top |-> top, width |-> right - left, height |-> bottom - top]

Union(b, c) ==
    FromEdges(Min({b.left, c.left}), Min({b.top, c.top}),
              Max({Right(b), Right(c)}), Max({Bottom(b), Bottom(c)}))

Area(b) == Max({b.width, 0}) * Max({b.height, 0})

IntersectionArea(b, c) ==
    Max({Min({Right(b), Right(c)}) - Max({b.left, c.left}), 0})
        * Max({Min({Bottom(b), Bottom(c)}) - Max({b.top, c.top}), 0})

\* What _Group.add has collected of some words.
Bounding(words) ==
    FromEdges(Min({w.box.left : w \in ToSet(words)}), Min({w.box.top : w \in ToSet(words)}),
              Max({Right(w.box) : w \in ToSet(words)}), Max({Bottom(w.box) : w \in ToSet(words)}))

\* b spans all of c.
Spans(b, c) ==
    b.left <= c.left /\ b.top <= c.top /\ Right(c) <= Right(b) /\ Bottom(c) <= Bottom(b)

\* The mean of some confidences, each out of 100, out of 10000: rounded as
\* round(..., 4) does; None of none.
Unmeasured == -1

MeanOf(confidences) ==
    IF confidences = <<>> THEN Unmeasured
    ELSE (2 * 100 * FoldLeft(+, 0, confidences) + Len(confidences)) \div (2 * Len(confidences))

-----------------------------------------------------------------------------
(* Slips: variants of definitions below, each with one mistake the code    *)
(* could have made.  No specification uses them.                           *)

\* Columns whose blocks stay as they came.
ColumnsUnsorted(blocks, pageWidth) ==
    Sorted(blocks, [n \in DOMAIN blocks |-> <<blocks[n].page, blocks[n].box.left>>])

\* A region that takes a line does not grow by it.
NarrowPass(boxes, twice) ==
    LET Near(region, box) == 10 * (box.top - Bottom(region)) <= 6 * twice
        Join(regions, box) ==
            IF \E n \in DOMAIN regions : Near(regions[n], box) THEN regions
            ELSE Append(regions, box)
    IN FoldLeft(Join, <<>>, boxes)

-----------------------------------------------------------------------------
(* Words to blocks (blocks.py). *)

\* WordRow.
WordRow ==
    [page : Nat, block : Nat, paragraph : Nat, line : Nat, box : Box, conf : Int, text : STRING]

\* words_from_tesseract: rows without text, or with conf = -1, describe layout.
Recognised(words) ==
    Picked(words, {n \in DOMAIN words : words[n].text # "" /\ words[n].conf >= 0})

Paragraph(w) == <<w.page, w.block, w.paragraph>>

\* The block of a paragraph of the engine, its lines in order.
BlockOf(words, paragraph) ==
    LET own == Picked(words, {n \in DOMAIN words : Paragraph(words[n]) = paragraph}) IN
    [id |-> 0, page |-> paragraph[1],
     text |-> Sorted(own, [n \in DOMAIN own |-> <<own[n].line>>]),
     box |-> Bounding(own),
     conf |-> MeanOf([n \in DOMAIN own |-> own[n].conf])]

\* group_into_blocks: unordered and unnumbered.
GroupIntoBlocks(words) ==
    LET paragraphs == Distinct([n \in DOMAIN words |-> Paragraph(words[n])]) IN
    List([n \in DOMAIN paragraphs |-> BlockOf(words, paragraphs[n])])

\* COLUMN_GAP_RATIO is 0.15.
ColumnGap(pageWidth) == Max({1, (pageWidth * 15) \div 100})

\* reading_order and reading_order_boxes: column bands by left edge, each then
\* read downwards.  Page by page, so that it does for all the pages of assemble.
ReadingOrder(blocks, pageWidth) ==
    LET byLeft == Sorted(blocks, [n \in DOMAIN blocks |-> <<blocks[n].page, blocks[n].box.left>>])
        Starts(n) ==
            \/ n = 1
            \/ byLeft[n].page # byLeft[n - 1].page
            \/ byLeft[n].box.left - byLeft[n - 1].box.left > ColumnGap(pageWidth)
        Column(n) == Cardinality({m \in 1 .. n : Starts(m)})
    IN Sorted(byLeft, [n \in DOMAIN byLeft |->
                          <<Column(n), byLeft[n].box.top, byLeft[n].box.left>>])

AssignIds(blocks) == [n \in DOMAIN blocks |-> [blocks[n] EXCEPT !.id = n]]

\* assemble.
Assemble(words, pageWidth) == AssignIds(ReadingOrder(GroupIntoBlocks(words), pageWidth))

-----------------------------------------------------------------------------
(* Detected lines to regions (regions.py, paddle_tesseract.py). *)

\* horizontal_overlap_ratio is at least 0.35 of the narrower box.
InOneColumn(b, c) ==
    LET overlap == Min({Right(b), Right(c)}) - Max({b.left, c.left})
        narrower == Min({b.width, c.width})
    IN overlap > 0 /\ narrower > 0 /\ 100 * overlap >= 35 * narrower

\* Twice the median height, or the height of one pixel.
TwiceTypical(boxes) ==
    LET heights == Sorted([n \in DOMAIN boxes |-> boxes[n].height],
                          [n \in DOMAIN boxes |-> <<boxes[n].height>>])
        n == Len(heights)
        median == IF n % 2 = 1 THEN 2 * heights[n \div 2 + 1]
                  ELSE heights[n \div 2] + heights[n \div 2 + 1]
    IN IF median = 0 THEN 2 ELSE median

\* _absorbing_region's test: a gap of at most 1.2 line heights in one column, or
\* an overlap of OCR_PADDLE_MERGE_IOU, 0.1.
Absorbs(region, box, twice) ==
    \/ LET shared == IntersectionArea(region, box) IN
       shared > 0 /\ 10 * shared >= Area(region) + Area(box) - shared
    \/ InOneColumn(region, box) /\ 10 * (box.top - Bottom(region)) <= 6 * twice

\* A box joins the first region that absorbs it.
Joined(regions, box, twice) ==
    LET hosts == {n \in DOMAIN regions : Absorbs(regions[n], box, twice)} IN
    IF hosts = {} THEN Append(regions, box)
    ELSE [regions EXCEPT ![Min(hosts)] = Union(@, box)]

\* One pass over all boxes.
MergePass(boxes, twice) ==
    LET after[n \in 0 .. Len(boxes)] ==
            IF n = 0 THEN <<>> ELSE Joined(after[n - 1], boxes[n], twice)
    IN after[Len(boxes)]

\* merge_lines, with _settle: again until nothing changes, which is no more often
\* than there are boxes.
MergeLines(boxes) ==
    LET ordered == Sorted(boxes, [n \in DOMAIN boxes |-> <<boxes[n].top, boxes[n].left>>])
        after[n \in 0 .. Len(ordered)] ==
            IF n = 0 THEN ordered ELSE MergePass(after[n - 1], TwiceTypical(ordered))
    IN after[Len(ordered)]

\* clamp.
Clamp(b, pageWidth, pageHeight, padding) ==
    LET left == Max({b.left - padding, 0})
        top == Max({b.top - padding, 0})
    IN FromEdges(left, top, Max({Min({Right(b) + padding, pageWidth}), left}),
                 Max({Min({Bottom(b) + padding, pageHeight}), top}))

\* _read_region: a crop of its own.  A word is in a crop that spans it.
CropOf(words, region, pageWidth, pageHeight, padding) ==
    LET crop == Clamp(region, pageWidth, pageHeight, padding)
        own == Picked(words, {n \in DOMAIN words : Area(crop) # 0 /\ Spans(crop, words[n].box)})
    IN [id |-> 0, page |-> 1,
        text |-> Sorted(own, [n \in DOMAIN own |-> <<own[n].block, own[n].line>>]),
        box |-> crop,
        conf |-> MeanOf([n \in DOMAIN own |-> own[n].conf])]

\* _recognise: what reads as nothing is skipped, and numbers are given at the end.
Recognise(words, regions, pageWidth, pageHeight, padding) ==
    LET ordered == ReadingOrder([n \in DOMAIN regions |-> [box |-> regions[n], page |-> 1]], pageWidth)
        read == List([n \in DOMAIN ordered |->
                         CropOf(words, ordered[n].box, pageWidth, pageHeight, padding)])
    IN AssignIds(Picked(read, {n \in DOMAIN read : read[n].text # <<>>}))

-----------------------------------------------------------------------------
(* Judging the result (quality.py). *)

\* mean_confidence: of blocks, not of words.
PageConfidence(blocks) ==
    IF blocks = <<>> THEN Unmeasured
    ELSE (2 * FoldLeft(LAMBDA sum, b : sum + b.conf, 0, blocks) + Len(blocks))
             \div (2 * Len(blocks))

\* An unmeasured page is not one of low confidence; the threshold is 0.60.
Warnings(blocks, minWords) ==
    LET count == FoldLeft(LAMBDA sum, b : sum + Len(b.text), 0, blocks)
        confidence == PageConfidence(blocks)
    IN (IF count < minWords THEN {"OCR_EMPTY_TEXT"} ELSE {})
         \cup (IF confidence = Unmeasured THEN {"OCR_CONFIDENCE_UNAVAILABLE"}
               ELSE IF confidence < 6000 THEN {"OCR_LOW_CONFIDENCE"} ELSE {})
=============================================================================
