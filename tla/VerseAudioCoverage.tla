------------------------- MODULE VerseAudioCoverage -------------------------
(***************************************************************************)
(* The pure coverage algorithms of the verse-audio domain                  *)
(* (verse-audio.coverage.ts, verse-audio.shapes.ts,                        *)
(* verse-audio.range.service.ts): which stretch of a book a recording      *)
(* covers, and when two recordings contend for the same verse.             *)
(*                                                                         *)
(* A reference is [chapter, verse].  A shape is what a take or a recording *)
(* stores: a granularity and four bounds, null for a single verse.  The    *)
(* nulls are the reference NoRef.                                          *)
(***************************************************************************)
EXTENDS Integers

VerseRef == [chapter : Nat, verse : Nat]

(* The null bounds that a "verse" row stores. *)
NoRef == [chapter |-> 0, verse |-> 0]

Shape == [granularity : {"verse", "pericope"}, start : VerseRef, end : VerseRef]

VerseShape == [granularity |-> "verse", start |-> NoRef, end |-> NoRef]

PericopeShape(range) ==
    [granularity |-> "pericope", start |-> range.start, end |-> range.end]

(* Lexicographic (chapter, verse) ordering, as a difference of integers.   *)
compareVerseRef(a, b) ==
    IF a.chapter # b.chapter THEN a.chapter - b.chapter ELSE a.verse - b.verse

(* Mutants: a shared first or last verse is missed; only the ends count.   *)
rangesCross(a, b) ==
    /\ compareVerseRef(a.start, b.end) < 0
    /\ compareVerseRef(b.start, a.end) < 0

endsEqual(a, b) == compareVerseRef(a.end, b.end) = 0

rangesOverlap(a, b) ==
    /\ compareVerseRef(a.start, b.end) <= 0
    /\ compareVerseRef(b.start, a.end) <= 0

rangesEqual(a, b) ==
    /\ compareVerseRef(a.start, b.start) = 0
    /\ compareVerseRef(a.end, b.end) = 0

(* A pericope with all its bounds covers them; anything else, an anomalous *)
(* pericope included, covers the one verse it is anchored at.              *)
coverageFromActive(shape, anchor) ==
    IF shape.granularity = "pericope" /\ NoRef \notin {shape.start, shape.end}
    THEN [start |-> shape.start, end |-> shape.end]
    ELSE [start |-> anchor, end |-> anchor]

(* The ranges the range route lets through, and the rule that the anchor   *)
(* of the unit is the first verse of its pericope.                         *)
validPericopeRange(range) ==
    /\ \A n \in {range.start.chapter, range.start.verse,
                 range.end.chapter, range.end.verse} : n > 0
    /\ compareVerseRef(range.end, range.start) >= 0

(* Mutant of anchorMatchesStart: the verse is not compared. *)
chapterMatchesStart(anchor, range) == anchor.chapter = range.start.chapter

anchorMatchesStart(anchor, range) == anchor = range.start

(* Every shape an upload to a unit at this anchor can carry, when pericopes *)
(* end in one of ends.                                                      *)
AcceptedShapes(anchor, ends) ==
    {VerseShape} \cup
    {PericopeShape(range) :
        range \in {g \in [start : ends \cup {anchor}, end : ends] :
                     validPericopeRange(g) /\ anchorMatchesStart(anchor, g)}}

(* What the comparisons are for: the references a range stands for.        *)
Ranges == [start : VerseRef, end : VerseRef]

Covers(range, ref) ==
    compareVerseRef(range.start, ref) <= 0 /\ compareVerseRef(ref, range.end) <= 0
=============================================================================
