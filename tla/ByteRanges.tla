----------------------------- MODULE ByteRanges -----------------------------
(***************************************************************************)
(* byteRanges of internal/transfer/ranges.go: the received ranges of one    *)
(* item as an ordered sequence of half-open intervals, merged when they     *)
(* touch.  The receive store and the transfer session each keep one per     *)
(* item; Transfer models them as sets of positions, which AddsExactly       *)
(* justifies.  The operators take the list, and the properties the size of  *)
(* the item too.                                                            *)
(***************************************************************************)
EXTENDS Integers, Sequences, FiniteSets

ByteRange(size) == [start : 0..size, end : 0..size]

\* newByteRanges.
Starting(prefix) == IF prefix > 0 THEN <<[start |-> 0, end |-> prefix]>> ELSE << >>

\* The number of leading ranges that end at or before start.
Insert(ranges, start) ==
    Cardinality({k \in DOMAIN ranges : \A j \in 1..k : ranges[j].end <= start})

\* Only the first range that ends after start can overlap.
Overlaps(ranges, start, end) ==
    LET k == Insert(ranges, start) + 1 IN
    k <= Len(ranges) /\ ranges[k].start < end /\ start < ranges[k].end

\* Mutant: the range on the right is merged without looking.
MergedRightAlways(ranges, start, end) ==
    LET before == SubSeq(ranges, 1, Insert(ranges, start))
        after == SubSeq(ranges, Insert(ranges, start) + 1, Len(ranges))
        left == before # << >> /\ before[Len(before)].end = start
        right == after # << >>
        merged == [start |-> IF left THEN before[Len(before)].start ELSE start,
                   end |-> IF right THEN after[1].end ELSE end]
    IN (IF left THEN SubSeq(before, 1, Len(before) - 1) ELSE before)
       \o <<merged>> \o (IF right THEN Tail(after) ELSE after)

\* The ranges with [start, end) inserted and its touching neighbours merged.
Merged(ranges, start, end) ==
    LET before == SubSeq(ranges, 1, Insert(ranges, start))
        after == SubSeq(ranges, Insert(ranges, start) + 1, Len(ranges))
        left == before # << >> /\ before[Len(before)].end = start
        right == after # << >> /\ after[1].start = end
        merged == [start |-> IF left THEN before[Len(before)].start ELSE start,
                   end |-> IF right THEN after[1].end ELSE end]
    IN (IF left THEN SubSeq(before, 1, Len(before) - 1) ELSE before)
       \o <<merged>> \o (IF right THEN Tail(after) ELSE after)

\* What Add leaves behind; callers have checked the bounds with
\* validateChunkRange, and an empty range changes nothing.
Added(ranges, start, end) ==
    IF start = end \/ Overlaps(ranges, start, end) THEN ranges ELSE Merged(ranges, start, end)

Prefix(ranges) == IF ranges = << >> \/ ranges[1].start # 0 THEN 0 ELSE ranges[1].end

(***************************************************************************)
(* Properties.                                                              *)
(***************************************************************************)

\* The positions of a range.
Within(range) == range.start..(range.end - 1)

\* The positions of a list.
Covered(ranges) == UNION {Within(ranges[k]) : k \in DOMAIN ranges}

\* The ranges are in order, not empty, and two neighbours leave a gap, so that
\* the search for the insertion point and the single overlap test suffice.
Canonical(ranges, size) ==
    /\ ranges \in Seq(ByteRange(size))
    /\ \A k \in DOMAIN ranges : ranges[k].start < ranges[k].end
    /\ \A j, k \in DOMAIN ranges : j < k => ranges[j].end < ranges[k].start

\* Prefix is the number of bytes received without a gap from the beginning:
\* what Close truncates to and Complete compares with the size.
PrefixIsContiguous(ranges) ==
    /\ 0..(Prefix(ranges) - 1) \subseteq Covered(ranges)
    /\ Prefix(ranges) \notin Covered(ranges)

\* The reference definition of Add, for every range it could be called with: the
\* range is refused exactly when some of it was received before, and otherwise
\* its positions are added and no others.
AddsExactly(ranges, size) ==
    \A start, end \in 0..size : start < end =>
        LET span == start..(end - 1) IN
        /\ Overlaps(ranges, start, end) <=> span \cap Covered(ranges) # {}
        /\ ~Overlaps(ranges, start, end) =>
               Covered(Added(ranges, start, end)) = Covered(ranges) \cup span
=============================================================================
