--------------------------- MODULE SendPathProofs ---------------------------
(***************************************************************************)
(* Proofs about SendPath for any number of workers, queue depth, streams,   *)
(* weights, quantum, sizes and resumed prefixes: the parallel sender        *)
(* delivers what it takes, and what the receiver has is what was read.      *)
(***************************************************************************)
EXTENDS SendPath, TLAPS, SequenceTheorems, FiniteSetTheorems

(***************************************************************************)
(* The received ranges by themselves, for lists of any length and items of  *)
(* any size: Add keeps the list canonical, refuses a range exactly when a   *)
(* byte of it was received before, and otherwise adds its bytes and no      *)
(* others.                                                                  *)
(***************************************************************************)

\* What a canonical list is, element by element.
LEMMA CanonicalFacts ==
    ASSUME NEW size \in Nat, NEW ranges, Canonical(ranges, size)
    PROVE  /\ Len(ranges) \in Nat /\ DOMAIN ranges = 1..Len(ranges)
           /\ \A k \in 1..Len(ranges) : /\ ranges[k] \in ByteRange(size)
                                        /\ ranges[k].start \in 0..size /\ ranges[k].end \in 0..size
                                        /\ ranges[k].start < ranges[k].end
           /\ \A j, k \in 1..Len(ranges) : j < k => ranges[j].end < ranges[k].start
<1>1. /\ ranges \in Seq(ByteRange(size)) /\ Len(ranges) \in Nat /\ DOMAIN ranges = 1..Len(ranges)
      /\ \A k \in 1..Len(ranges) : ranges[k] \in ByteRange(size)
  BY LenProperties DEF Canonical
<1>2. \A r \in ByteRange(size) : r.start \in 0..size /\ r.end \in 0..size
  BY DEF ByteRange
<1> QED BY <1>1, <1>2 DEF Canonical

\* A set of positive numbers that holds 1..k for each of its members k is an
\* interval.
LEMMA PrefixIsInterval ==
    ASSUME NEW L \in Nat, NEW S \in SUBSET (1..L), \A k \in S : 1..k \subseteq S
    PROVE  Cardinality(S) \in 0..L /\ S = 1..Cardinality(S)
<1> DEFINE n == Cardinality(S)
<1>1. /\ IsFiniteSet(1..L) /\ Cardinality(1..L) = L
  BY FS_Interval
<1>2. IsFiniteSet(S) /\ n <= L /\ n \in Nat
  BY <1>1, FS_Subset, FS_CardinalityType
<1>3. ASSUME NEW k \in S PROVE k \in 1..n
  <2>1. k \in Nat \ {0} /\ IsFiniteSet(1..k) /\ Cardinality(1..k) = k
    BY FS_Interval
  <2>2. k <= n
    BY <2>1, <1>2, FS_Subset
  <2> QED BY <2>1, <2>2, <1>2
<1> HIDE DEF n
<1>4. IsFiniteSet(1..n) /\ Cardinality(1..n) = n
  BY <1>2, FS_Interval
<1>5. S \in SUBSET (1..n)
  BY <1>3
<1>6. 1..n = S
  BY <1>4, <1>5, FS_Subset DEF n
<1> QED BY <1>2, <1>6 DEF n

\* The insertion point: what is before it ends at or before start, what is
\* after it ends later.
LEMMA InsertFacts ==
    ASSUME NEW size \in Nat, NEW ranges, Canonical(ranges, size), NEW start \in Nat
    PROVE  /\ Insert(ranges, start) \in 0..Len(ranges)
           /\ \A j \in 1..Insert(ranges, start) : ranges[j].end <= start
           /\ \A j \in (Insert(ranges, start) + 1)..Len(ranges) : start < ranges[j].end
<1> DEFINE S == {k \in DOMAIN ranges : \A j \in 1..k : ranges[j].end <= start}
           n == Insert(ranges, start)
<1>1. /\ Len(ranges) \in Nat /\ DOMAIN ranges = 1..Len(ranges)
      /\ \A k \in 1..Len(ranges) : /\ ranges[k].start \in Nat /\ ranges[k].end \in Nat
                                   /\ ranges[k].start < ranges[k].end
      /\ \A j, k \in 1..Len(ranges) : j < k => ranges[j].end < ranges[k].start
  BY CanonicalFacts
<1>2. S \in SUBSET (1..Len(ranges))
  BY <1>1
<1>3. \A k \in S : 1..k \subseteq S
  BY <1>1
<1>4. n = Cardinality(S)
  BY DEF Insert
<1>5. n \in 0..Len(ranges) /\ S = 1..n
  <2> HIDE DEF S, n
  <2> QED BY <1>1, <1>2, <1>3, <1>4, PrefixIsInterval
<1> HIDE DEF n
<1>6. \A j \in 1..n : ranges[j].end <= start
  <2> SUFFICES ASSUME NEW j \in 1..n PROVE ranges[j].end <= start
    OBVIOUS
  <2>1. j \in S /\ j \in 1..j
    BY <1>5
  <2> QED BY <2>1
<1>7. n < Len(ranges) => start < ranges[n + 1].end
  <2> SUFFICES ASSUME n < Len(ranges), ranges[n + 1].end <= start PROVE FALSE
    BY <1>1, <1>5
  <2>1. n + 1 \in DOMAIN ranges /\ \A j \in 1..(n + 1) : ranges[j].end <= start
    <3>1. n + 1 \in DOMAIN ranges /\ \A j \in 1..(n + 1) : j = n + 1 \/ j \in 1..n
      BY <1>1, <1>5
    <3> QED BY <3>1, <1>6
  <2>2. n + 1 \in S
    BY <2>1
  <2> QED BY <2>2, <1>5
<1>8. ASSUME NEW j \in (n + 1)..Len(ranges) PROVE start < ranges[j].end
  <2>1. CASE j = n + 1
    BY <2>1, <1>1, <1>5, <1>7
  <2>2. CASE j # n + 1
    <3>1. n + 1 \in 1..Len(ranges) /\ j \in 1..Len(ranges) /\ n + 1 < j /\ n < Len(ranges)
      BY <2>2, <1>1, <1>5
    <3>2. ranges[n + 1].end < ranges[j].start /\ ranges[j].start < ranges[j].end
      BY <3>1, <1>1
    <3> QED BY <3>1, <3>2, <1>1, <1>7
  <2> QED BY <2>1, <2>2
<1> QED BY <1>5, <1>6, <1>8 DEF n

\* The single overlap test.
LEMMA OverlapFacts ==
    ASSUME NEW size \in Nat, NEW ranges, Canonical(ranges, size),
           NEW start \in 0..size, NEW end \in 0..size, start < end
    PROVE  LET n == Insert(ranges, start) IN
           Overlaps(ranges, start, end) <=> n < Len(ranges) /\ ranges[n + 1].start < end
<1> DEFINE n == Insert(ranges, start)
<1>1. /\ n \in 0..Len(ranges) /\ Len(ranges) \in Nat
      /\ \A j \in (n + 1)..Len(ranges) : start < ranges[j].end
  <2>1. start \in Nat
    OBVIOUS
  <2> QED BY <2>1, InsertFacts, CanonicalFacts
<1>2. n < Len(ranges) => start < ranges[n + 1].end
  BY <1>1
<1> QED BY <1>1, <1>2 DEF Overlaps

\* m is the first a ranges, then x, then the ranges from b on.
Spliced(m, ranges, a, b, x) ==
    /\ Len(m) = Len(ranges) + a + 2 - b
    /\ \A k \in 1..a : m[k] = ranges[k]
    /\ m[a + 1] = x
    /\ \A k \in b..Len(ranges) : m[k + a + 2 - b] = ranges[k]

LEMMA SpliceFacts ==
    ASSUME NEW T, NEW ranges \in Seq(T), NEW x \in T,
           NEW a \in 0..Len(ranges), NEW b \in (a + 1)..(Len(ranges) + 1)
    PROVE  LET m == SubSeq(ranges, 1, a) \o <<x>> \o SubSeq(ranges, b, Len(ranges)) IN
           m \in Seq(T) /\ Spliced(m, ranges, a, b, x)
<1> DEFINE L == Len(ranges)
           before == SubSeq(ranges, 1, a)
           after == SubSeq(ranges, b, L)
           half == before \o <<x>>
           m == half \o after
<1>0. L \in Nat /\ \A k \in 1..L : ranges[k] \in T
  BY LenProperties
<1>1. before \in Seq(T) /\ Len(before) = a /\ \A k \in 1..a : before[k] = ranges[k]
  <2>1. \A k \in 1..a : ranges[k] \in T
    BY <1>0
  <2>2. 1 \in Int /\ a \in Int
    BY <1>0
  <2>3. /\ before \in Seq(T) /\ Len(before) = (IF 1 <= a THEN a - 1 + 1 ELSE 0)
        /\ \A i \in 1..(a - 1 + 1) : before[i] = ranges[1 + i - 1]
    BY <2>1, <2>2, SubSeqProperties
  <2> HIDE DEF before
  <2> QED BY <2>3, <1>0
<1>2. /\ after \in Seq(T) /\ Len(after) = L - b + 1
      /\ \A k \in b..L : k - b + 1 \in 1..(L - b + 1) /\ after[k - b + 1] = ranges[k]
  <2>1. \A k \in b..L : ranges[k] \in T
    BY <1>0
  <2>2. b \in Int /\ L \in Int
    BY <1>0
  <2>3. /\ after \in Seq(T) /\ Len(after) = (IF b <= L THEN L - b + 1 ELSE 0)
        /\ \A i \in 1..(L - b + 1) : after[i] = ranges[b + i - 1]
    BY <2>1, <2>2, SubSeqProperties
  <2> HIDE DEF after
  <2>4. ASSUME NEW k \in b..L PROVE k - b + 1 \in 1..(L - b + 1) /\ after[k - b + 1] = ranges[k]
    <3>1. k - b + 1 \in 1..(L - b + 1) /\ b + (k - b + 1) - 1 = k
      BY <1>0
    <3> QED BY <3>1, <2>3
  <2> QED BY <2>3, <2>4, <1>0
<1> HIDE DEF before, after
<1>3. <<x>> \in Seq(T) /\ Len(<<x>>) = 1 /\ <<x>>[1] = x
  OBVIOUS
<1>4. half \in Seq(T) /\ Len(half) = a + 1 /\ half[a + 1] = x /\ \A k \in 1..a : half[k] = ranges[k]
  <2>1. /\ half \in Seq(T) /\ Len(half) = Len(before) + Len(<<x>>)
        /\ \A i \in 1..(Len(before) + Len(<<x>>)) :
              half[i] = IF i <= Len(before) THEN before[i] ELSE <<x>>[i - Len(before)]
    BY <1>1, <1>3, ConcatProperties
  <2>2. a + 1 \in 1..(a + 1) /\ ~(a + 1 <= a) /\ a + 1 - a = 1
    BY <1>0
  <2> HIDE DEF half
  <2> QED BY <2>1, <2>2, <1>0, <1>1, <1>3
<1> HIDE DEF half
<1>5. /\ m \in Seq(T) /\ Len(m) = Len(half) + Len(after)
      /\ \A i \in 1..(Len(half) + Len(after)) :
            m[i] = IF i <= Len(half) THEN half[i] ELSE after[i - Len(half)]
  BY <1>2, <1>4, ConcatProperties
<1> HIDE DEF m
<1>6. Len(m) = L + a + 2 - b
  BY <1>0, <1>2, <1>4, <1>5
<1>7. m[a + 1] = x /\ \A k \in 1..a : m[k] = ranges[k]
  <2>1. Len(half) = a + 1 /\ Len(after) \in Nat
    BY <1>0, <1>2, <1>4
  <2>2. ASSUME NEW k \in 1..(a + 1) PROVE m[k] = half[k]
    <3>1. k \in 1..(Len(half) + Len(after)) /\ k <= Len(half)
      BY <2>1, <1>0
    <3> QED BY <3>1, <1>5
  <2>3. a + 1 \in 1..(a + 1) /\ 1..a \subseteq 1..(a + 1)
    BY <1>0
  <2> QED BY <2>2, <2>3, <1>4
<1>8. ASSUME NEW k \in b..L PROVE m[k + a + 2 - b] = ranges[k]
  <2>1. /\ k + a + 2 - b \in 1..(a + 1 + (L - b + 1)) /\ ~(k + a + 2 - b <= a + 1)
        /\ (k + a + 2 - b) - (a + 1) = k - b + 1
    BY <1>0
  <2> QED BY <2>1, <1>2, <1>4, <1>5
<1> QED BY <1>5, <1>6, <1>7, <1>8 DEF Spliced, m, half, before, after

LEMMA DropLast ==
    ASSUME NEW T, NEW ranges \in Seq(T), NEW n \in 1..Len(ranges)
    PROVE  SubSeq(SubSeq(ranges, 1, n), 1, n - 1) = SubSeq(ranges, 1, n - 1)
<1> DEFINE p == SubSeq(ranges, 1, n)
           u == SubSeq(p, 1, n - 1)
           v == SubSeq(ranges, 1, n - 1)
<1>0. Len(ranges) \in Nat /\ (\A k \in 1..n : ranges[k] \in T) /\ 1 \in Int /\ n \in Int
      /\ n - 1 \in Int
  BY LenProperties
<1>1. /\ \A i \in 1..(n - 1 + 1) : p[i] = ranges[1 + i - 1]
  BY <1>0, SubSeqProperties
<1>2. \A i \in 1..n : p[i] = ranges[i] /\ p[i] \in T
  <2> HIDE DEF p
  <2> QED BY <1>0, <1>1
<1> HIDE DEF p
<1>3. \A i \in 1..(n - 1) : p[i] \in T /\ ranges[i] \in T /\ p[i] = ranges[i]
  BY <1>0, <1>2
<1>4. /\ u \in Seq(T) /\ Len(u) = (IF 1 <= n - 1 THEN n - 1 - 1 + 1 ELSE 0)
      /\ \A i \in 1..(n - 1 - 1 + 1) : u[i] = p[1 + i - 1]
  BY <1>0, <1>3, SubSeqProperties
<1>5. /\ v \in Seq(T) /\ Len(v) = (IF 1 <= n - 1 THEN n - 1 - 1 + 1 ELSE 0)
      /\ \A i \in 1..(n - 1 - 1 + 1) : v[i] = ranges[1 + i - 1]
  BY <1>0, <1>3, SubSeqProperties
<1> HIDE DEF u, v
<1>6. Len(u) = Len(v) /\ \A i \in 1..Len(u) : u[i] = v[i]
  <2>1. Len(u) = Len(v) /\ Len(u) = n - 1
    BY <1>0, <1>4, <1>5
  <2>2. ASSUME NEW i \in 1..(n - 1) PROVE u[i] = v[i]
    <3>1. i \in 1..(n - 1 - 1 + 1) /\ 1 + i - 1 = i
      BY <1>0
    <3> QED BY <3>1, <1>3, <1>4, <1>5
  <2> QED BY <2>1, <2>2
<1> QED BY <1>4, <1>5, <1>6, SeqEqual DEF u, v, p

\* How a range that overlaps nothing lies between its neighbours, and what Add
\* makes of it and of the neighbours it touches.
LEMMA MergedFacts ==
    ASSUME NEW size \in Nat, NEW ranges, Canonical(ranges, size),
           NEW start \in 0..size, NEW end \in 0..size, start < end,
           ~Overlaps(ranges, start, end)
    PROVE  LET n == Insert(ranges, start)
               left == n >= 1 /\ ranges[n].end = start
               right == n < Len(ranges) /\ ranges[n + 1].start = end
               a == IF left THEN n - 1 ELSE n
               b == IF right THEN n + 2 ELSE n + 1
               x == [start |-> IF left THEN ranges[n].start ELSE start,
                     end |-> IF right THEN ranges[n + 1].end ELSE end]
               m == Merged(ranges, start, end)
           IN  /\ n < Len(ranges) => end <= ranges[n + 1].start
               /\ a \in 0..Len(ranges) /\ b \in (a + 1)..(Len(ranges) + 1)
               /\ x \in ByteRange(size)
               /\ m \in Seq(ByteRange(size)) /\ Spliced(m, ranges, a, b, x)
<1> DEFINE n == Insert(ranges, start)
           L == Len(ranges)
           T == ByteRange(size)
           left == n >= 1 /\ ranges[n].end = start
           right == n < L /\ ranges[n + 1].start = end
           a == IF left THEN n - 1 ELSE n
           b == IF right THEN n + 2 ELSE n + 1
           x == [start |-> IF left THEN ranges[n].start ELSE start,
                 end |-> IF right THEN ranges[n + 1].end ELSE end]
           m == Merged(ranges, start, end)
           before == SubSeq(ranges, 1, n)
           after == SubSeq(ranges, n + 1, L)
<1>1. /\ L \in Nat /\ n \in 0..L /\ ranges \in Seq(T)
      /\ \A k \in 1..L : ranges[k] \in T /\ ranges[k].start \in 0..size /\ ranges[k].end \in 0..size
  <2>1. start \in Nat
    OBVIOUS
  <2> QED BY <2>1, CanonicalFacts, InsertFacts DEF Canonical
<1>2. n < L => end <= ranges[n + 1].start
  <2>1. ~(n < L /\ ranges[n + 1].start < end)
    BY OverlapFacts
  <2> HIDE DEF n
  <2> QED BY <2>1, <1>1
<1>3. /\ Len(before) = n /\ (before # << >> <=> n >= 1) /\ (n >= 1 => before[n] = ranges[n])
  <2>1. (\A k \in 1..n : ranges[k] \in T) /\ 1 \in Int /\ n \in Int
    BY <1>1
  <2>2. /\ before \in Seq(T) /\ Len(before) = (IF 1 <= n THEN n - 1 + 1 ELSE 0)
        /\ \A i \in 1..(n - 1 + 1) : before[i] = ranges[1 + i - 1]
    BY <2>1, SubSeqProperties
  <2> HIDE DEF before, n, T
  <2>3. Len(before) = n /\ (n >= 1 => before[n] = ranges[n])
    BY <2>2, <1>1
  <2>4. before # << >> <=> n >= 1
    BY <2>2, <2>3, <1>1, EmptySeq
  <2> QED BY <2>3, <2>4
<1>4. /\ after # << >> <=> n < L
      /\ n < L => after[1] = ranges[n + 1]
  <2>1. (\A k \in (n + 1)..L : ranges[k] \in T) /\ n + 1 \in Int /\ L \in Int
    BY <1>1
  <2>2. /\ after \in Seq(T) /\ Len(after) = (IF n + 1 <= L THEN L - (n + 1) + 1 ELSE 0)
        /\ \A i \in 1..(L - (n + 1) + 1) : after[i] = ranges[(n + 1) + i - 1]
    BY <2>1, SubSeqProperties
  <2> HIDE DEF after, n, T, L
  <2>3. n < L => 1 \in 1..(L - (n + 1) + 1) /\ (n + 1) + 1 - 1 = n + 1
    BY <1>1
  <2>4. n < L <=> Len(after) # 0
    BY <2>2, <1>1
  <2>5. after # << >> <=> Len(after) # 0
    BY <2>2, EmptySeq
  <2> QED BY <2>2, <2>3, <2>4, <2>5
<1>5. m = (IF left THEN SubSeq(before, 1, n - 1) ELSE before)
          \o <<x>> \o (IF right THEN Tail(after) ELSE after)
  <2>1. left <=> before # << >> /\ before[Len(before)].end = start
    BY <1>3
  <2>2. right <=> after # << >> /\ after[1].start = end
    BY <1>4
  <2> HIDE DEF left, right
  <2> DEFINE l == before # << >> /\ before[Len(before)].end = start
             r == after # << >> /\ after[1].start = end
             y == [start |-> IF l THEN before[Len(before)].start ELSE start,
                   end |-> IF r THEN after[1].end ELSE end]
  <2>3. m = (IF l THEN SubSeq(before, 1, Len(before) - 1) ELSE before)
            \o <<y>> \o (IF r THEN Tail(after) ELSE after)
    BY DEF Merged
  <2>4. y = x
    <3>1. left => before[Len(before)].start = ranges[n].start
      BY <1>3 DEF left
    <3>2. right => after[1].end = ranges[n + 1].end
      BY <1>4 DEF right
    <3> HIDE DEF before, after, n
    <3> QED BY <2>1, <2>2, <3>1, <3>2
  <2> HIDE DEF x, y, before, after, n, m
  <2> QED BY <2>1, <2>2, <2>3, <2>4, <1>3
<1>6. SubSeq(ranges, 1, a) = IF left THEN SubSeq(before, 1, n - 1) ELSE before
  <2>1. left => n \in 1..L
    BY <1>1
  <2>2. left => SubSeq(before, 1, n - 1) = SubSeq(ranges, 1, n - 1)
    <3> HIDE DEF n, T, left
    <3> QED BY <2>1, <1>1, DropLast DEF before
  <2> HIDE DEF left, n
  <2> QED BY <2>2 DEF a, before
<1>7. SubSeq(ranges, b, L) = IF right THEN Tail(after) ELSE after
  <2>1. right => n + 1 \in 1..Len(ranges) /\ Len(ranges) \in (n + 1)..Len(ranges)
    BY <1>1
  <2>2. right => Tail(after) = SubSeq(ranges, n + 2, L)
    <3>1. right => (n + 1) + 1 = n + 2
      BY <1>1
    <3>2. right => Tail(after) = SubSeq(ranges, (n + 1) + 1, L)
      <4> HIDE DEF n, T, right
      <4>1. right => Tail(SubSeq(ranges, n + 1, Len(ranges))) = SubSeq(ranges, (n + 1) + 1, Len(ranges))
        BY <2>1, <1>1, HeadTailOfSubSeq
      <4> QED BY <4>1 DEF after
    <3> HIDE DEF right, n
    <3> QED BY <3>1, <3>2
  <2> HIDE DEF right, n
  <2> QED BY <2>2 DEF b, after
<1>8. a \in 0..L /\ b \in (a + 1)..(L + 1)
  <2> HIDE DEF n
  <2> QED BY <1>1
<1>9. x \in T
  <2>1. left => ranges[n].start \in 0..size
    BY <1>1
  <2>2. right => ranges[n + 1].end \in 0..size
    BY <1>1
  <2> HIDE DEF left, right, n
  <2> QED BY <2>1, <2>2 DEF ByteRange
<1>10. m \in Seq(T) /\ Spliced(m, ranges, a, b, x)
  <2> HIDE DEF a, b, x, T, m, left, right, before, after, n
  <2>1. m = SubSeq(ranges, 1, a) \o <<x>> \o SubSeq(ranges, b, L)
    BY <1>5, <1>6, <1>7
  <2>2. LET s == SubSeq(ranges, 1, a) \o <<x>> \o SubSeq(ranges, b, Len(ranges)) IN
        s \in Seq(T) /\ Spliced(s, ranges, a, b, x)
    BY <1>1, <1>8, <1>9, SpliceFacts
  <2> QED BY <2>1, <2>2
<1> QED BY <1>2, <1>8, <1>9, <1>10

\* x takes the place of the ranges after a and before b: it is them and
\* start..end-1, and the others leave a gap to it.
Replaces(ranges, a, b, x, start, end) ==
    /\ a \in 0..Len(ranges) /\ b \in (a + 1)..(Len(ranges) + 1)
    /\ x.start < x.end
    /\ \A k \in 1..a : ranges[k].end < x.start
    /\ \A k \in b..Len(ranges) : x.end < ranges[k].start
    /\ \A p \in Int : x.start <= p /\ p < x.end <=>
           \/ start <= p /\ p < end
           \/ \E k \in (a + 1)..(b - 1) : ranges[k].start <= p /\ p < ranges[k].end

LEMMA MergedShape ==
    ASSUME NEW size \in Nat, NEW ranges, Canonical(ranges, size),
           NEW start \in 0..size, NEW end \in 0..size, start < end,
           ~Overlaps(ranges, start, end)
    PROVE  LET m == Merged(ranges, start, end) IN
           /\ m \in Seq(ByteRange(size))
           /\ \E a, b \in Int : \E x \in ByteRange(size) :
                  Replaces(ranges, a, b, x, start, end) /\ Spliced(m, ranges, a, b, x)
<1> DEFINE n == Insert(ranges, start)
           L == Len(ranges)
           left == n >= 1 /\ ranges[n].end = start
           right == n < L /\ ranges[n + 1].start = end
           a == IF left THEN n - 1 ELSE n
           b == IF right THEN n + 2 ELSE n + 1
           x == [start |-> IF left THEN ranges[n].start ELSE start,
                 end |-> IF right THEN ranges[n + 1].end ELSE end]
           m == Merged(ranges, start, end)
<1>0. start \in Nat
  OBVIOUS
<1>1. /\ n < L => end <= ranges[n + 1].start
      /\ a \in 0..L /\ b \in (a + 1)..(L + 1)
      /\ x \in ByteRange(size)
      /\ m \in Seq(ByteRange(size)) /\ Spliced(m, ranges, a, b, x)
  BY MergedFacts
<1>2. /\ n \in 0..L /\ L \in Nat
      /\ \A j \in 1..n : ranges[j].end <= start
      /\ \A j \in (n + 1)..L : start < ranges[j].end
  BY <1>0, InsertFacts, CanonicalFacts
<1>3. /\ \A k \in 1..L : /\ ranges[k].start \in 0..size /\ ranges[k].end \in 0..size
                         /\ ranges[k].start < ranges[k].end
      /\ \A j, k \in 1..L : j < k => ranges[j].end < ranges[k].start
  BY CanonicalFacts
<1>4. /\ x.start = (IF left THEN ranges[n].start ELSE start)
      /\ x.end = (IF right THEN ranges[n + 1].end ELSE end)
  OBVIOUS
<1> HIDE DEF n, x, m, L
<1>5. x.start < x.end /\ x.start \in Int /\ x.end \in Int
  BY <1>1, <1>2, <1>3, <1>4
<1>6. \A k \in 1..a : ranges[k].end < x.start
  BY <1>2, <1>3, <1>4
<1>7. \A k \in b..L : x.end < ranges[k].start
  <2> SUFFICES ASSUME NEW k \in b..L PROVE x.end < ranges[k].start
    OBVIOUS
  <2>1. CASE right
    <3>1. n + 1 \in 1..L /\ k \in 1..L /\ n + 1 < k /\ x.end = ranges[n + 1].end
      BY <2>1, <1>2, <1>4
    <3> QED BY <3>1, <1>3
  <2>2. CASE ~right
    <3>1. n < L /\ end < ranges[n + 1].start /\ n + 1 \in 1..L /\ k \in 1..L /\ x.end = end
      BY <2>2, <1>1, <1>2, <1>3, <1>4
    <3>2. CASE k = n + 1
      BY <3>1, <3>2
    <3>3. CASE k # n + 1
      <4>1. n + 1 < k
        BY <3>3, <2>2, <1>2
      <4>2. /\ ranges[n + 1].end < ranges[k].start /\ ranges[n + 1].start < ranges[n + 1].end
            /\ ranges[n + 1].start \in Int /\ ranges[n + 1].end \in Int /\ ranges[k].start \in Int
        BY <3>1, <4>1, <1>3
      <4> QED BY <3>1, <4>2
    <3> QED BY <3>2, <3>3
  <2> QED BY <2>1, <2>2
<1>8. ASSUME NEW p \in Int
      PROVE  x.start <= p /\ p < x.end <=>
                 \/ start <= p /\ p < end
                 \/ \E k \in (a + 1)..(b - 1) : ranges[k].start <= p /\ p < ranges[k].end
  <2>1. \A k \in (a + 1)..(b - 1) : (left /\ k = n) \/ (right /\ k = n + 1)
    BY <1>2
  <2>2. left => n \in (a + 1)..(b - 1) /\ n \in 1..L
    BY <1>2
  <2>3. right => n + 1 \in (a + 1)..(b - 1) /\ n + 1 \in 1..L
    BY <1>2
  <2>4. /\ left => ranges[n].start < start /\ ranges[n].end = start /\ ranges[n].start \in Int
        /\ right => end < ranges[n + 1].end /\ ranges[n + 1].start = end /\ ranges[n + 1].end \in Int
    BY <2>2, <2>3, <1>3
  <2>5. \/ left /\ ranges[n].start <= p /\ p < ranges[n].end
        \/ right /\ ranges[n + 1].start <= p /\ p < ranges[n + 1].end
        \/ start <= p /\ p < end
        <=> x.start <= p /\ p < x.end
    <3> HIDE DEF left, right
    <3> QED BY <2>4, <1>4
  <2> HIDE DEF left, right, a, b
  <2>6. (\E k \in (a + 1)..(b - 1) : ranges[k].start <= p /\ p < ranges[k].end) <=>
            \/ left /\ ranges[n].start <= p /\ p < ranges[n].end
            \/ right /\ ranges[n + 1].start <= p /\ p < ranges[n + 1].end
    BY <2>1, <2>2, <2>3
  <2> QED BY <2>5, <2>6
<1>9. Replaces(ranges, a, b, x, start, end)
  <2> HIDE DEF a, b
  <2> QED BY <1>1, <1>5, <1>6, <1>7, <1>8 DEF Replaces, L
<1>10. a \in Int /\ b \in Int
  BY <1>2
<1> HIDE DEF a, b
<1> QED BY <1>1, <1>9, <1>10 DEF m

\* The places of a list with x in it.
LEMMA SplicePlaces ==
    ASSUME NEW L \in Nat, NEW a \in 0..L, NEW b \in (a + 1)..(L + 1),
           NEW k \in 1..(L + a + 2 - b)
    PROVE  \/ k \in 1..a
           \/ k = a + 1
           \/ k > a + 1 /\ k - a - 2 + b \in b..L /\ (k - a - 2 + b) + a + 2 - b = k
OBVIOUS

\* Add leaves a list in order with a gap between neighbours.
THEOREM AddKeepsCanonical ==
    ASSUME NEW size \in Nat, NEW ranges, Canonical(ranges, size),
           NEW start \in 0..size, NEW end \in 0..size, start < end
    PROVE  Canonical(Added(ranges, start, end), size)
<1> DEFINE m == Merged(ranges, start, end)
           L == Len(ranges)
<1> SUFFICES ASSUME ~Overlaps(ranges, start, end) PROVE Canonical(m, size)
  BY DEF Added
<1>1. /\ L \in Nat
      /\ \A k \in 1..L : ranges[k].start < ranges[k].end
      /\ \A k \in 1..L : ranges[k].start \in Int /\ ranges[k].end \in Int
      /\ \A j, k \in 1..L : j < k => ranges[j].end < ranges[k].start
  BY CanonicalFacts
<1>2. m \in Seq(ByteRange(size))
  BY MergedShape
<1>3. PICK a \in Int, b \in Int, x \in ByteRange(size) :
          Replaces(ranges, a, b, x, start, end) /\ Spliced(m, ranges, a, b, x)
  BY MergedShape
<1> HIDE DEF m, L
<1>4. /\ a \in 0..L /\ b \in (a + 1)..(L + 1)
      /\ x.start < x.end
      /\ \A k \in 1..a : ranges[k].end < x.start
      /\ \A k \in b..L : x.end < ranges[k].start
      /\ Len(m) = L + a + 2 - b
      /\ \A k \in 1..a : m[k] = ranges[k]
      /\ m[a + 1] = x
      /\ \A k \in b..L : m[k + a + 2 - b] = ranges[k]
  BY <1>3 DEF Replaces, Spliced, L
<1>5. x.start \in Int /\ x.end \in Int
  BY DEF ByteRange
<1>6. ASSUME NEW k \in 1..Len(m)
      PROVE  \/ k \in 1..a /\ m[k] = ranges[k]
             \/ k = a + 1 /\ m[k] = x
             \/ k > a + 1 /\ k - a - 2 + b \in b..L /\ m[k] = ranges[k - a - 2 + b]
  <2>1. \/ k \in 1..a
        \/ k = a + 1
        \/ k > a + 1 /\ k - a - 2 + b \in b..L /\ (k - a - 2 + b) + a + 2 - b = k
    <3>1. L \in Nat /\ a \in 0..L /\ b \in (a + 1)..(L + 1) /\ k \in 1..(L + a + 2 - b)
      BY <1>1, <1>4
    <3> QED BY <3>1, SplicePlaces
  <2> QED BY <2>1, <1>4
<1>7. ASSUME NEW k \in 1..Len(m) PROVE m[k].start < m[k].end
  <2>1. 1..a \subseteq 1..L /\ b..L \subseteq 1..L
    BY <1>1, <1>4
  <2> QED BY <2>1, <1>1, <1>4, <1>6
<1>8. ASSUME NEW j \in 1..Len(m), NEW k \in 1..Len(m), j < k PROVE m[j].end < m[k].start
  <2> DEFINE j2 == j - a - 2 + b
             k2 == k - a - 2 + b
  <2>0. Len(m) \in Int
    BY <1>1, <1>4
  <2>1. CASE k \in 1..a
    <3>1. j \in 1..a /\ j \in 1..L /\ k \in 1..L
      BY <1>8, <2>1, <1>1, <1>4
    <3> QED BY <1>8, <3>1, <1>1, <1>4, <2>1
  <2>2. CASE k = a + 1 /\ m[k] = x
    <3>1. j \in 1..a
      BY <1>8, <2>2, <2>0, <1>4
    <3> QED BY <3>1, <2>2, <1>4
  <2>3. CASE k > a + 1 /\ k2 \in b..L /\ m[k] = ranges[k2]
    <3>0. k2 \in 1..L
      BY <2>3, <1>1, <1>4
    <3>1. CASE j \in 1..a /\ m[j] = ranges[j]
      <4>1. j \in 1..L /\ j < k2
        BY <1>8, <3>1, <2>3, <1>1, <1>4
      <4> QED BY <4>1, <3>0, <3>1, <2>3, <1>1
    <3>2. CASE j = a + 1 /\ m[j] = x
      BY <3>2, <2>3, <1>4
    <3>3. CASE j > a + 1 /\ j2 \in b..L /\ m[j] = ranges[j2]
      <4>1. j2 \in 1..L /\ j2 < k2
        BY <1>8, <3>3, <2>3, <1>1, <1>4
      <4> QED BY <4>1, <3>0, <3>3, <2>3, <1>1
    <3> QED BY <3>1, <3>2, <3>3, <1>6
  <2> QED BY <2>1, <2>2, <2>3, <1>6
<1>9. DOMAIN m = 1..Len(m)
  BY <1>2, LenProperties
<1> QED BY <1>2, <1>7, <1>8, <1>9 DEF Canonical

LEMMA CoveredFacts ==
    ASSUME NEW size \in Nat, NEW ranges, Canonical(ranges, size), NEW p
    PROVE  /\ p \in Covered(ranges) <=>
                  /\ p \in Int
                  /\ \E k \in 1..Len(ranges) : ranges[k].start <= p /\ p < ranges[k].end
           /\ p \in Covered(ranges) => p \in 0..(size - 1)
<1>1. /\ DOMAIN ranges = 1..Len(ranges)
      /\ \A k \in 1..Len(ranges) : ranges[k].start \in 0..size /\ ranges[k].end \in 0..size
  BY CanonicalFacts
<1>2. p \in Covered(ranges) <=> \E k \in 1..Len(ranges) : p \in ranges[k].start..(ranges[k].end - 1)
  BY <1>1 DEF Covered, Within
<1>3. \A k \in 1..Len(ranges) :
         /\ p \in ranges[k].start..(ranges[k].end - 1) <=>
                p \in Int /\ ranges[k].start <= p /\ p < ranges[k].end
         /\ p \in ranges[k].start..(ranges[k].end - 1) => p \in 0..(size - 1)
  BY <1>1
<1> QED BY <1>2, <1>3

\* Add refuses a range exactly when a byte of it was received before, and
\* otherwise adds its bytes and no others (byteRanges.Add, ranges.go): the list
\* implements the set of received positions.
THEOREM AddIsExact ==
    ASSUME NEW size \in Nat, NEW ranges, Canonical(ranges, size)
    PROVE  AddsExactly(ranges, size)
<1> SUFFICES ASSUME NEW start \in 0..size, NEW end \in 0..size, start < end
             PROVE  LET span == start..(end - 1) IN
                    /\ Overlaps(ranges, start, end) <=> span \cap Covered(ranges) # {}
                    /\ ~Overlaps(ranges, start, end) =>
                           Covered(Added(ranges, start, end)) = Covered(ranges) \cup span
  BY DEF AddsExactly
<1> DEFINE L == Len(ranges)
           span == start..(end - 1)
           n == Insert(ranges, start)
           m == Merged(ranges, start, end)
<1>1. /\ L \in Nat
      /\ \A k \in 1..L : ranges[k].start < ranges[k].end
      /\ \A k \in 1..L : ranges[k].start \in Int /\ ranges[k].end \in Int
      /\ \A j, k \in 1..L : j < k => ranges[j].end < ranges[k].start
  BY CanonicalFacts
<1>2. /\ n \in 0..L
      /\ \A j \in 1..n : ranges[j].end <= start
      /\ \A j \in (n + 1)..L : start < ranges[j].end
  <2>1. start \in Nat
    OBVIOUS
  <2> QED BY <2>1, InsertFacts
<1>3. Overlaps(ranges, start, end) <=> n < L /\ ranges[n + 1].start < end
  BY OverlapFacts
<1>4. \A p : p \in Covered(ranges) <=>
                 p \in Int /\ \E k \in 1..L : ranges[k].start <= p /\ p < ranges[k].end
  BY CoveredFacts
<1> HIDE DEF L, n
<1>5. Overlaps(ranges, start, end) => span \cap Covered(ranges) # {}
  <2> SUFFICES ASSUME n < L, ranges[n + 1].start < end PROVE \E p \in span : p \in Covered(ranges)
    BY <1>3
  <2>1. n + 1 \in 1..L /\ start < ranges[n + 1].end /\ ranges[n + 1].start < ranges[n + 1].end
        /\ ranges[n + 1].start \in Int /\ ranges[n + 1].end \in Int
    BY <1>1, <1>2
  <2>2. CASE start <= ranges[n + 1].start
    <3>1. ranges[n + 1].start \in span
      BY <2>1, <2>2
    <3> QED BY <3>1, <2>1, <1>4
  <2>3. CASE ranges[n + 1].start < start
    <3>1. start \in span /\ start \in Int
      OBVIOUS
    <3> QED BY <3>1, <2>1, <2>3, <1>4
  <2> QED BY <2>1, <2>2, <2>3
<1>6. span \cap Covered(ranges) # {} => Overlaps(ranges, start, end)
  <2> SUFFICES ASSUME NEW p \in span, p \in Covered(ranges) PROVE n < L /\ ranges[n + 1].start < end
    BY <1>3
  <2>1. PICK k \in 1..L : ranges[k].start <= p /\ p < ranges[k].end
    BY <1>4
  <2>2. k > n
    BY <2>1, <1>1, <1>2
  <2>3. n < L /\ n + 1 \in 1..L
    BY <2>2, <1>1, <1>2
  <2>4. ranges[n + 1].start <= ranges[k].start
    <3>1. CASE k = n + 1
      BY <3>1, <1>1
    <3>2. CASE k > n + 1
      BY <3>2, <2>3, <1>1
    <3> QED BY <3>1, <3>2, <2>2, <1>1, <1>2
  <2> QED BY <2>1, <2>3, <2>4, <1>1
<1>7. ASSUME ~Overlaps(ranges, start, end) PROVE Covered(Added(ranges, start, end)) = Covered(ranges) \cup span
  <2>1. Added(ranges, start, end) = m /\ Canonical(m, size)
    <3>1. Canonical(Added(ranges, start, end), size)
      BY AddKeepsCanonical
    <3> QED BY <3>1, <1>7 DEF Added
  <2>2. PICK a \in Int, b \in Int, x \in ByteRange(size) :
            Replaces(ranges, a, b, x, start, end) /\ Spliced(m, ranges, a, b, x)
    BY <1>7, MergedShape
  <2> HIDE DEF m
  <2>3. \A p : p \in Covered(m) <=>
                   p \in Int /\ \E k \in 1..Len(m) : m[k].start <= p /\ p < m[k].end
    BY <2>1, CoveredFacts
  <2>4. /\ a \in 0..L /\ b \in (a + 1)..(L + 1)
        /\ \A p \in Int : x.start <= p /\ p < x.end <=>
               \/ start <= p /\ p < end
               \/ \E k \in (a + 1)..(b - 1) : ranges[k].start <= p /\ p < ranges[k].end
        /\ Len(m) = L + a + 2 - b
        /\ \A k \in 1..a : m[k] = ranges[k]
        /\ m[a + 1] = x
        /\ \A k \in b..L : m[k + a + 2 - b] = ranges[k]
    BY <2>2 DEF Replaces, Spliced, L
  <2>5. ASSUME NEW p \in Covered(m) PROVE p \in Covered(ranges) \/ p \in span
    <3>1. PICK k \in 1..Len(m) : m[k].start <= p /\ p < m[k].end
      BY <2>3
    <3>2. p \in Int
      BY <2>3
    <3>3. \/ k \in 1..a
          \/ k = a + 1
          \/ k > a + 1 /\ k - a - 2 + b \in b..L /\ (k - a - 2 + b) + a + 2 - b = k
      <4>1. L \in Nat /\ a \in 0..L /\ b \in (a + 1)..(L + 1) /\ k \in 1..(L + a + 2 - b)
        BY <1>1, <2>4
      <4> QED BY <4>1, SplicePlaces
    <3>4. CASE k \in 1..a
      <4>1. k \in 1..L
        BY <3>4, <2>4, <1>1
      <4> QED BY <4>1, <3>1, <3>2, <3>4, <2>4, <1>4
    <3>5. CASE k = a + 1
      <4>1. \/ start <= p /\ p < end
            \/ \E i \in (a + 1)..(b - 1) : ranges[i].start <= p /\ p < ranges[i].end
        BY <3>1, <3>2, <3>5, <2>4
      <4>2. (a + 1)..(b - 1) \subseteq 1..L
        BY <2>4, <1>1
      <4>3. start <= p /\ p < end => p \in span
        BY <3>2
      <4> HIDE DEF span
      <4> QED BY <4>1, <4>2, <4>3, <3>2, <1>4
    <3>6. CASE k > a + 1 /\ k - a - 2 + b \in b..L /\ (k - a - 2 + b) + a + 2 - b = k
      <4>1. m[k] = ranges[k - a - 2 + b] /\ k - a - 2 + b \in 1..L
        BY <3>6, <2>4, <1>1
      <4> QED BY <4>1, <3>1, <3>2, <1>4
    <3> QED BY <3>3, <3>4, <3>5, <3>6
  <2>6. ASSUME NEW p \in Int, x.start <= p, p < x.end PROVE p \in Covered(m)
    <3>1. a + 1 \in 1..Len(m)
      BY <2>4, <1>1
    <3> QED BY <3>1, <2>3, <2>4, <2>6
  <2>7. ASSUME NEW p \in Covered(ranges) PROVE p \in Covered(m)
    <3>1. PICK k \in 1..L : ranges[k].start <= p /\ p < ranges[k].end
      BY <1>4
    <3>2. p \in Int
      BY <1>4
    <3>3. CASE k \in 1..a
      <4>1. k \in 1..Len(m)
        BY <3>3, <2>4, <1>1
      <4> QED BY <4>1, <3>1, <3>2, <3>3, <2>3, <2>4
    <3>4. CASE k \in (a + 1)..(b - 1)
      BY <3>1, <3>2, <3>4, <2>4, <2>6
    <3>5. CASE k \in b..L
      <4>1. k + a + 2 - b \in 1..Len(m)
        BY <3>5, <2>4, <1>1
      <4> QED BY <4>1, <3>1, <3>2, <3>5, <2>3, <2>4
    <3> QED BY <3>3, <3>4, <3>5, <2>4, <1>1
  <2>8. ASSUME NEW p \in span PROVE p \in Covered(m)
    <3>1. p \in Int /\ start <= p /\ p < end
      OBVIOUS
    <3> QED BY <3>1, <2>4, <2>6
  <2> HIDE DEF span
  <2> QED BY <2>1, <2>5, <2>7, <2>8
<1> QED BY <1>5, <1>6, <1>7

\* Prefix is the number of bytes received without a gap from the beginning
\* (byteRanges.Prefix).
THEOREM PrefixOfCanonical ==
    ASSUME NEW size \in Nat, NEW ranges, Canonical(ranges, size)
    PROVE  PrefixIsContiguous(ranges) /\ Prefix(ranges) \in 0..size
<1> DEFINE L == Len(ranges)
           c == Prefix(ranges)
<1>1. /\ L \in Nat
      /\ \A k \in 1..L : ranges[k].start < ranges[k].end
      /\ \A k \in 1..L : ranges[k].start \in 0..size /\ ranges[k].end \in 0..size
      /\ \A j, k \in 1..L : j < k => ranges[j].end < ranges[k].start
  BY CanonicalFacts
<1>2. \A p : p \in Covered(ranges) <=>
                 p \in Int /\ \E k \in 1..L : ranges[k].start <= p /\ p < ranges[k].end
  BY CoveredFacts
<1>3. ranges = << >> <=> L = 0
  <2>1. ranges \in Seq(ByteRange(size))
    BY DEF Canonical
  <2> QED BY <2>1, EmptySeq
<1> HIDE DEF L
<1>4. CASE L = 0 \/ ranges[1].start # 0
  <2>1. c = 0
    BY <1>3, <1>4 DEF Prefix
  <2>2. ASSUME NEW k \in 1..L PROVE ~(ranges[k].start <= 0)
    <3>1. 1 \in 1..L /\ ranges[1].start > 0
      BY <1>1, <1>4
    <3>2. CASE k = 1
      BY <3>1, <3>2, <1>1
    <3>3. CASE k # 1
      <4>1. 1 < k
        BY <3>3
      <4> QED BY <4>1, <3>1, <1>1
    <3> QED BY <3>2, <3>3
  <2>3. 0 \notin Covered(ranges)
    BY <2>2, <1>2
  <2>4. 0..(0 - 1) = {}
    OBVIOUS
  <2> QED BY <2>1, <2>3, <2>4 DEF PrefixIsContiguous
<1>5. CASE L # 0 /\ ranges[1].start = 0
  <2>0. 1 \in 1..L /\ ranges[1].end \in 0..size
    BY <1>1, <1>5
  <2>1. c = ranges[1].end
    BY <1>3, <1>5 DEF Prefix
  <2>2. ASSUME NEW p \in 0..(ranges[1].end - 1) PROVE p \in Covered(ranges)
    <3>1. p \in Int /\ ranges[1].start <= p /\ p < ranges[1].end
      BY <2>0, <1>5
    <3> QED BY <3>1, <2>0, <1>2
  <2>3. ASSUME NEW k \in 1..L PROVE ~(ranges[k].start <= ranges[1].end /\ ranges[1].end < ranges[k].end)
    <3>1. CASE k = 1
      BY <3>1, <2>0
    <3>2. CASE k # 1
      <4>1. 1 < k
        BY <3>2
      <4> QED BY <4>1, <2>0, <1>1
    <3> QED BY <3>1, <3>2
  <2>4. ranges[1].end \notin Covered(ranges)
    BY <2>3, <1>2
  <2> QED BY <2>0, <2>1, <2>2, <2>4 DEF PrefixIsContiguous
<1> QED BY <1>4, <1>5

\* A new list is canonical and holds the resumed prefix (newByteRanges).
LEMMA StartingFacts ==
    ASSUME NEW size \in Nat, NEW prefix \in 0..size
    PROVE  /\ Canonical(Starting(prefix), size)
           /\ \A p : p \in Covered(Starting(prefix)) <=> p \in 0..(prefix - 1)
<1> DEFINE s == Starting(prefix)
<1>1. Canonical(s, size)
  <2>1. CASE prefix > 0
    <3>1. s = <<[start |-> 0, end |-> prefix]>> /\ [start |-> 0, end |-> prefix] \in ByteRange(size)
      BY <2>1 DEF Starting, ByteRange
    <3> QED BY <3>1, <2>1 DEF Canonical
  <2>2. CASE prefix = 0
    <3>1. s = << >>
      BY <2>2 DEF Starting
    <3> QED BY <3>1 DEF Canonical
  <2> QED BY <2>1, <2>2
<1>2. ASSUME NEW p PROVE p \in Covered(s) <=> p \in 0..(prefix - 1)
  <2>1. p \in Covered(s) <=> p \in Int /\ \E k \in 1..Len(s) : s[k].start <= p /\ p < s[k].end
    <3> HIDE DEF s
    <3> QED BY <1>1, CoveredFacts
  <2>2. CASE prefix > 0
    <3>1. Len(s) = 1 /\ s[1].start = 0 /\ s[1].end = prefix
      BY <2>2 DEF Starting
    <3>2. p \in Covered(s) <=> p \in Int /\ 0 <= p /\ p < prefix
      <4> HIDE DEF s
      <4> QED BY <2>1, <3>1
    <3> QED BY <3>2
  <2>3. CASE prefix = 0
    <3>1. Len(s) = 0
      BY <2>3 DEF Starting
    <3>2. p \notin Covered(s)
      <4> HIDE DEF s
      <4> QED BY <2>1, <3>1
    <3> QED BY <3>2, <2>3
  <2> QED BY <2>2, <2>3
<1> QED BY <1>1, <1>2

(***************************************************************************)
(* The scheduler by itself, for any number of streams, weights and quantum. *)
(***************************************************************************)

USE SchedulerConstants DEF Stream

\* The product of a quantum and a weight is a positive number.
LEMMA ShareIsPositive == \A i \in Stream : Quantum * Weight[i] \in Nat \ {0}
<1> TAKE i \in Stream
<1>1. Weight[i] \in Nat \ {0} OBVIOUS
<1>2. \A q, w \in Nat \ {0} : q * w \in Nat \ {0} OBVIOUS
<1> QED BY <1>1, <1>2

\* Whatever a visit finds, the stream then has a share of its own.
LEMMA RefillShares ==
    ASSUME NEW i \in Stream, deficit[i] \in 0..(Quantum * Weight[i])
    PROVE  Refill(i) \in 1..(Quantum * Weight[i])
BY ShareIsPositive DEF Refill

\* Without streams there is no turn.
NoStreams == Streams = 0 => count = 0

IInv == TypeOK /\ DeficitBounded /\ NoStreams

LEMMA Initial == Init => IInv
BY ShareIsPositive DEF Init, IInv, TypeOK, DeficitBounded, NoStreams

LEMMA Step == IInv /\ [Next]_vars => IInv'
<1> SUFFICES ASSUME IInv, [Next]_vars PROVE IInv'
  OBVIOUS
<1> USE ShareIsPositive DEF IInv
<1>1. CASE Skip
  <2>1. Streams \in Nat \ {0} /\ cursor \in Nat
    BY <1>1 DEF Skip, TypeOK, NoStreams
  <2>2. cursor' \in Stream
    BY <1>1, <2>1 DEF Skip, Advance
  <2> QED BY <1>1, <2>2 DEF Skip, TypeOK, DeficitBounded, NoStreams
<1>2. CASE Turn
  <2>1. cursor \in Stream /\ deficit[cursor] \in 0..(Quantum * Weight[cursor])
    BY <1>2 DEF Turn, TypeOK, DeficitBounded, NoStreams
  <2>2. Refill(cursor) \in 1..(Quantum * Weight[cursor])
    BY <2>1, RefillShares
  <2>3. budget' \in 1..Refill(cursor)
    BY <1>2, <2>2 DEF Turn, Least
  <2>4. TypeOK'
    BY <1>2, <2>1, <2>2, <2>3 DEF Turn, TypeOK
  <2>5. DeficitBounded'
    <3>1. deficit'[cursor] = Refill(cursor) /\ current' = cursor
      BY <1>2, <2>1 DEF Turn, TypeOK
    <3>2. \A i \in Stream : deficit'[i] \in 0..(Quantum * Weight[i])
      <4> TAKE i \in Stream
      <4>1. CASE i = cursor
        BY <4>1, <3>1, <2>2
      <4>2. CASE i # cursor
        BY <4>2, <1>2 DEF Turn, TypeOK, DeficitBounded
      <4> QED BY <4>1, <4>2
    <3> QED BY <3>1, <3>2, <2>3 DEF DeficitBounded
  <2> QED BY <1>2, <2>4, <2>5 DEF Turn, NoStreams
<1>3. ASSUME NEW used \in 0..Quantum, NEW done \in BOOLEAN, Commit(used, done)
      PROVE  IInv'
  <2>1. current \in Stream /\ budget \in 1..deficit[current] /\ used \in 0..budget
    BY <1>3 DEF Commit, TypeOK, DeficitBounded
  <2>2. deficit[current] \in 0..(Quantum * Weight[current])
    BY <2>1 DEF DeficitBounded
  <2>3. Charged(current, used, done) \in 0..(Quantum * Weight[current])
    BY <2>1, <2>2 DEF Charged
  <2>4. cursor' \in Stream \cup {0}
    BY <1>3, <2>1 DEF Commit, Advance, TypeOK
  <2>5. TypeOK'
    <3>1. deficit' \in [Stream -> Int] /\ active' \in [Stream -> BOOLEAN]
      BY <1>3, <2>1, <2>3 DEF Commit, TypeOK
    <3>2. remaining' \in [Stream -> Int]
      BY <1>3, <2>1 DEF Commit, TypeOK
    <3>3. waited' \in [Stream -> Int]
      BY <1>3, <2>1 DEF Commit, TypeOK
    <3>4. count' \in Int /\ current' = Streams /\ budget' = 0
      BY <1>3 DEF Commit, RemainingActive, TypeOK
    <3> QED BY <3>1, <3>2, <3>3, <3>4, <2>4 DEF TypeOK
  <2>6. DeficitBounded'
    BY <1>3, <2>1, <2>3 DEF Commit, TypeOK, DeficitBounded
  <2> QED BY <2>1, <2>5, <2>6 DEF NoStreams
<1>4. CASE UNCHANGED vars
  BY <1>4 DEF vars, TypeOK, DeficitBounded, NoStreams
<1> QED BY <1>1, <1>2, <1>3, <1>4 DEF Next

\* The scheduler's deficits stay within one visit's share, for any weights.
THEOREM DeficitsBounded == Spec => [](TypeOK /\ DeficitBounded)
BY Initial, Step, PTL DEF Spec, IInv

HIDE SchedulerConstants DEF Stream

(***************************************************************************)
(* The sender.  A chunk that was taken and not sent has one place: place 0  *)
(* of a worker is the job it works on, place k is the k-th in its queue.    *)
(***************************************************************************)

Stages == {"idle", "received", "sending"}

SenderTypes ==
    /\ jobs \in [Workers -> Seq(Nat)]
    /\ held \in [Workers -> [chunk : Nat, stage : Stages]]
    /\ taken \in Nat /\ firstErr \in BOOLEAN

At(w, k) == IF k = 0 THEN held[w].chunk ELSE jobs[w][k]

InPlace(w, k) == k \in 0..Len(jobs[w]) /\ (k = 0 => held[w].stage # "idle")

\* The chunks the pipes have taken; a bag with each of them once.
Sent == DOMAIN sent

Once(S) == [c \in S |-> 1]

\* What is in a place was taken and is not sent yet.
PlacedInv ==
    \A w \in Workers : \A k \in Nat : InPlace(w, k) => At(w, k) \in (1..taken) \ Sent

\* No chunk has two places.
OnceInv ==
    \A w, v \in Workers : \A j, k \in Nat :
        InPlace(w, j) /\ InPlace(v, k) /\ At(w, j) = At(v, k) => w = v /\ j = k

\* Without an error, every chunk taken is sent or has a place.
KeptInv ==
    ~firstErr => \A c \in 1..taken : c \in Sent \/ \E w \in Workers : \E k \in Nat : InPlace(w, k) /\ At(w, k) = c

\* What the reader has checked or waited for stays true.
ReaderInv ==
    /\ reader \in {"trying", "wait"} => taken < Chunks
    /\ reader \in {"success", "failure"} => \A w \in Workers : \A k \in Nat : ~InPlace(w, k)
    /\ reader = "success" => ~firstErr

\* No chunk was sent twice.
SentTaken == Sent \subseteq 1..taken /\ sent = Once(Sent)

SInv == SenderTypes /\ SentTaken /\ PlacedInv /\ OnceInv /\ KeptInv /\ ReaderInv

LEMMA IdleFacts == P!Idle.stage = "idle" /\ P!Idle \in [chunk : Nat, stage : Stages] /\ P!Idle.chunk = 0
BY DEF P!Idle, Stages

\* A chunk that was not sent is sent for the first time.
LEMMA SentAdded ==
    ASSUME sent = Once(Sent), NEW c, c \notin Sent, sent' = P!BagAdd(sent, c)
    PROVE  Sent' = Sent \cup {c} /\ sent' = Once(Sent')
<1>1. /\ sent' = [e \in Sent \cup {c} |-> IF e = c THEN 1 ELSE sent[e]]
      /\ \A e \in Sent : sent[e] = 1
  BY DEF P!BagAdd, Once, Sent
<1>2. Sent' = Sent \cup {c}
  BY <1>1 DEF Sent
<1>3. sent' = [e \in Sent \cup {c} |-> 1]
  BY <1>1
<1> QED BY <1>2, <1>3 DEF Once

LEMMA NothingSent == sent = << >> => Sent = {} /\ sent = Once(Sent)
BY DEF Once, Sent

LEMMA SenderInit == P!Init => SInv
<1> SUFFICES ASSUME P!Init PROVE SInv
  OBVIOUS
<1>1. \A w \in Workers : jobs[w] = << >> /\ held[w] = P!Idle
  BY DEF P!Init
<1>2. \A w \in Workers : \A k \in Nat : ~InPlace(w, k)
  <2> SUFFICES ASSUME NEW w \in Workers, NEW k \in Nat, InPlace(w, k) PROVE FALSE
    OBVIOUS
  <2>1. Len(jobs[w]) = 0 /\ held[w].stage = "idle"
    BY <1>1, IdleFacts
  <2> QED BY <2>1 DEF InPlace
<1>3. SenderTypes
  <2>1. jobs \in [Workers -> Seq(Nat)]
    BY DEF P!Init
  <2>2. held \in [Workers -> [chunk : Nat, stage : Stages]]
    BY IdleFacts DEF P!Init
  <2> QED BY <2>1, <2>2 DEF P!Init, SenderTypes
<1>4. SentTaken
  BY NothingSent DEF P!Init, SentTaken
<1> QED BY <1>2, <1>3, <1>4 DEF P!Init, SInv, PlacedInv, OnceInv, KeptInv, ReaderInv

\* Nothing moves.
LEMMA PlacesKept ==
    ASSUME UNCHANGED <<jobs, held>>, NEW w, NEW k
    PROVE  (InPlace(w, k)' <=> InPlace(w, k)) /\ At(w, k)' = At(w, k)
BY DEF InPlace, At

\* The steps that leave the places, the chunks and the error alone.
LEMMA QuietStep ==
    ASSUME SInv, UNCHANGED <<jobs, held, sent, firstErr, taken>>,
           reader' \in {"trying", "wait"} => taken < Chunks,
           reader' \in {"success", "failure"} => \A w \in Workers : \A k \in Nat : ~InPlace(w, k),
           reader' = "success" => ~firstErr
    PROVE  SInv'
<1>1. \A w, k : (InPlace(w, k)' <=> InPlace(w, k)) /\ At(w, k)' = At(w, k)
  BY PlacesKept
<1>2. SenderTypes' /\ SentTaken' /\ Sent' = Sent
  BY DEF SInv, SenderTypes, SentTaken, Sent, Once
<1>3. PlacedInv'
  BY <1>1, <1>2 DEF SInv, PlacedInv
<1>4. OnceInv'
  BY <1>1 DEF SInv, OnceInv
<1>5. KeptInv'
  BY <1>1, <1>2 DEF SInv, KeptInv
<1>6. ReaderInv'
  BY <1>1 DEF ReaderInv
<1> QED BY <1>2, <1>3, <1>4, <1>5, <1>6 DEF SInv

\* A job is put at the end of a queue.
LEMMA QueueStep ==
    ASSUME SInv, NEW w \in Workers, P!Queue(w)
    PROVE  SInv'
<1> DEFINE n == Len(jobs[w])
<1>1. /\ jobs \in [Workers -> Seq(Nat)] /\ jobs' = [jobs EXCEPT ![w] = Append(jobs[w], taken + 1)]
      /\ taken' = taken + 1 /\ reader' = "between" /\ reader = "trying"
      /\ UNCHANGED <<held, sent, firstErr>> /\ Sent' = Sent
      /\ taken \in Nat
  BY DEF P!Queue, P!workerVars, SInv, SenderTypes, Sent
<1>2. /\ n \in Nat /\ jobs'[w] = Append(jobs[w], taken + 1) /\ jobs'[w] \in Seq(Nat)
      /\ Len(jobs'[w]) = n + 1 /\ jobs'[w][n + 1] = taken + 1
      /\ \A k \in 1..n : jobs'[w][k] = jobs[w][k]
  BY <1>1
<1>3. \A v \in Workers : v # w => jobs'[v] = jobs[v]
  BY <1>1
<1>4. jobs' \in [Workers -> Seq(Nat)]
  BY <1>1, <1>2, <1>3
<1>5. ASSUME NEW v \in Workers, NEW k \in Nat
      PROVE  /\ InPlace(v, k)' <=> InPlace(v, k) \/ (v = w /\ k = n + 1)
             /\ InPlace(v, k) => At(v, k)' = At(v, k)
             /\ (v = w /\ k = n + 1) => At(v, k)' = taken + 1
  <2>1. CASE v = w
    BY <2>1, <1>1, <1>2 DEF InPlace, At
  <2>2. CASE v # w
    BY <2>2, <1>1, <1>3 DEF InPlace, At
  <2> QED BY <2>1, <2>2
<1> HIDE DEF n
<1>6. \A v \in Workers : \A k \in Nat : InPlace(v, k) => At(v, k) \in 1..taken /\ At(v, k) \notin Sent
  BY DEF SInv, PlacedInv
<1>7. taken + 1 \notin Sent /\ 1..taken \subseteq 1..(taken + 1) /\ taken + 1 \in 1..(taken + 1)
      /\ taken + 1 \notin 1..taken
  BY <1>1 DEF SInv, SentTaken
<1>8. SenderTypes' /\ SentTaken'
  BY <1>1, <1>4, <1>7 DEF SInv, SenderTypes, SentTaken, Once
<1>9. PlacedInv'
  BY <1>1, <1>5, <1>6, <1>7 DEF PlacedInv
<1>10. OnceInv'
  <2> SUFFICES ASSUME NEW u \in Workers, NEW v \in Workers, NEW j \in Nat, NEW k \in Nat,
                      InPlace(u, j)', InPlace(v, k)', At(u, j)' = At(v, k)'
               PROVE  u = v /\ j = k
    BY DEF OnceInv
  <2>1. CASE InPlace(u, j) /\ InPlace(v, k)
    BY <2>1, <1>5 DEF SInv, OnceInv
  <2>2. CASE InPlace(u, j) /\ ~InPlace(v, k)
    BY <2>2, <1>5, <1>6, <1>7
  <2>3. CASE ~InPlace(u, j) /\ InPlace(v, k)
    BY <2>3, <1>5, <1>6, <1>7
  <2>4. CASE ~InPlace(u, j) /\ ~InPlace(v, k)
    BY <2>4, <1>5
  <2> QED BY <2>1, <2>2, <2>3, <2>4
<1>11. KeptInv'
  <2> SUFFICES ASSUME ~firstErr, NEW c \in 1..(taken + 1), c \notin Sent
               PROVE  \E v \in Workers : \E k \in Nat : InPlace(v, k)' /\ At(v, k)' = c
    BY <1>1 DEF KeptInv
  <2>1. CASE c \in 1..taken
    <3>1. PICK v \in Workers, k \in Nat : InPlace(v, k) /\ At(v, k) = c
      BY <2>1 DEF SInv, KeptInv
    <3> QED BY <3>1, <1>5
  <2>2. CASE c = taken + 1
    <3>1. PICK k \in Nat : k = n + 1
      BY <1>2 DEF n
    <3> QED BY <3>1, <2>2, <1>5
  <2> QED BY <2>1, <2>2, <1>1
<1>12. ReaderInv'
  BY <1>1 DEF ReaderInv
<1> QED BY <1>8, <1>9, <1>10, <1>11, <1>12 DEF SInv

\* A worker takes the first job of its queue: each place moves up.
LEMMA ReceiveStep ==
    ASSUME SInv, NEW w \in Workers, P!Receive(w)
    PROVE  SInv'
<1> DEFINE n == Len(jobs[w])
<1>1. /\ jobs \in [Workers -> Seq(Nat)] /\ jobs' = [jobs EXCEPT ![w] = Tail(jobs[w])]
      /\ held \in [Workers -> [chunk : Nat, stage : Stages]]
      /\ held' = [held EXCEPT ![w] = [chunk |-> Head(jobs[w]), stage |-> "received"]]
      /\ held[w].stage = "idle" /\ jobs[w] # << >>
      /\ UNCHANGED <<sent, firstErr, taken, reader>> /\ Sent' = Sent
  BY DEF P!Receive, P!readerVars, SInv, SenderTypes, Sent
<1>2. /\ jobs[w] \in Seq(Nat) /\ n \in Nat \ {0} /\ Head(jobs[w]) = jobs[w][1] /\ jobs[w][1] \in Nat
      /\ jobs'[w] = Tail(jobs[w]) /\ jobs'[w] \in Seq(Nat)
      /\ Len(jobs'[w]) = n - 1
      /\ \A k \in 1..(n - 1) : jobs'[w][k] = jobs[w][k + 1]
  BY <1>1
<1>3. /\ \A v \in Workers : v # w => jobs'[v] = jobs[v] /\ held'[v] = held[v]
      /\ held'[w].chunk = jobs[w][1] /\ held'[w].stage = "received"
      /\ held'[w] \in [chunk : Nat, stage : Stages]
  BY <1>1, <1>2 DEF Stages
<1>4. /\ jobs' \in [Workers -> Seq(Nat)]
      /\ held' \in [Workers -> [chunk : Nat, stage : Stages]]
  <2>1. jobs' \in [Workers -> Seq(Nat)]
    BY <1>1, <1>2, <1>3
  <2>2. held' \in [Workers -> [chunk : Nat, stage : Stages]]
    BY <1>1, <1>3
  <2> QED BY <2>1, <2>2
<1>5. ASSUME NEW v \in Workers, NEW k \in Nat, v # w
      PROVE  (InPlace(v, k)' <=> InPlace(v, k)) /\ At(v, k)' = At(v, k)
  BY <1>5, <1>3 DEF InPlace, At
<1>6. ASSUME NEW k \in Nat
      PROVE  (InPlace(w, k)' <=> InPlace(w, k + 1)) /\ (InPlace(w, k)' => At(w, k)' = At(w, k + 1))
  <2>1. InPlace(w, k)' <=> k \in 0..(n - 1)
    BY <1>2, <1>3 DEF InPlace
  <2>2. InPlace(w, k + 1) <=> k + 1 \in 0..n
    BY DEF InPlace
  <2>3. k \in 0..(n - 1) <=> k + 1 \in 0..n
    BY <1>2
  <2>4. At(w, k + 1) = jobs[w][k + 1]
    BY DEF At
  <2>5. ASSUME k \in 0..(n - 1) PROVE At(w, k)' = jobs[w][k + 1]
    <3>1. CASE k = 0
      BY <3>1, <1>3 DEF At
    <3>2. CASE k # 0
      BY <3>2, <2>5, <1>2 DEF At
    <3> QED BY <3>1, <3>2
  <2> QED BY <2>1, <2>2, <2>3, <2>4, <2>5
<1>7. ASSUME NEW k \in Nat, InPlace(w, k) PROVE k - 1 \in Nat /\ (k - 1) + 1 = k
  BY <1>1, <1>7 DEF InPlace
<1>8. SenderTypes' /\ SentTaken'
  BY <1>1, <1>4 DEF SInv, SenderTypes, SentTaken, Once
<1>9. PlacedInv'
  <2> SUFFICES ASSUME NEW v \in Workers, NEW k \in Nat, InPlace(v, k)'
               PROVE  At(v, k)' \in (1..taken) \ Sent
    BY <1>1 DEF PlacedInv
  <2>1. CASE v = w
    <3>1. k + 1 \in Nat
      OBVIOUS
    <3> QED BY <3>1, <2>1, <1>6 DEF SInv, PlacedInv
  <2>2. CASE v # w
    BY <2>2, <1>5 DEF SInv, PlacedInv
  <2> QED BY <2>1, <2>2
<1>10. OnceInv'
  <2> SUFFICES ASSUME NEW u \in Workers, NEW v \in Workers, NEW j \in Nat, NEW k \in Nat,
                      InPlace(u, j)', InPlace(v, k)', At(u, j)' = At(v, k)'
               PROVE  u = v /\ j = k
    BY DEF OnceInv
  <2>0. j + 1 \in Nat /\ k + 1 \in Nat /\ (j + 1 = k + 1 => j = k)
    OBVIOUS
  <2>1. \A a, b \in Workers : \A x, y \in Nat :
            InPlace(a, x) /\ InPlace(b, y) /\ At(a, x) = At(b, y) => a = b /\ x = y
    BY DEF SInv, OnceInv
  <2>2. PICK x \in Nat : InPlace(u, x) /\ At(u, j)' = At(u, x) /\ x = (IF u = w THEN j + 1 ELSE j)
    BY <2>0, <1>5, <1>6
  <2>3. PICK y \in Nat : InPlace(v, y) /\ At(v, k)' = At(v, y) /\ y = (IF v = w THEN k + 1 ELSE k)
    BY <2>0, <1>5, <1>6
  <2>4. u = v /\ x = y
    BY <2>1, <2>2, <2>3
  <2> QED BY <2>0, <2>2, <2>3, <2>4
<1>11. KeptInv'
  <2> SUFFICES ASSUME ~firstErr, NEW c \in 1..taken, c \notin Sent
               PROVE  \E v \in Workers : \E k \in Nat : InPlace(v, k)' /\ At(v, k)' = c
    BY <1>1 DEF KeptInv
  <2>1. PICK v \in Workers, k \in Nat : InPlace(v, k) /\ At(v, k) = c
    BY DEF SInv, KeptInv
  <2>2. CASE v = w
    <3>1. PICK j \in Nat : j + 1 = k
      BY <2>1, <2>2, <1>7
    <3> QED BY <3>1, <2>1, <2>2, <1>6
  <2>3. CASE v # w
    BY <2>1, <2>3, <1>5
  <2> QED BY <2>2, <2>3
<1>12. ReaderInv'
  <2>1. InPlace(w, 1)
    BY <1>2 DEF InPlace
  <2>2. reader \notin {"success", "failure"}
    BY <2>1 DEF SInv, ReaderInv
  <2> QED BY <2>2, <1>1 DEF SInv, ReaderInv
<1> QED BY <1>8, <1>9, <1>10, <1>11, <1>12 DEF SInv

\* The steps of a worker with its job: it signals, or the job leaves its place.
LEMMA HeldStep ==
    ASSUME SInv, NEW w \in Workers,
           UNCHANGED <<jobs, taken, reader>>, held[w].stage # "idle",
           held' \in [Workers -> [chunk : Nat, stage : Stages]],
           \A v \in Workers : v # w => held'[v] = held[v],
           firstErr' \in BOOLEAN, sent' = Once(Sent)',
           \/ /\ held'[w].stage # "idle" /\ held'[w].chunk = held[w].chunk
              /\ Sent' = Sent /\ UNCHANGED firstErr
           \/ /\ held'[w].stage = "idle"
              /\ \/ Sent' = Sent \cup {held[w].chunk} /\ UNCHANGED firstErr
                 \/ Sent' = Sent /\ firstErr'
    PROVE  SInv'
<1> DEFINE c0 == held[w].chunk
<1>1. InPlace(w, 0) /\ At(w, 0) = c0
  <2>1. Len(jobs[w]) \in Nat
    BY DEF SInv, SenderTypes
  <2> QED BY <2>1 DEF InPlace, At
<1>2. c0 \in 1..taken /\ c0 \notin Sent
  BY <1>1 DEF SInv, PlacedInv
<1>3. ASSUME NEW v \in Workers, NEW k \in Nat
      PROVE  /\ InPlace(v, k)' => InPlace(v, k) /\ At(v, k)' = At(v, k)
             /\ InPlace(v, k) /\ ~(v = w /\ k = 0) => InPlace(v, k)' /\ At(v, k)' = At(v, k)
             /\ InPlace(w, 0)' <=> held'[w].stage # "idle"
  <2>1. Len(jobs[w]) \in Nat
    BY DEF SInv, SenderTypes
  <2>2. InPlace(w, 0)' <=> held'[w].stage # "idle"
    BY <2>1 DEF InPlace
  <2>3. CASE v = w
    BY <2>1, <2>3, <1>1 DEF InPlace, At
  <2>4. CASE v # w
    BY <2>4 DEF InPlace, At
  <2> QED BY <2>2, <2>3, <2>4
<1>4. SenderTypes' /\ SentTaken'
  BY <1>2 DEF SInv, SenderTypes, SentTaken
<1> HIDE DEF c0
<1>5. PlacedInv'
  <2> SUFFICES ASSUME NEW v \in Workers, NEW k \in Nat, InPlace(v, k)'
               PROVE  At(v, k)' \in (1..taken) /\ At(v, k)' \notin Sent'
    BY DEF PlacedInv
  <2>1. InPlace(v, k) /\ At(v, k)' = At(v, k)
    BY <1>3
  <2>2. At(v, k) \in (1..taken) \ Sent
    BY <2>1 DEF SInv, PlacedInv
  <2>3. CASE Sent' = Sent
    BY <2>1, <2>2, <2>3
  <2>4. CASE held'[w].stage = "idle" /\ Sent' = Sent \cup {c0}
    <3>1. ~(v = w /\ k = 0)
      BY <2>4, <1>3
    <3>2. At(v, k) # c0
      BY <3>1, <2>1, <1>1 DEF SInv, OnceInv
    <3> QED BY <3>2, <2>1, <2>2, <2>4
  <2> QED BY <2>3, <2>4 DEF c0
<1>6. OnceInv'
  BY <1>3 DEF SInv, OnceInv
<1>7. KeptInv'
  <2> SUFFICES ASSUME ~firstErr', NEW c \in 1..taken, c \notin Sent'
               PROVE  \E v \in Workers : \E k \in Nat : InPlace(v, k)' /\ At(v, k)' = c
    BY DEF KeptInv
  <2>1. ~firstErr /\ c \notin Sent /\ (held'[w].stage = "idle" => c # c0)
    BY DEF c0
  <2>2. PICK v \in Workers, k \in Nat : InPlace(v, k) /\ At(v, k) = c
    BY <2>1 DEF SInv, KeptInv
  <2>3. v = w /\ k = 0 => held'[w].stage # "idle"
    BY <2>1, <2>2, <1>1
  <2>4. InPlace(v, k)'
    BY <2>2, <2>3, <1>3
  <2> QED BY <2>2, <2>4, <1>3
<1>8. ReaderInv'
  BY <1>1 DEF SInv, ReaderInv
<1> QED BY <1>4, <1>5, <1>6, <1>7, <1>8 DEF SInv

\* Workers that are done have nothing in their places.
LEMMA DoneIsEmpty ==
    ASSUME SInv, P!WorkersDone, NEW w \in Workers, NEW k \in Nat
    PROVE  ~InPlace(w, k)
<1>1. jobs[w] = << >> /\ held[w] = P!Idle
  BY DEF P!WorkersDone
<1>2. Len(jobs[w]) = 0 /\ held[w].stage = "idle"
  BY <1>1, IdleFacts
<1> QED BY <1>2 DEF InPlace

\* The job of a worker is in place 0, and the sender is still open.
LEMMA HoldingIsOpen ==
    ASSUME SInv, NEW w \in Workers, held[w].stage # "idle"
    PROVE  InPlace(w, 0) /\ At(w, 0) = held[w].chunk /\ reader \notin {"success", "failure"}
<1>1. Len(jobs[w]) \in Nat
  BY DEF SInv, SenderTypes
<1>2. InPlace(w, 0) /\ At(w, 0) = held[w].chunk
  BY <1>1 DEF InPlace, At
<1> QED BY <1>2 DEF SInv, ReaderInv

\* The steps that neither queue a chunk nor touch a worker's job, and what they
\* do to the reader.
SenderQuiet ==
    \/ P!SendChunk \/ P!ReadFails \/ (\E w \in Workers : P!QueueFull(w))
    \/ P!WakeUp \/ P!WaitCancelled \/ P!Finish \/ P!Cancel \/ UNCHANGED P!vars

LEMMA QuietFacts ==
    ASSUME SenderQuiet
    PROVE  /\ UNCHANGED <<jobs, held, sent, firstErr, taken>>
           /\ \/ reader' = reader
              \/ /\ reader \in {"between", "trying", "wait", "abort"}
                 /\ reader' \notin {"success", "failure"}
                 /\ reader' \in {"trying", "wait"} => taken < Chunks \/ reader \in {"trying", "wait"}
<1> DEFINE Quieted ==
        /\ UNCHANGED <<jobs, held, sent, firstErr, taken>>
        /\ \/ reader' = reader
           \/ /\ reader \in {"between", "trying", "wait", "abort"}
              /\ reader' \notin {"success", "failure"}
              /\ reader' \in {"trying", "wait"} => taken < Chunks \/ reader \in {"trying", "wait"}
<1>1. CASE P!SendChunk
  BY <1>1 DEF P!SendChunk, P!workerVars
<1>2. CASE P!ReadFails
  BY <1>2 DEF P!ReadFails, P!workerVars
<1>3. ASSUME NEW w \in Workers, P!QueueFull(w) PROVE Quieted
  BY <1>3 DEF P!QueueFull, P!workerVars
<1>4. CASE P!WakeUp
  BY <1>4 DEF P!WakeUp, P!workerVars
<1>5. CASE P!WaitCancelled
  BY <1>5 DEF P!WaitCancelled, P!workerVars
<1>6. CASE P!Finish
  BY <1>6 DEF P!Finish, P!workerVars
<1>7. CASE P!Cancel
  BY <1>7 DEF P!Cancel, P!workerVars, P!readerVars
<1>8. CASE UNCHANGED P!vars
  BY <1>8 DEF P!vars
<1> QED BY <1>1, <1>2, <1>3, <1>4, <1>5, <1>6, <1>7, <1>8 DEF SenderQuiet

LEMMA JoinFacts ==
    ASSUME P!Join
    PROVE  /\ UNCHANGED <<jobs, held, sent, firstErr, taken>>
           /\ reader \in {"close", "abort"} /\ P!WorkersDone
           /\ reader' = IF reader = "abort" \/ firstErr THEN "failure" ELSE "success"
BY DEF P!Join, P!workerVars

LEMMA SenderStep == SInv /\ [P!Next]_(P!vars) => SInv'
<1> SUFFICES ASSUME SInv, [P!Next]_(P!vars) PROVE SInv'
  OBVIOUS
<1>1. CASE SenderQuiet
  <2>1. /\ UNCHANGED <<jobs, held, sent, firstErr, taken>>
        /\ \/ reader' = reader
           \/ /\ reader' \notin {"success", "failure"}
              /\ reader' \in {"trying", "wait"} => taken < Chunks \/ reader \in {"trying", "wait"}
    BY <1>1, QuietFacts
  <2>2. reader' \in {"trying", "wait"} => taken < Chunks
    BY <2>1 DEF SInv, ReaderInv
  <2>3. reader' \in {"success", "failure"} => \A w \in Workers : \A k \in Nat : ~InPlace(w, k)
    BY <2>1 DEF SInv, ReaderInv
  <2>4. reader' = "success" => ~firstErr
    BY <2>1 DEF SInv, ReaderInv
  <2> QED BY <2>1, <2>2, <2>3, <2>4, QuietStep
<1>2. CASE P!Join
  <2>1. /\ UNCHANGED <<jobs, held, sent, firstErr, taken>>
        /\ reader' \notin {"trying", "wait"} /\ (reader' = "success" => ~firstErr)
    BY <1>2, JoinFacts
  <2>2. \A w \in Workers : \A k \in Nat : ~InPlace(w, k)
    BY <1>2, JoinFacts, DoneIsEmpty
  <2> QED BY <2>1, <2>2, QuietStep
<1>3. ASSUME NEW w \in Workers, P!Queue(w) PROVE SInv'
  BY <1>3, QueueStep
<1>4. ASSUME NEW w \in Workers, P!Receive(w) PROVE SInv'
  BY <1>4, ReceiveStep
<1>q. sent' = sent => Sent' = Sent /\ sent' = Once(Sent)'
  BY DEF SInv, SentTaken, Sent, Once
<1>5. ASSUME NEW w \in Workers, P!Signal(w) PROVE SInv'
  <2>1. /\ UNCHANGED <<jobs, taken, reader, sent, firstErr>> /\ held[w].stage = "received"
        /\ held' = [held EXCEPT ![w].stage = "sending"]
        /\ held \in [Workers -> [chunk : Nat, stage : Stages]] /\ firstErr \in BOOLEAN
    BY <1>5 DEF P!Signal, P!readerVars, SInv, SenderTypes
  <2>2. /\ held' \in [Workers -> [chunk : Nat, stage : Stages]]
        /\ held'[w].stage = "sending" /\ held'[w].chunk = held[w].chunk
        /\ \A v \in Workers : v # w => held'[v] = held[v]
    BY <2>1 DEF Stages
  <2> QED BY <1>q, <2>1, <2>2, HeldStep
<1>6. ASSUME NEW w \in Workers, P!SendMessage(w) PROVE SInv'
  <2>1. /\ UNCHANGED <<jobs, taken, reader, firstErr>> /\ held[w].stage = "sending"
        /\ held' = [held EXCEPT ![w] = P!Idle] /\ sent' = P!BagAdd(sent, held[w].chunk)
        /\ held \in [Workers -> [chunk : Nat, stage : Stages]] /\ firstErr \in BOOLEAN
    BY <1>6 DEF P!SendMessage, P!readerVars, SInv, SenderTypes
  <2>2. /\ held' \in [Workers -> [chunk : Nat, stage : Stages]] /\ held'[w].stage = "idle"
        /\ \A v \in Workers : v # w => held'[v] = held[v]
    BY <2>1, IdleFacts
  <2>3. held[w].chunk \notin Sent /\ sent = Once(Sent)
    BY <2>1, HoldingIsOpen DEF SInv, PlacedInv, SentTaken
  <2>4. Sent' = Sent \cup {held[w].chunk} /\ sent' = Once(Sent)'
    BY <2>1, <2>3, SentAdded
  <2> QED BY <2>1, <2>2, <2>4, HeldStep
<1>7. ASSUME NEW w \in Workers, P!SendFails(w) PROVE SInv'
  <2>1. /\ UNCHANGED <<jobs, taken, reader, sent>> /\ held[w].stage = "sending" /\ firstErr' = TRUE
        /\ held' = [held EXCEPT ![w] = P!Idle]
        /\ held \in [Workers -> [chunk : Nat, stage : Stages]]
    BY <1>7 DEF P!SendFails, P!readerVars, SInv, SenderTypes
  <2>2. /\ held' \in [Workers -> [chunk : Nat, stage : Stages]] /\ held'[w].stage = "idle"
        /\ \A v \in Workers : v # w => held'[v] = held[v]
    BY <2>1, IdleFacts
  <2> QED BY <1>q, <2>1, <2>2, HeldStep
<1> QED
  BY <1>1, <1>2, <1>3, <1>4, <1>5, <1>6, <1>7 DEF SenderQuiet, P!Next, P!Reader, P!Worker

\* Each step of the sender is a step of ChunkDelivery or changes nothing of it.
LEMMA SenderRefines == SInv /\ [P!Next]_(P!vars) => [P!Abstract!Next]_(P!Abstract!vars)
<1> SUFFICES ASSUME SInv, [P!Next]_(P!vars) PROVE [P!Abstract!Next]_(P!Abstract!vars)
  OBVIOUS
<1>1. CASE SenderQuiet
  <2>1. /\ UNCHANGED <<sent, taken>>
        /\ \/ reader' = reader
           \/ /\ reader \in {"between", "trying", "wait", "abort"}
              /\ reader' \notin {"success", "failure"}
    BY <1>1, QuietFacts
  <2>2. UNCHANGED P!Outcome
    BY <2>1 DEF P!Outcome
  <2> QED BY <2>1, <2>2 DEF P!Abstract!vars
<1>2. CASE P!Join
  <2>1. /\ UNCHANGED <<sent, firstErr, taken>> /\ P!Outcome = "open"
        /\ \/ P!Outcome' = "failure"
           \/ P!Outcome' = "success" /\ ~firstErr
    BY <1>2, JoinFacts DEF P!Outcome
  <2>2. \A w \in Workers : \A k \in Nat : ~InPlace(w, k)
    BY <1>2, JoinFacts, DoneIsEmpty
  <2>3. ~firstErr => Sent = 1..taken
    BY <2>2 DEF SInv, KeptInv, SentTaken
  <2>4. ~firstErr => sent = Once(1..taken)
    BY <2>3 DEF SInv, SentTaken
  <2> QED BY <2>1, <2>4 DEF P!Abstract!Next, P!Abstract!Succeed, P!Abstract!Fail, Once
<1>3. ASSUME NEW w \in Workers, P!Queue(w) PROVE P!Abstract!Next
  <2>1. /\ reader = "trying" /\ reader' = "between" /\ taken' = taken + 1 /\ UNCHANGED sent
        /\ taken < Chunks
    BY <1>3 DEF P!Queue, P!workerVars, SInv, ReaderInv
  <2>2. P!Outcome = "open" /\ P!Outcome' = "open"
    BY <2>1 DEF P!Outcome
  <2> QED BY <2>1, <2>2 DEF P!Abstract!Next, P!Abstract!Take
<1>4. ASSUME NEW w \in Workers, P!SendMessage(w) PROVE P!Abstract!Next
  <2>1. /\ UNCHANGED <<taken, reader>> /\ held[w].stage # "idle"
        /\ sent' = P!BagAdd(sent, held[w].chunk)
    BY <1>4 DEF P!SendMessage, P!readerVars
  <2>2. /\ reader \notin {"success", "failure"} /\ held[w].chunk \in (1..taken) \ Sent
    BY <2>1, HoldingIsOpen DEF SInv, PlacedInv
  <2>3. P!Outcome = "open" /\ P!Outcome' = "open"
    BY <2>1, <2>2 DEF P!Outcome
  <2>4. /\ held[w].chunk \notin DOMAIN sent
        /\ sent' = P!Abstract!BagAdd(sent, held[w].chunk)
    BY <2>1, <2>2 DEF P!BagAdd, P!Abstract!BagAdd, Sent
  <2> QED BY <2>1, <2>2, <2>3, <2>4 DEF P!Abstract!Next, P!Abstract!Deliver
<1>5. ASSUME NEW w \in Workers, P!Receive(w) \/ P!Signal(w) \/ P!SendFails(w)
      PROVE  UNCHANGED P!Abstract!vars
  BY <1>5 DEF P!Receive, P!Signal, P!SendFails, P!readerVars, P!Outcome, P!Abstract!vars
<1> QED
  BY <1>1, <1>2, <1>3, <1>4, <1>5 DEF SenderQuiet, P!Next, P!Reader, P!Worker

(***************************************************************************)
(* The composition.                                                         *)
(***************************************************************************)

ChunkRecord == [stream : Stream, start : Nat, end : Nat]

\* The open turn is that of an unfinished stream.
TurnInv == current # Streams => active[current] /\ budget <= Quantum

CountInv ==
    /\ count = Cardinality({i \in Stream : active[i]})
    /\ reader \in {"close", "success"} => count = 0

\* A chunk that is being queued goes on where its stream is.
OpenChunk ==
    /\ current \in Stream /\ chunk.stream = current /\ chunk.start = offset[current]
    /\ chunk.end \in Nat /\ chunk.start < chunk.end /\ chunk.done \in BOOLEAN

ChunkTypes ==
    /\ offset \in [Stream -> Nat] /\ refused \in BOOLEAN
    /\ chunks \in Seq(ChunkRecord) /\ Len(chunks) = taken
    /\ DOMAIN got = Stream
    /\ reader \in {"trying", "wait"} => OpenChunk

\* The chunks of a stream lie between its resumed prefix and its offset.
ChunkInv ==
    /\ \A i \in Stream : Resumed[i] <= offset[i]
    /\ \A k \in 1..taken : /\ Resumed[chunks[k].stream] <= chunks[k].start
                           /\ chunks[k].start < chunks[k].end
                           /\ chunks[k].end <= offset[chunks[k].stream]

\* Every byte read is in a chunk.
ReadInv ==
    \A i \in Stream : \A p \in Nat : Resumed[i] <= p /\ p < offset[i] =>
        \E k \in 1..taken : chunks[k].stream = i /\ chunks[k].start <= p /\ p < chunks[k].end

\* The receiver has the resumed bytes, and nothing that was not read.
GotInv ==
    \A i \in Stream : /\ Canonical(got[i], ItemSize(i))
                      /\ \A p \in Covered(got[i]) : p < offset[i]
                      /\ \A p \in Nat : p < Resumed[i] => p \in Covered(got[i])

\* The receiver has every byte of the chunks that were sent.
SentInv ==
    ~refused => \A k \in Sent : \A p \in Nat :
        chunks[k].start <= p /\ p < chunks[k].end => p \in Covered(got[chunks[k].stream])

DInv == ChunkTypes /\ ChunkInv /\ ReadInv /\ GotInv /\ SentInv

PInv == IInv /\ SInv /\ TurnInv /\ CountInv /\ DInv

LEMMA SizeFacts ==
    ASSUME NEW i \in Stream
    PROVE  Resumed[i] \in Nat /\ ItemSize(i) \in Nat /\ Resumed[i] \in 0..ItemSize(i)
<1>1. Resumed[i] \in Nat /\ Length[i] \in Nat
  BY SendPathConstants, SchedulerConstants DEF Stream
<1> QED BY <1>1 DEF ItemSize

\* The sender's steps in the composition are those of ParallelSender.
LEMMA PathIsSender == [PathNext]_pathVars => [P!Next]_(P!vars)
<1> SUFFICES ASSUME [PathNext]_pathVars PROVE [P!Next]_(P!vars)
  OBVIOUS
<1>1. UNCHANGED senderVars => UNCHANGED P!vars
  BY DEF senderVars, P!vars
<1>2. CASE NextTurn \/ ReadEnd
  BY <1>1, <1>2 DEF NextTurn, ReadEnd
<1>3. CASE ReadFails \/ WaitForRoom \/ Finish \/ Join
  BY <1>3 DEF ReadFails, WaitForRoom, Finish, Join, P!Next, P!Reader
<1>4. ASSUME NEW used \in 1..Quantum, NEW done \in BOOLEAN, ReadChunk(used, done) PROVE P!Next
  BY <1>4 DEF ReadChunk, P!Next, P!Reader
<1>5. ASSUME NEW w \in Workers, Queue(w) PROVE P!Next
  BY <1>5 DEF Queue, P!Next, P!Reader
<1>6. ASSUME NEW w \in Workers, Worker(w) PROVE P!Next
  BY <1>6 DEF Worker, TakeJob, Deliver, SendFails, P!Next, P!Worker
<1>7. CASE Cancel
  BY <1>7 DEF Cancel, P!Next
<1>8. CASE UNCHANGED pathVars
  BY <1>1, <1>8 DEF pathVars
<1> QED BY <1>2, <1>3, <1>4, <1>5, <1>6, <1>7, <1>8 DEF PathNext, Reader

\* Its turns are those of Scheduler.
LEMMA PathIsScheduler ==
    ASSUME IInv, TurnInv, ChunkTypes, [PathNext]_pathVars
    PROVE  [Next]_vars
<1>1. ASSUME NEW used, NEW done \in BOOLEAN, Commit(used, done) PROVE Next
  <2>1. current # Streams /\ used \in 0..budget /\ budget \in Int /\ budget <= Quantum
    BY <1>1 DEF Commit, IInv, TypeOK, TurnInv
  <2>2. used \in 0..Quantum
    BY <2>1, SchedulerConstants
  <2> QED BY <1>1, <2>2 DEF Next
<1>2. CASE NextTurn
  BY <1>2 DEF NextTurn, Next
<1>3. CASE ReadEnd
  BY <1>1, <1>3 DEF ReadEnd
<1>4. ASSUME NEW w \in Workers, Queue(w) PROVE Next
  <2>1. chunk.done \in BOOLEAN
    BY <1>4 DEF Queue, P!Queue, ChunkTypes, OpenChunk
  <2> QED BY <2>1, <1>1, <1>4 DEF Queue
<1>5. CASE ReadFails \/ WaitForRoom \/ Finish \/ Join \/ Cancel
  BY <1>5 DEF ReadFails, WaitForRoom, Finish, Join, Cancel, schedulerVars
<1>6. ASSUME NEW used \in 1..Quantum, NEW done \in BOOLEAN, ReadChunk(used, done) PROVE UNCHANGED vars
  BY <1>6 DEF ReadChunk, schedulerVars
<1>7. ASSUME NEW w \in Workers, Worker(w) PROVE UNCHANGED vars
  BY <1>7 DEF Worker, TakeJob, Deliver, SendFails, schedulerVars
<1>8. CASE UNCHANGED pathVars
  BY <1>8 DEF pathVars, schedulerVars
<1> QED BY <1>2, <1>3, <1>4, <1>5, <1>6, <1>7, <1>8 DEF PathNext, Reader

\* What a turn that is opened, committed or left alone does to the streams.
LEMMA TurnsCount ==
    ASSUME IInv, TurnInv, count = Cardinality({i \in Stream : active[i]}), [Next]_vars
    PROVE  TurnInv' /\ count' = Cardinality({i \in Stream : active'[i]})
<1> DEFINE S == {i \in Stream : active[i]}
<1>1. CASE Skip \/ UNCHANGED vars
  BY <1>1 DEF Skip, vars, TurnInv
<1>2. CASE Turn
  <2>1. current' = cursor /\ active[cursor] /\ UNCHANGED <<active, count>>
    BY <1>2 DEF Turn
  <2>2. PICK maxBytes \in 1..Quantum : budget' = Least(maxBytes, Refill(cursor))
    BY <1>2 DEF Turn
  <2>3. cursor \in Stream /\ deficit[cursor] \in 0..(Quantum * Weight[cursor])
    BY <1>2 DEF Turn, IInv, TypeOK, DeficitBounded, NoStreams, Stream
  <2>4. Refill(cursor) \in 1..(Quantum * Weight[cursor])
    BY <2>3, RefillShares
  <2>5. Refill(cursor) \in Int /\ Quantum \in Nat
    BY <2>3, <2>4, ShareIsPositive, SchedulerConstants
  <2>6. budget' <= Quantum
    BY <2>2, <2>5 DEF Least
  <2> QED BY <2>1, <2>6 DEF TurnInv
<1>3. ASSUME NEW used \in 0..Quantum, NEW done \in BOOLEAN, Commit(used, done)
      PROVE  TurnInv' /\ count' = Cardinality({i \in Stream : active'[i]})
  <2>1. /\ current \in Stream /\ active[current] /\ active \in [Stream -> BOOLEAN]
        /\ current' = Streams /\ active' = [active EXCEPT ![current] = ~done]
        /\ count' = IF done THEN count - 1 ELSE count
    <3>1. current \in 0..Streams /\ current # Streams /\ active \in [Stream -> BOOLEAN]
      BY <1>3 DEF Commit, IInv, TypeOK
    <3>2. current \in Stream /\ active[current]
      BY <3>1, SchedulerConstants DEF Stream, TurnInv
    <3>3. /\ current' = Streams /\ active' = [active EXCEPT ![current] = ~done]
          /\ count' = RemainingActive(done)
      BY <1>3 DEF Commit
    <3> QED BY <3>1, <3>2, <3>3 DEF RemainingActive
  <2>2. IsFiniteSet(S)
    <3>1. IsFiniteSet(Stream)
      BY SchedulerConstants, FS_Interval DEF Stream
    <3> QED BY <3>1, FS_Subset
  <2>3. TurnInv'
    BY <2>1, SchedulerConstants DEF TurnInv
  <2>4. CASE done
    <3>1. {i \in Stream : active'[i]} = S \ {current} /\ current \in S
      BY <2>1, <2>4
    <3>2. Cardinality(S \ {current}) = Cardinality(S) - 1
      BY <3>1, <2>2, FS_RemoveElement
    <3> QED BY <3>1, <3>2, <2>1, <2>3, <2>4
  <2>5. CASE ~done
    <3>1. {i \in Stream : active'[i]} = S
      BY <2>1, <2>5
    <3> QED BY <3>1, <2>1, <2>3, <2>5
  <2> QED BY <2>4, <2>5
<1> QED BY <1>1, <1>2, <1>3 DEF Next

LEMMA ChunkFacts ==
    ASSUME ChunkTypes, NEW k \in 1..taken
    PROVE  chunks[k].stream \in Stream /\ chunks[k].start \in Nat /\ chunks[k].end \in Nat
<1>1. chunks[k] \in ChunkRecord
  BY LenProperties DEF ChunkTypes
<1> QED BY <1>1 DEF ChunkRecord

LEMMA PathInitial == PathInit => PInv
<1> SUFFICES ASSUME PathInit PROVE PInv
  OBVIOUS
<1>1. IInv /\ SInv
  BY Initial, SenderInit DEF PathInit
<1>2. TurnInv
  BY DEF PathInit, Init, TurnInv
<1>3. CountInv
  <2>1. count = Streams /\ active = [i \in Stream |-> TRUE] /\ reader = "between"
    BY DEF PathInit, Init, P!Init
  <2>2. {i \in Stream : active[i]} = 0..(Streams - 1)
    BY <2>1 DEF Stream
  <2>3. Cardinality(0..(Streams - 1)) = Streams
    BY SchedulerConstants, FS_Interval
  <2> QED BY <2>1, <2>2, <2>3 DEF CountInv
<1>4. /\ offset = Resumed /\ chunks = << >> /\ taken = 0 /\ Sent = {} /\ reader = "between"
      /\ got = [i \in Stream |-> Starting(Resumed[i])] /\ refused = FALSE
  BY NothingSent DEF PathInit, P!Init
<1>5. ChunkTypes
  <2>1. offset \in [Stream -> Nat]
    BY <1>4, SendPathConstants DEF Stream
  <2>2. chunks \in Seq(ChunkRecord) /\ Len(chunks) = taken
    BY <1>4
  <2>3. DOMAIN got = Stream /\ refused \in BOOLEAN /\ reader \notin {"trying", "wait"}
    BY <1>4
  <2> QED BY <2>1, <2>2, <2>3 DEF ChunkTypes
<1>6. ChunkInv
  BY <1>4, SizeFacts DEF ChunkInv
<1>7. ReadInv
  BY <1>4, SizeFacts DEF ReadInv
<1>8. GotInv
  <2> SUFFICES ASSUME NEW i \in Stream
               PROVE  /\ Canonical(got[i], ItemSize(i))
                      /\ \A p \in Covered(got[i]) : p < offset[i]
                      /\ \A p \in Nat : p < Resumed[i] => p \in Covered(got[i])
    BY DEF GotInv
  <2>1. got[i] = Starting(Resumed[i]) /\ offset[i] = Resumed[i]
    BY <1>4
  <2>2. Resumed[i] \in Nat /\ ItemSize(i) \in Nat /\ Resumed[i] \in 0..ItemSize(i)
    BY SizeFacts
  <2>3. /\ Canonical(Starting(Resumed[i]), ItemSize(i))
        /\ \A p : p \in Covered(Starting(Resumed[i])) <=> p \in 0..(Resumed[i] - 1)
    BY <2>2, StartingFacts
  <2> QED BY <2>1, <2>2, <2>3
<1>9. SentInv
  BY <1>4 DEF SentInv
<1> QED BY <1>1, <1>2, <1>3, <1>5, <1>6, <1>7, <1>8, <1>9 DEF PInv, DInv

\* The steps that neither queue nor deliver a chunk.
LEMMA DataKept ==
    ASSUME DInv, UNCHANGED <<offset, chunks, got, refused, taken, sent>>,
           reader' \in {"trying", "wait"} => OpenChunk'
    PROVE  DInv'
<1>1. ChunkTypes'
  BY DEF DInv, ChunkTypes
<1>2. ChunkInv'
  BY DEF DInv, ChunkInv
<1>3. ReadInv'
  BY DEF DInv, ReadInv
<1>4. GotInv'
  BY DEF DInv, GotInv, ItemSize, Canonical
<1>5. SentInv'
  BY DEF DInv, SentInv, Sent
<1> QED BY <1>1, <1>2, <1>3, <1>4, <1>5 DEF DInv

LEMMA DataQueued ==
    ASSUME PInv, NEW w \in Workers, Queue(w)
    PROVE  DInv'
<1> DEFINE i0 == chunk.stream
           c0 == [stream |-> chunk.stream, start |-> chunk.start, end |-> chunk.end]
<1>1. /\ chunks' = Append(chunks, c0) /\ offset' = [offset EXCEPT ![i0] = chunk.end]
      /\ taken' = taken + 1 /\ reader = "trying" /\ reader' = "between"
      /\ UNCHANGED <<got, refused, sent>> /\ Sent' = Sent
  BY DEF Queue, P!Queue, P!workerVars, Sent
<1>2. ChunkTypes /\ ChunkInv /\ ReadInv /\ GotInv /\ SentInv /\ taken \in Nat /\ Sent \subseteq 1..taken
  BY DEF PInv, DInv, SInv, SenderTypes, SentTaken
<1>3. /\ i0 \in Stream /\ chunk.start = offset[i0] /\ chunk.end \in Nat /\ chunk.start < chunk.end
      /\ chunk.start \in Nat
  BY <1>1, <1>2 DEF ChunkTypes, OpenChunk
<1>4. /\ offset \in [Stream -> Nat] /\ chunks \in Seq(ChunkRecord) /\ Len(chunks) = taken
  BY <1>2 DEF ChunkTypes
<1>5. c0 \in ChunkRecord /\ c0.stream = i0 /\ c0.start = chunk.start /\ c0.end = chunk.end
  BY <1>3 DEF ChunkRecord
<1> HIDE DEF c0, i0
<1>6. /\ chunks' \in Seq(ChunkRecord) /\ Len(chunks') = taken + 1 /\ chunks'[taken + 1] = c0
      /\ \A k \in 1..taken : chunks'[k] = chunks[k]
  BY <1>1, <1>4, <1>5, AppendProperties
<1>7. /\ offset' \in [Stream -> Nat] /\ offset'[i0] = chunk.end
      /\ \A i \in Stream : i # i0 => offset'[i] = offset[i]
      /\ \A i \in Stream : offset[i] <= offset'[i] /\ offset[i] \in Nat /\ offset'[i] \in Nat
  BY <1>1, <1>3, <1>4
<1>8. \A k \in 1..(taken + 1) : k \in 1..taken \/ k = taken + 1
  BY <1>2
<1>9. ChunkTypes'
  BY <1>1, <1>2, <1>6, <1>7 DEF ChunkTypes
<1>10. ChunkInv'
  <2>1. ASSUME NEW i \in Stream PROVE Resumed[i] <= offset'[i]
    BY <1>2, <1>7, SizeFacts DEF ChunkInv
  <2>2. ASSUME NEW k \in 1..(taken + 1)
        PROVE  /\ Resumed[chunks'[k].stream] <= chunks'[k].start
               /\ chunks'[k].start < chunks'[k].end
               /\ chunks'[k].end <= offset'[chunks'[k].stream]
    <3>1. CASE k \in 1..taken
      <4>1. /\ chunks[k].stream \in Stream /\ chunks[k].end \in Nat /\ chunks'[k] = chunks[k]
        BY <3>1, <1>2, <1>6, ChunkFacts
      <4>2. /\ Resumed[chunks[k].stream] <= chunks[k].start
            /\ chunks[k].start < chunks[k].end
            /\ chunks[k].end <= offset[chunks[k].stream]
        BY <3>1, <1>2 DEF ChunkInv
      <4>3. offset[chunks[k].stream] <= offset'[chunks[k].stream]
            /\ offset[chunks[k].stream] \in Nat /\ offset'[chunks[k].stream] \in Nat
        BY <4>1, <1>7
      <4> QED BY <4>1, <4>2, <4>3
    <3>2. CASE k = taken + 1
      <4>1. chunks'[k].stream = i0 /\ chunks'[k].start = offset[i0] /\ chunks'[k].end = chunk.end
        BY <3>2, <1>3, <1>5, <1>6
      <4>2. Resumed[i0] <= offset[i0]
        BY <1>2, <1>3 DEF ChunkInv
      <4> QED BY <4>1, <4>2, <1>3, <1>7
    <3> QED BY <3>1, <3>2, <1>8
  <2> QED BY <2>1, <2>2, <1>1 DEF ChunkInv
<1>11. ReadInv'
  <2> SUFFICES ASSUME NEW i \in Stream, NEW p \in Nat, Resumed[i] <= p, p < offset'[i]
               PROVE  \E k \in 1..(taken + 1) :
                          chunks'[k].stream = i /\ chunks'[k].start <= p /\ p < chunks'[k].end
    BY <1>1 DEF ReadInv
  <2>1. CASE p < offset[i]
    <3>1. PICK k \in 1..taken : chunks[k].stream = i /\ chunks[k].start <= p /\ p < chunks[k].end
      BY <2>1, <1>2 DEF ReadInv
    <3>2. k \in 1..(taken + 1) /\ chunks'[k] = chunks[k]
      BY <1>2, <1>6
    <3> QED BY <3>1, <3>2
  <2>2. CASE ~(p < offset[i])
    <3>1. i = i0 /\ offset[i] <= p
      BY <2>2, <1>7
    <3>2. taken + 1 \in 1..(taken + 1)
      BY <1>2
    <3>3. chunks'[taken + 1].stream = i0 /\ chunks'[taken + 1].start = offset[i0] /\ chunks'[taken + 1].end = offset'[i0]
      BY <1>3, <1>5, <1>6, <1>7
    <3> QED BY <3>1, <3>2, <3>3
  <2> QED BY <2>1, <2>2
<1>12. GotInv'
  <2> SUFFICES ASSUME NEW i \in Stream
               PROVE  /\ Canonical(got[i], ItemSize(i))
                      /\ \A p \in Covered(got[i]) : p < offset'[i]
                      /\ \A p \in Nat : p < Resumed[i] => p \in Covered(got[i])
    BY <1>1 DEF GotInv, ItemSize
  <2>1. /\ Canonical(got[i], ItemSize(i))
        /\ \A p \in Covered(got[i]) : p < offset[i]
        /\ \A p \in Nat : p < Resumed[i] => p \in Covered(got[i])
    BY <1>2 DEF GotInv
  <2>2. \A p \in Covered(got[i]) : p \in Int
    BY <2>1, SizeFacts, CoveredFacts
  <2>3. offset[i] <= offset'[i] /\ offset[i] \in Nat /\ offset'[i] \in Nat
    BY <1>7
  <2> QED BY <2>1, <2>2, <2>3
<1>13. SentInv'
  <2>1. \A k \in Sent : chunks'[k] = chunks[k]
    BY <1>2, <1>6
  <2> QED BY <2>1, <1>1, <1>2 DEF SentInv
<1> QED BY <1>9, <1>10, <1>11, <1>12, <1>13 DEF DInv

LEMMA DataDelivered ==
    ASSUME PInv, NEW w \in Workers, Deliver(w)
    PROVE  DInv'
<1> DEFINE k0 == held[w].chunk
           r == chunks[k0]
           i0 == r.stream
<1>1. /\ sent' = P!BagAdd(sent, k0) /\ ~refused
      /\ IF Fits(i0, r)
         THEN got' = [got EXCEPT ![i0] = Added(got[i0], r.start, r.end)] /\ UNCHANGED refused
         ELSE refused' = TRUE /\ UNCHANGED got
      /\ UNCHANGED <<offset, chunk, chunks, taken, reader, current>>
      /\ held[w].stage # "idle"
  BY DEF Deliver, P!SendMessage, P!readerVars, schedulerVars, vars
<1>2. ChunkTypes /\ ChunkInv /\ ReadInv /\ GotInv /\ SentInv
  BY DEF PInv, DInv
<1>3. k0 \in 1..taken
  BY <1>1, HoldingIsOpen DEF PInv, SInv, PlacedInv
<1>s. Sent' = Sent \cup {k0}
  BY <1>1, HoldingIsOpen, SentAdded DEF PInv, SInv, PlacedInv, SentTaken
<1>4. i0 \in Stream /\ r.start \in Nat /\ r.end \in Nat
  BY <1>2, <1>3, ChunkFacts
<1>5. r.start < r.end /\ r.end <= offset[i0]
  BY <1>2, <1>3 DEF ChunkInv
<1>6. offset[i0] \in Nat /\ DOMAIN got = Stream
  BY <1>2, <1>4 DEF ChunkTypes
<1> HIDE DEF k0, r, i0
<1>7. ChunkInv' /\ ReadInv'
  BY <1>1, <1>2 DEF ChunkInv, ReadInv
<1>8. ASSUME ~Fits(i0, r) PROVE DInv'
  <2>1. refused' = TRUE /\ UNCHANGED got
    BY <1>1, <1>8
  <2>2. ChunkTypes'
    BY <1>1, <1>2, <2>1 DEF ChunkTypes, OpenChunk
  <2>3. GotInv'
    BY <1>1, <1>2, <2>1 DEF GotInv, ItemSize, Canonical
  <2>4. SentInv'
    BY <2>1 DEF SentInv
  <2> QED BY <1>7, <2>2, <2>3, <2>4 DEF DInv
<1>9. ASSUME Fits(i0, r) PROVE DInv'
  <2>1. /\ got' = [got EXCEPT ![i0] = Added(got[i0], r.start, r.end)] /\ refused' = refused
        /\ r.end <= ItemSize(i0) /\ ~Overlaps(got[i0], r.start, r.end)
    BY <1>1, <1>9 DEF Fits
  <2>2. /\ got'[i0] = Added(got[i0], r.start, r.end) /\ DOMAIN got' = Stream
        /\ \A i \in Stream : i # i0 => got'[i] = got[i]
    BY <2>1, <1>4, <1>6
  <2>3. /\ Canonical(got[i0], ItemSize(i0)) /\ ItemSize(i0) \in Nat
        /\ r.start \in 0..ItemSize(i0) /\ r.end \in 0..ItemSize(i0)
    <3>1. Canonical(got[i0], ItemSize(i0)) /\ ItemSize(i0) \in Nat
      BY <1>2, <1>4, SizeFacts DEF GotInv
    <3> QED BY <3>1, <2>1, <1>4, <1>5
  <2>4. Canonical(got'[i0], ItemSize(i0))
    BY <2>2, <2>3, <1>5, AddKeepsCanonical
  <2>5. AddsExactly(got[i0], ItemSize(i0))
    BY <2>3, AddIsExact
  <2>6. Covered(got'[i0]) = Covered(got[i0]) \cup r.start..(r.end - 1)
    BY <2>1, <2>2, <2>3, <2>5, <1>5 DEF AddsExactly
  <2>7. ChunkTypes'
    BY <1>1, <1>2, <2>1, <2>2 DEF ChunkTypes, OpenChunk
  <2>8. \A i \in Stream : Covered(got[i]) \subseteq Covered(got'[i])
    <3> SUFFICES ASSUME NEW i \in Stream PROVE Covered(got[i]) \subseteq Covered(got'[i])
      OBVIOUS
    <3>1. CASE i = i0
      BY <3>1, <2>6
    <3>2. CASE i # i0
      BY <3>2, <2>2
    <3> QED BY <3>1, <3>2
  <2>9. GotInv'
    <3> SUFFICES ASSUME NEW i \in Stream
                 PROVE  /\ Canonical(got'[i], ItemSize(i))
                        /\ \A p \in Covered(got'[i]) : p < offset[i]
                        /\ \A p \in Nat : p < Resumed[i] => p \in Covered(got'[i])
      BY <1>1 DEF GotInv, ItemSize, Canonical, Covered
    <3>1. /\ Canonical(got[i], ItemSize(i))
          /\ \A p \in Covered(got[i]) : p < offset[i]
          /\ \A p \in Nat : p < Resumed[i] => p \in Covered(got[i])
      BY <1>2 DEF GotInv
    <3>2. CASE i = i0
      <4>1. \A p \in Covered(got'[i]) : p < offset[i]
        <5> SUFFICES ASSUME NEW p \in Covered(got'[i]) PROVE p < offset[i]
          OBVIOUS
        <5>1. CASE p \in Covered(got[i])
          BY <5>1, <3>1
        <5>2. CASE p \in r.start..(r.end - 1)
          BY <5>2, <3>2, <1>4, <1>5, <1>6
        <5> QED BY <5>1, <5>2, <3>2, <2>6
      <4> QED BY <4>1, <3>1, <3>2, <2>4, <2>8
    <3>3. CASE i # i0
      BY <3>1, <3>3, <2>2
    <3> QED BY <3>2, <3>3
  <2>10. SentInv'
    <3> SUFFICES ASSUME NEW k \in Sent \cup {k0}, NEW p \in Nat,
                        chunks[k].start <= p, p < chunks[k].end
                 PROVE  p \in Covered(got'[chunks[k].stream])
      BY <1>1, <1>s DEF SentInv
    <3>1. CASE k = k0
      <4>1. p \in r.start..(r.end - 1)
        BY <3>1, <1>4 DEF r
      <4> QED BY <4>1, <3>1, <2>6 DEF r, i0
    <3>2. CASE k \in Sent
      <4>1. p \in Covered(got[chunks[k].stream])
        BY <3>2, <1>1, <1>2 DEF SentInv
      <4>2. k \in 1..taken
        BY <3>2 DEF PInv, SInv, SentTaken
      <4>3. chunks[k].stream \in Stream
        BY <4>2, <1>2, ChunkFacts
      <4> QED BY <4>1, <4>3, <2>8
    <3> QED BY <3>1, <3>2
  <2> QED BY <1>7, <2>7, <2>9, <2>10 DEF DInv
<1> QED BY <1>8, <1>9

\* What the other steps leave alone.
LEMMA DataQuiet ==
    ASSUME PInv, [PathNext]_pathVars, ~\E w \in Workers : Queue(w) \/ Deliver(w)
    PROVE  DInv'
<1>0. DInv /\ (reader \in {"trying", "wait"} => OpenChunk)
  BY DEF PInv, DInv, ChunkTypes
<1>1. CASE NextTurn \/ ReadEnd
  BY <1>0, <1>1, DataKept DEF NextTurn, ReadEnd, senderVars
<1>2. CASE ReadFails
  BY <1>0, <1>2, DataKept DEF ReadFails, P!ReadFails, P!workerVars
<1>3. CASE WaitForRoom
  <2>1. /\ reader \in {"trying", "wait"} /\ UNCHANGED <<taken, sent>>
    BY <1>3 DEF WaitForRoom, P!QueueFull, P!WakeUp, P!WaitCancelled, P!workerVars
  <2>2. UNCHANGED <<offset, chunk, chunks, got, refused, current>>
    BY <1>3 DEF WaitForRoom, schedulerVars, vars
  <2>3. OpenChunk'
    BY <2>1, <2>2, <1>0 DEF OpenChunk
  <2> QED BY <2>1, <2>2, <2>3, <1>0, DataKept
<1>4. CASE Finish
  BY <1>0, <1>4, DataKept DEF Finish, P!Finish, P!workerVars
<1>5. CASE Join
  BY <1>0, <1>5, DataKept DEF Join, P!Join, P!workerVars
<1>6. ASSUME NEW used \in 1..Quantum, NEW done \in BOOLEAN, ReadChunk(used, done) PROVE DInv'
  <2>1. /\ UNCHANGED <<taken, sent, offset, chunks, got, refused, current>>
        /\ chunk' = [stream |-> current, start |-> offset[current],
                     end |-> offset[current] + used, done |-> done]
        /\ current # Streams
    BY <1>6 DEF ReadChunk, P!SendChunk, P!workerVars, schedulerVars, vars
  <2>2. current \in Stream /\ used \in Nat \ {0}
    BY <2>1, SchedulerConstants DEF PInv, IInv, TypeOK, Stream
  <2>3. offset[current] \in Nat
    BY <2>2, <1>0 DEF DInv, ChunkTypes
  <2>4. /\ chunk'.stream = current /\ chunk'.start = offset[current]
        /\ chunk'.end = offset[current] + used /\ chunk'.done = done
    BY <2>1
  <2>5. OpenChunk'
    BY <2>1, <2>2, <2>3, <2>4 DEF OpenChunk
  <2> QED BY <2>1, <2>5, <1>0, DataKept
<1>7. ASSUME NEW w \in Workers, TakeJob(w) \/ SendFails(w) PROVE DInv'
  <2>1. UNCHANGED <<taken, sent, reader>>
    BY <1>7 DEF TakeJob, SendFails, P!Receive, P!Signal, P!SendFails, P!readerVars
  <2>2. UNCHANGED <<offset, chunk, chunks, got, refused, current>>
    BY <1>7 DEF TakeJob, SendFails, schedulerVars, vars
  <2>3. OpenChunk => OpenChunk'
    BY <2>2 DEF OpenChunk
  <2> QED BY <2>1, <2>2, <2>3, <1>0, DataKept
<1>8. CASE Cancel \/ UNCHANGED pathVars
  <2>1. UNCHANGED <<taken, sent, reader>>
    BY <1>8 DEF Cancel, P!Cancel, P!readerVars, P!workerVars, pathVars, senderVars
  <2>2. UNCHANGED <<offset, chunk, chunks, got, refused, current>>
    BY <1>8 DEF Cancel, pathVars, schedulerVars, vars
  <2>3. OpenChunk => OpenChunk'
    BY <2>2 DEF OpenChunk
  <2> QED BY <2>1, <2>2, <2>3, <1>0, DataKept
<1> QED BY <1>1, <1>2, <1>3, <1>4, <1>5, <1>6, <1>7, <1>8 DEF PathNext, Reader, Worker

\* Close is reached, and returns nil, only when no stream is left.
LEMMA ClosedIsThrough ==
    ASSUME reader \in {"close", "success"} => count = 0, [PathNext]_pathVars
    PROVE  reader' \in {"close", "success"} => count' = 0
<1>1. CASE NextTurn \/ ReadEnd
  BY <1>1 DEF NextTurn, ReadEnd, senderVars
<1>2. CASE ReadFails \/ WaitForRoom
  BY <1>2 DEF ReadFails, WaitForRoom, P!ReadFails, P!QueueFull, P!WakeUp, P!WaitCancelled
<1>3. CASE Finish
  <2>1. count' = count /\ (reader = "between" => count = 0)
    BY <1>3 DEF Finish, schedulerVars, vars
  <2>2. reader = "between" \/ reader' = reader
    BY <1>3 DEF Finish, P!Finish
  <2> QED BY <2>1, <2>2
<1>4. CASE Join
  <2>1. count' = count
    BY <1>4 DEF Join, schedulerVars, vars
  <2>2. reader' = "success" => reader = "close"
    BY <1>4, JoinFacts DEF Join
  <2>3. reader' # "close"
    BY <1>4, JoinFacts DEF Join
  <2> QED BY <2>1, <2>2, <2>3
<1>5. ASSUME NEW used \in 1..Quantum, NEW done \in BOOLEAN, ReadChunk(used, done)
      PROVE  reader' \notin {"close", "success"}
  BY <1>5 DEF ReadChunk, P!SendChunk
<1>6. ASSUME NEW w \in Workers, Queue(w) PROVE reader' \notin {"close", "success"}
  BY <1>6 DEF Queue, P!Queue
<1>7. ASSUME NEW w \in Workers, Worker(w) PROVE UNCHANGED <<reader, count>>
  <2>1. UNCHANGED reader
    BY <1>7 DEF Worker, TakeJob, Deliver, SendFails, P!Receive, P!Signal, P!SendMessage,
                P!SendFails, P!readerVars
  <2>2. UNCHANGED count
    BY <1>7 DEF Worker, TakeJob, Deliver, SendFails, schedulerVars, vars
  <2> QED BY <2>1, <2>2
<1>8. CASE Cancel \/ UNCHANGED pathVars
  <2>1. UNCHANGED reader
    BY <1>8 DEF Cancel, P!Cancel, P!readerVars, pathVars, senderVars
  <2>2. UNCHANGED count
    BY <1>8 DEF Cancel, pathVars, schedulerVars, vars
  <2> QED BY <2>1, <2>2
<1> QED BY <1>1, <1>2, <1>3, <1>4, <1>5, <1>6, <1>7, <1>8 DEF PathNext, Reader

LEMMA PathStep == PInv /\ [PathNext]_pathVars => PInv'
<1> SUFFICES ASSUME PInv, [PathNext]_pathVars PROVE PInv'
  OBVIOUS
<1>1. [P!Next]_(P!vars)
  BY PathIsSender
<1>2. SInv'
  BY <1>1, SenderStep DEF PInv
<1>3. [Next]_vars
  BY PathIsScheduler DEF PInv, DInv
<1>4. IInv'
  BY <1>3, Step DEF PInv
<1>5. TurnInv' /\ count' = Cardinality({i \in Stream : active'[i]})
  BY <1>3, TurnsCount DEF PInv, CountInv
<1>6. CountInv'
  BY <1>5, ClosedIsThrough DEF PInv, CountInv
<1>7. DInv'
  BY DataQueued, DataDelivered, DataQuiet
<1> QED BY <1>2, <1>4, <1>5, <1>6, <1>7 DEF PInv

\* The inductive invariant of the composition: the scheduler's, the places of
\* the chunks in the queues and workers, and what was read, sent and received
\* (sendPathItemsWeighted, parallel_sender.go, ranges.go).
THEOREM PathInvariant == PathSpec => []PInv
BY PathInitial, PathStep, PTL DEF PathSpec

\* The parallel sender of a striped transfer implements one sender that takes
\* chunks and sends each at most once, for any number of pipes and any queue
\* depth: Close returns nil only when every chunk was sent, whatever failed or
\* was cancelled when, and nothing is sent once Close or Abort has returned
\* (SendChunk, Close, Abort and the workers of parallel_sender.go).
THEOREM DeliveryImplemented == PathSpec => ImplementsDelivery
<1>1. PathInit => P!Abstract!Init
  BY DEF PathInit, P!Init, P!Abstract!Init, P!Outcome
<1>2. PInv /\ [PathNext]_pathVars => [P!Abstract!Next]_(P!Abstract!vars)
  BY PathIsSender, SenderRefines DEF PInv
<1> QED BY <1>1, <1>2, PathInvariant, PTL
        DEF PathSpec, ImplementsDelivery, P!ImplementsDelivery, P!Abstract!Spec

\* Whatever the pipes and the receiver do, the turns of the composition are those
\* of the weighted scheduler: a stream's deficit stays within one visit's share
\* and every turn has a positive budget (Next and Commit of scheduler.go, called
\* by sendPathItemsWeighted).
THEOREM PathDeficitsBounded == PathSpec => []DeficitBounded
<1>1. PInv => DeficitBounded
  BY DEF PInv, IInv
<1> QED BY <1>1, PathInvariant, PTL

\* However the chunks of several pipes interleave, each item's list of received
\* ranges stays in order with gaps, and it is the set of received positions: its
\* prefix is exact, and Add refuses what overlaps and adds the rest (ranges.go).
THEOREM RangesExact == PathSpec => []RangesAreExact
<1>1. PInv => RangesAreExact
  <2> SUFFICES ASSUME PInv, NEW i \in Stream
               PROVE  /\ Canonical(got[i], ItemSize(i)) /\ PrefixIsContiguous(got[i])
                      /\ AddsExactly(got[i], ItemSize(i))
    BY DEF RangesAreExact
  <2>1. Canonical(got[i], ItemSize(i)) /\ ItemSize(i) \in Nat
    BY SizeFacts DEF PInv, DInv, GotInv
  <2> QED BY <2>1, PrefixOfCanonical, AddIsExact
<1> QED BY <1>1, PathInvariant, PTL

\* A transfer that ends without an error is complete: when Close has returned nil
\* and the receiver has refused nothing, every stream was served to its end and
\* the receiver has, without a gap, every byte that was read of its source
\* (sendPathItemsWeighted and Close).
THEOREM SuccessIsComplete == PathSpec => []SuccessMeansComplete
<1>1. PInv => SuccessMeansComplete
  <2> SUFFICES ASSUME PInv, reader = "success", ~refused, NEW i \in Stream
               PROVE  ~active[i] /\ Prefix(got[i]) = offset[i]
    BY DEF SuccessMeansComplete
  <2>1. ~active[i]
    <3> DEFINE S == {j \in Stream : active[j]}
    <3>1. IsFiniteSet(S)
      <4>1. IsFiniteSet(Stream)
        BY SchedulerConstants, FS_Interval DEF Stream
      <4> QED BY <4>1, FS_Subset
    <3>2. Cardinality(S) = 0
      BY DEF PInv, CountInv
    <3>3. S = {}
      BY <3>1, <3>2, FS_EmptySet
    <3> QED BY <3>3
  <2>2. \A k \in 1..taken : k \in Sent
    BY DEF PInv, SInv, ReaderInv, KeptInv
  <2>3. /\ Canonical(got[i], ItemSize(i)) /\ ItemSize(i) \in Nat /\ Resumed[i] \in Nat
        /\ \A p \in Covered(got[i]) : p < offset[i]
        /\ \A p \in Nat : p < Resumed[i] => p \in Covered(got[i])
    BY SizeFacts DEF PInv, DInv, GotInv
  <2>4. offset[i] \in Nat
    BY DEF PInv, DInv, ChunkTypes
  <2>5. ASSUME NEW p \in Nat, p < offset[i] PROVE p \in Covered(got[i])
    <3>1. CASE p < Resumed[i]
      BY <3>1, <2>3
    <3>2. CASE Resumed[i] <= p
      <4>1. PICK k \in 1..taken : chunks[k].stream = i /\ chunks[k].start <= p /\ p < chunks[k].end
        BY <2>5, <3>2 DEF PInv, DInv, ReadInv
      <4> QED BY <4>1, <2>2 DEF PInv, DInv, SentInv
    <3> QED BY <3>1, <3>2, <2>3
  <2>6. /\ 0..(Prefix(got[i]) - 1) \subseteq Covered(got[i]) /\ Prefix(got[i]) \notin Covered(got[i])
        /\ Prefix(got[i]) \in Nat
    BY <2>3, PrefixOfCanonical DEF PrefixIsContiguous
  <2>7. ~(Prefix(got[i]) < offset[i])
    BY <2>5, <2>6
  <2>8. ~(offset[i] < Prefix(got[i]))
    <3> SUFFICES ASSUME offset[i] < Prefix(got[i]) PROVE FALSE
      OBVIOUS
    <3>1. offset[i] \in 0..(Prefix(got[i]) - 1)
      BY <2>4, <2>6
    <3>2. offset[i] < offset[i]
      BY <3>1, <2>3, <2>6
    <3> QED BY <3>2, <2>4
  <2> QED BY <2>1, <2>4, <2>6, <2>7, <2>8
<1> QED BY <1>1, PathInvariant, PTL

=============================================================================
