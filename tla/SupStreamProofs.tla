-------------------------- MODULE SupStreamProofs --------------------------
(***************************************************************************)
(* What SupExtractorState does for every file, every start of a time range *)
(* and every failure of set_time_range:                                    *)
(*                                                                         *)
(*   - it hands out the display sets that begin at or behind the place     *)
(*     where the search began (YieldsWhatIsBehind);                        *)
(*   - without a time range it is the stream the Extractor relies on, as   *)
(*     far as safety goes (ImplementsStream);                              *)
(*   - count_display_sets agrees with the iterator (CountIsRight).         *)
(*                                                                         *)
(* SegmentsOf, FindLastPts, ScanToPgMagic and CountDisplaySets walk over a *)
(* file by jumps of any length.  SequenceLemmas (Jumping) gives the        *)
(* functions they are made of, and Downto, downward from the end of the    *)
(* file, what holds of them.  Place is where such a walk has come to, and  *)
(* PlacesAscend says that the segments do not overlap.  ContentOf and      *)
(* SetsIn agree: the display sets that begin at a place or behind it are   *)
(* those in the segments from the first one behind that place on           *)
(* (SetsBehind), because a display set begins with a PCS and cannot reach  *)
(* back over one.                                                          *)
(*                                                                         *)
(* The invariant SupInv says that the segments from number h, the first    *)
(* behind the place aimed at, up to number j have been pushed, that the    *)
(* assembler holds what they leave open (Holds), and that the reader is in *)
(* front of segment j, or nowhere where it could read.  That the search    *)
(* lands on segment h (ScanLands) is where Unambiguous is used: a byte     *)
(* skipped behind a "P" is not the beginning of a header.                  *)
(***************************************************************************)
EXTENDS SupRefinement, SequenceLemmas
-----------------------------------------------------------------------------
(* The segments of a file.                                                  *)

States == CompositionState \cup {None}
Segment == [type : SegmentType, pts : Nat, comp : States, payload : Seq(FileCell)]
Sets == AssembledSets(Segment, Nat, States)

LEMMA SegmentsLogged ==
  /\ IsLog(Segment, Nat, States)
  /\ IsFed(Segment, Nat, States)
  /\ AsmNew \in Assemblers(Segment, Nat, States)
BY DEF IsLog, IsFed, Segment, States, AsmNew, Assemblers

(* A segment that can be read lies within the file.                         *)
LEMMA ReadableIs ==
  ASSUME NEW f \in Seq(FileCell), NEW i \in Nat, Readable(f, i)
  PROVE  /\ i + 3 <= Len(f) /\ Behind(f, i) \in i + 3 .. Len(f)
         /\ SegmentAt(f, i) \in Segment
         /\ SegmentAt(f, i).type = Fields(f, i).type
<1> DEFINE c == Fields(f, i)
<1>1. i + 3 <= Len(f) /\ Len(f) \in Nat
  BY DEF Readable, MagicAt, HEADER_SIZE
<1>2. c \in FileCell
  <2>1. i + 3 \in 1 .. Len(f)
    BY <1>1
  <2> QED
    BY <2>1 DEF Fields, HEADER_SIZE
<1>3. c.len \in Nat /\ c.pts \in Nat /\ c.comp \in States
  BY <1>2 DEF FileCell, States
<1>4. c.type \in SegmentType /\ Behind(f, i) <= Len(f)
  BY DEF Readable
<1>5. Behind(f, i) = i + 3 + c.len
  BY DEF Behind, HEADER_SIZE
<1>6. SubSeq(f, i + 3 + 1, Behind(f, i)) \in Seq(FileCell)
  <2> DEFINE b == Behind(f, i)
             h == i + 3
  <2>1. h \in 0 .. Len(f) /\ b \in h .. Len(f)
    BY <1>1, <1>3, <1>4, <1>5
  <2> HIDE DEF b, h
  <2>2. SubSeq(f, h + 1, b) \in Seq(FileCell)
    BY <2>1, Slices
  <2> QED
    BY <2>2 DEF b, h
<1>7. SegmentAt(f, i) \in Segment /\ SegmentAt(f, i).type = c.type
  <2> DEFINE p == SubSeq(f, i + 3 + 1, Behind(f, i))
  <2>1. SegmentAt(f, i) = [type |-> c.type, pts |-> c.pts, comp |-> c.comp, payload |-> p]
    BY DEF SegmentAt, HEADER_SIZE
  <2> HIDE DEF c, p
  <2> QED
    BY <1>3, <1>4, <1>6, <2>1 DEF Segment, p
<1> HIDE DEF c
<1> QED
  BY <1>1, <1>3, <1>4, <1>5, <1>7 DEF c

(* The places from i on, each behind the segment at the one before, until   *)
(* no segment can be read.                                                  *)
Place(f, i, s, k) == IF k = 0 THEN i ELSE Behind(f, s[k])
IsWalk(f, i, s) ==
  /\ s \in Seq(0 .. Len(f))
  /\ \A k \in 1 .. Len(s) : s[k] = Place(f, i, s, k - 1) /\ Readable(f, s[k])
  /\ ~ Readable(f, Place(f, i, s, Len(s)))

LEMMA WalkOn ==
  ASSUME NEW f \in Seq(FileCell), NEW i \in 0 .. Len(f), Readable(f, i), NEW s,
         IsWalk(f, Behind(f, i), s)
  PROVE  IsWalk(f, i, << i >> \o s)
<1> DEFINE z == << i >> \o s
           n == Len(s)
<1>1. s \in Seq(0 .. Len(f)) /\ n \in Nat
  BY DEF IsWalk
<1>2. /\ z \in Seq(0 .. Len(f)) /\ Len(z) = n + 1 /\ z[1] = i
      /\ \A k \in 1 .. n : z[k + 1] = s[k]
  BY <1>1
<1> HIDE DEF z, n
<1>3. ASSUME NEW k \in 0 .. n
      PROVE  Place(f, i, z, k + 1) = Place(f, Behind(f, i), s, k)
  <2>1. CASE k = 0
    BY <1>2, <2>1 DEF Place
  <2>2. CASE k # 0
    <3>1. k \in 1 .. n /\ k + 1 # 0
      BY <1>1, <2>2
    <3> QED
      BY <1>2, <2>2, <3>1 DEF Place
  <2> QED
    BY <2>1, <2>2
<1>4. ASSUME NEW k \in 1 .. Len(z)
      PROVE  z[k] = Place(f, i, z, k - 1) /\ Readable(f, z[k])
  <2>1. CASE k = 1
    BY <1>2, <2>1 DEF Place
  <2>2. CASE k # 1
    <3> DEFINE m == k - 1
    <3>1. m \in 1 .. n /\ m - 1 \in 0 .. n /\ k = m + 1 /\ (m - 1) + 1 = m
      BY <1>1, <1>2, <2>2
    <3> HIDE DEF m
    <3>2. s[m] = Place(f, Behind(f, i), s, m - 1) /\ Readable(f, s[m])
      BY <3>1 DEF IsWalk, n
    <3>3. Place(f, i, z, m) = Place(f, Behind(f, i), s, m - 1)
      BY <1>3, <3>1
    <3>4. z[k] = s[m]
      BY <1>2, <3>1
    <3> QED
      BY <3>2, <3>3, <3>4 DEF m
  <2> QED
    BY <2>1, <2>2
<1>5. ~ Readable(f, Place(f, i, z, Len(z)))
  <2>1. Place(f, i, z, n + 1) = Place(f, Behind(f, i), s, n)
    BY <1>1, <1>3
  <2> QED
    BY <1>2, <2>1 DEF IsWalk, n
<1> QED
  BY <1>2, <1>4, <1>5 DEF IsWalk, z

(* SegmentsOf is such a walk from the beginning.                            *)
LEMMA SegmentsWalk ==
  ASSUME NEW f \in Seq(FileCell)
  PROVE  IsWalk(f, 0, SegmentsOf(f))
<1> DEFINE N == Len(f)
           D == Seq(0 .. N)
           S == {n \in 0 .. N : Readable(f, n)}
           to == [n \in S |-> Behind(f, n)]
           a == [n \in 0 .. N |-> << >>]
           g == [y \in D \X S |-> << y[2] >> \o y[1]]
           Is(h) == h = [n \in 0 .. N |->
                           IF Readable(f, n) THEN << n >> \o h[Behind(f, n)] ELSE << >>]
           u == CHOOSE h : Is(h)
<1>1. N \in Nat /\ SegmentsOf(f) = u[0]
  BY DEF SegmentsOf
<1>2. \A n \in S : n \in 0 .. N /\ Readable(f, n) /\ Behind(f, n) \in n + 1 .. N
  <2>1. ASSUME NEW n \in S PROVE Behind(f, n) \in n + 1 .. N
    <3>1. n \in Nat /\ Readable(f, n)
      OBVIOUS
    <3>2. Behind(f, n) \in n + 3 .. N
      BY <3>1, ReadableIs
    <3> QED
      BY <3>1, <3>2
  <2> QED
    BY <2>1
<1>3. g \in [D \X S -> D] /\ \A y \in D, n \in S : g[<< y, n >>] = << n >> \o y
  <2>1. ASSUME NEW y \in D, NEW n \in S PROVE << n >> \o y \in D
    <3>1. << n >> \in Seq(0 .. N)
      BY <1>2
    <3> QED
      BY <3>1, ConcatProperties
  <2> HIDE DEF D, S
  <2> QED
    BY <2>1
<1>4. Jumps(N, D, S, to, a, g)
  <2>1. << >> \in D
    OBVIOUS
  <2>2. \A n \in S : to[n] \in n + 1 .. N
    BY <1>2
  <2>3. S \subseteq 0 .. N
    OBVIOUS
  <2>4. \A n \in 0 .. N : n \notin S => a[n] \in D
    BY <2>1
  <2> HIDE DEF D, S, to, a, g, N
  <2> QED
    BY <1>3, <2>2, <2>3, <2>4 DEF Jumps
<1>5. Is(u)
  <2>1. PICK h \in [0 .. N -> D] : IsJumping(h, N, S, to, a, g)
    <3> HIDE DEF N, D, S, to, a, g
    <3> QED
      BY <1>1, <1>4, Jumping
  <2>2. ASSUME NEW n \in 0 .. N
        PROVE  h[n] = IF Readable(f, n) THEN << n >> \o h[Behind(f, n)] ELSE << >>
    <3>1. CASE n \in S
      <4>1. to[n] \in 0 .. N /\ to[n] = Behind(f, n)
        <5>1. Behind(f, n) \in n + 1 .. N
          BY <1>2, <3>1
        <5> QED
          BY <3>1, <5>1
      <4>2. h[to[n]] \in D
        BY <4>1
      <4>3. h[n] = g[<< h[to[n]], n >>]
        BY <2>1, <3>1 DEF IsJumping
      <4> QED
        BY <1>3, <3>1, <4>1, <4>2, <4>3
    <3>2. CASE n \notin S
      <4>1. h[n] = a[n] /\ ~ Readable(f, n)
        BY <2>1, <3>2 DEF IsJumping
      <4> QED
        BY <4>1
    <3> QED
      BY <3>1, <3>2
  <2>3. Is(h)
    <3>1. h = [n \in 0 .. N |-> h[n]]
      BY <2>1
    <3> QED
      BY <2>2, <3>1
  <2> HIDE DEF Is
  <2> QED
    BY <2>3
<1>6. \A n \in 0 .. N : u[n] = IF Readable(f, n) THEN << n >> \o u[Behind(f, n)] ELSE << >>
  <2> HIDE DEF u
  <2> QED
    BY <1>5
<1> DEFINE T == {n \in 0 .. N : IsWalk(f, n, u[n])}
<1>7. ASSUME NEW n \in 0 .. N, \A m \in n + 1 .. N : m \in T PROVE n \in T
  <2>1. CASE Readable(f, n)
    <3>1. Behind(f, n) \in n + 1 .. N
      BY <1>2, <2>1
    <3>2. IsWalk(f, Behind(f, n), u[Behind(f, n)])
      BY <1>7, <3>1
    <3>3. u[n] = << n >> \o u[Behind(f, n)]
      BY <1>6, <2>1
    <3> HIDE DEF u
    <3>4. IsWalk(f, n, u[n])
      BY <2>1, <3>2, <3>3, WalkOn
    <3> QED
      BY <3>4
  <2>2. CASE ~ Readable(f, n)
    <3> DEFINE e == << >>
    <3>1. u[n] = e
      BY <1>6, <2>2
    <3>2. e \in Seq(0 .. N) /\ Len(e) = 0
      OBVIOUS
    <3> HIDE DEF e, u
    <3>3. IsWalk(f, n, e)
      BY <2>2, <3>2 DEF IsWalk, Place
    <3> QED
      BY <3>1, <3>3
  <2> QED
    BY <2>1, <2>2
<1>8. 0 .. N \subseteq T
  <2> HIDE DEF T, N
  <2> QED
    BY <1>1, <1>7, Downto
<1>9. 0 \in T
  BY <1>1, <1>8
<1> QED
  BY <1>1, <1>9

(* The segments of a file that is read from its beginning.                  *)
LogOf(f) == [k \in DOMAIN SegmentsOf(f) |-> SegmentAt(f, SegmentsOf(f)[k])]

LEMMA PlacesTyped ==
  ASSUME NEW f \in Seq(FileCell)
  PROVE  LET s == SegmentsOf(f)
         IN  /\ Len(s) \in Nat /\ DOMAIN s = 1 .. Len(s)
             /\ \A k \in 1 .. Len(s) : s[k] \in Nat /\ Readable(f, s[k])
<1> DEFINE s == SegmentsOf(f)
<1>1. s \in Seq(0 .. Len(f)) /\ \A k \in 1 .. Len(s) : Readable(f, s[k])
  BY SegmentsWalk DEF IsWalk
<1> HIDE DEF s
<1>2. \A k \in 1 .. Len(s) : s[k] \in 0 .. Len(f)
  BY <1>1
<1>3. \A k \in 1 .. Len(s) : s[k] \in Nat
  BY <1>2
<1>4. Len(s) \in Nat /\ DOMAIN s = 1 .. Len(s)
  BY <1>1
<1> QED
  BY <1>1, <1>3, <1>4 DEF s

LEMMA SegmentsLog ==
  ASSUME NEW f \in Seq(FileCell)
  PROVE  /\ LogOf(f) \in Seq(Segment) /\ Len(LogOf(f)) = Len(SegmentsOf(f))
         /\ \A k \in 1 .. Len(SegmentsOf(f)) :
              LogOf(f)[k] = SegmentAt(f, SegmentsOf(f)[k])
<1> DEFINE s == SegmentsOf(f)
           n == Len(s)
<1>1. n \in Nat /\ DOMAIN s = 1 .. n /\ \A k \in 1 .. n : s[k] \in Nat /\ Readable(f, s[k])
  BY PlacesTyped
<1>2. \A k \in 1 .. n : SegmentAt(f, s[k]) \in Segment
  BY <1>1, ReadableIs
<1>3. LogOf(f) = [k \in 1 .. n |-> SegmentAt(f, s[k])]
  BY <1>1 DEF LogOf
<1> HIDE DEF s, n
<1>4. LogOf(f) \in Seq(Segment) /\ Len(LogOf(f)) = n
  BY <1>1, <1>2, <1>3
<1>5. \A k \in 1 .. n : LogOf(f)[k] = SegmentAt(f, s[k])
  BY <1>3
<1>6. LogOf(f) \in Seq(Segment) /\ Len(LogOf(f)) = Len(SegmentsOf(f))
  BY <1>4 DEF n, s
<1>7. \A k \in 1 .. Len(SegmentsOf(f)) : LogOf(f)[k] = SegmentAt(f, SegmentsOf(f)[k])
  BY <1>5 DEF n, s
<1> QED
  BY <1>6, <1>7

(* Each place is behind the segments in front of it.                        *)
LEMMA PlacesAscend ==
  ASSUME NEW f \in Seq(FileCell)
  PROVE  LET s == SegmentsOf(f)
         IN  /\ \A k \in 1 .. Len(s) : /\ s[k] \in Nat /\ Readable(f, s[k])
                                       /\ s[k] = Place(f, 0, s, k - 1)
                                       /\ s[k] + 3 <= Place(f, 0, s, k)
                                       /\ Place(f, 0, s, k) <= Len(f)
             /\ \A j, k \in 1 .. Len(s) : j < k => Place(f, 0, s, j) <= s[k]
             /\ \A j \in 1 .. Len(s) : Place(f, 0, s, j) <= Place(f, 0, s, Len(s))
             /\ \A k \in 0 .. Len(s) : Place(f, 0, s, k) \in Nat
             /\ ~ Readable(f, Place(f, 0, s, Len(s)))
<1> DEFINE s == SegmentsOf(f)
           n == Len(s)
           p(k) == Place(f, 0, s, k)
<1>1. n \in Nat /\ \A k \in 1 .. n : s[k] \in Nat
  BY PlacesTyped
<1>2. (\A k \in 1 .. n : s[k] = p(k - 1) /\ Readable(f, s[k])) /\ ~ Readable(f, p(n))
  BY SegmentsWalk DEF IsWalk
<1>3. ASSUME NEW k \in 1 .. n
      PROVE  p(k) \in Nat /\ s[k] + 3 <= p(k) /\ p(k) <= Len(f)
  <2>1. Behind(f, s[k]) \in s[k] + 3 .. Len(f)
    BY <1>1, <1>2, ReadableIs
  <2>2. p(k) = Behind(f, s[k])
    BY <1>1 DEF Place
  <2> HIDE DEF s, p, n
  <2>3. s[k] \in Nat /\ Len(f) \in Nat
    BY <1>1
  <2> QED
    BY <2>1, <2>2, <2>3
<1>4. p(0) = 0
  BY DEF Place
<1> HIDE DEF s, p, n
<1> DEFINE T == {m \in 0 .. n : \A j \in 1 .. n : j <= m => p(j) <= p(m)}
<1>5. 0 \in T
  BY <1>1
<1>6. ASSUME NEW m \in 0 .. n - 1, m \in T PROVE m + 1 \in T
  <2>1. m + 1 \in 1 .. n /\ (m + 1) - 1 = m
    BY <1>1
  <2>2. s[m + 1] = p(m) /\ s[m + 1] + 3 <= p(m + 1) /\ p(m) \in Nat /\ p(m + 1) \in Nat
    BY <1>1, <1>2, <1>3, <2>1
  <2>3. p(m) <= p(m + 1)
    BY <2>2
  <2>4. ASSUME NEW j \in 1 .. n, j <= m + 1 PROVE p(j) <= p(m + 1)
    <3>1. CASE j <= m
      <4>1. p(j) <= p(m) /\ p(j) \in Nat
        BY <1>3, <1>6, <3>1
      <4> QED
        BY <2>2, <2>3, <4>1
    <3>2. CASE j = m + 1
      BY <2>2, <3>2
    <3> QED
      BY <2>4, <3>1, <3>2
  <2> QED
    BY <2>1, <2>4
<1>7. 0 .. n \subseteq T
  <2> HIDE DEF T
  <2> QED
    BY <1>1, <1>5, <1>6, Upto
<1>8. ASSUME NEW j \in 1 .. n, NEW k \in 1 .. n, j < k PROVE p(j) <= s[k]
  <2>1. k - 1 \in T /\ j <= k - 1
    BY <1>1, <1>7, <1>8
  <2> QED
    BY <1>2, <2>1
<1>9. \A j \in 1 .. n : p(j) <= p(n)
  <2>1. n \in T
    BY <1>1, <1>7
  <2> QED
    BY <2>1
<1>10. \A k \in 0 .. n : p(k) \in Nat
  <2>1. \A k \in 0 .. n : k = 0 \/ k \in 1 .. n
    BY <1>1
  <2> QED
    BY <1>3, <1>4, <2>1
<1> QED
  BY <1>1, <1>2, <1>3, <1>8, <1>9, <1>10 DEF s, n, p

(* The segment number h is the first at or behind the place a.              *)
Landed(f, h, a) ==
  LET s == SegmentsOf(f)
  IN  /\ h \in 1 .. Len(s) + 1
      /\ \A k \in 1 .. Len(s) : k < h <=> s[k] < a

LEMMA LandingExists ==
  ASSUME NEW f \in Seq(FileCell), NEW a \in Nat
  PROVE  \E h \in 1 .. Len(SegmentsOf(f)) + 1 : Landed(f, h, a)
<1> DEFINE s == SegmentsOf(f)
           n == Len(s)
           S == {k \in 1 .. n + 1 : k = n + 1 \/ s[k] >= a}
<1>1. n \in Nat /\ \A k \in 1 .. n : s[k] \in Nat
  BY PlacesTyped
<1>2. ASSUME NEW j \in 1 .. n, NEW k \in 1 .. n, j < k PROVE s[j] < s[k]
  <2>1. /\ s[j] + 3 <= Place(f, 0, s, j) /\ Place(f, 0, s, j) <= s[k]
        /\ Place(f, 0, s, j) \in Nat
    <3>1. j \in 0 .. n
      OBVIOUS
    <3> QED
      BY <1>2, <3>1, PlacesAscend
  <2> QED
    BY <1>1, <2>1
<1> HIDE DEF s, n
<1>3. S \in SUBSET Nat /\ n + 1 \in S
  BY <1>1
<1>4. PICK h \in S : \A k \in S : h <= k
  <2> HIDE DEF S
  <2> QED
    BY <1>3, LeastNumber
<1>5. ASSUME NEW k \in 1 .. n PROVE k < h <=> s[k] < a
  <2>1. h \in 1 .. n + 1 /\ k \in 1 .. n + 1 /\ s[k] \in Nat
    BY <1>1
  <2>2. ASSUME k < h PROVE s[k] < a
    <3>1. k \notin S
      BY <1>4, <2>1, <2>2
    <3> QED
      BY <2>1, <3>1
  <2>3. ASSUME ~ (k < h) PROVE ~ (s[k] < a)
    <3>1. h \in 1 .. n /\ s[h] >= a /\ h <= k
      BY <1>1, <2>1, <2>3
    <3>2. h = k \/ s[h] < s[k]
      BY <1>2, <2>1, <3>1
    <3> QED
      BY <1>1, <2>1, <3>1, <3>2
  <2> QED
    BY <2>2, <2>3
<1> QED
  BY <1>5 DEF Landed, s, n

-----------------------------------------------------------------------------
(* The display sets of a file.                                              *)

(* The display sets of a file with the places where they begin, and what    *)
(* segment j adds to them.                                                  *)
PlacedSets == [begin : Nat, set : Sets]
SetAt(f, i, j) == [begin |-> SegmentsOf(f)[i], set |-> RunSet(LogOf(f), i, j)]
WithSet(f, d, j) ==
  LET opens == {i \in 1 .. j - 1 : IsRun(LogOf(f), i, j)}
  IN  IF opens = {} THEN d
      ELSE LET i == CHOOSE i \in opens : TRUE IN Append(d, SetAt(f, i, j))

LEMMA NoSetAt ==
  ASSUME NEW f, NEW d, NEW j, \A i \in 1 .. j - 1 : ~ IsRun(LogOf(f), i, j)
  PROVE  WithSet(f, d, j) = d
BY DEF WithSet

LEMMA OneSetAt ==
  ASSUME NEW f \in Seq(FileCell), NEW d, NEW j \in Nat, NEW i \in 1 .. j - 1,
         IsRun(LogOf(f), i, j)
  PROVE  WithSet(f, d, j) = Append(d, SetAt(f, i, j))
<1> DEFINE O == {k \in 1 .. j - 1 : IsRun(LogOf(f), k, j)}
           c == CHOOSE k \in O : TRUE
<1>1. i \in O
  OBVIOUS
<1>2. c \in O
  BY <1>1
<1>3. Len(LogOf(f)) \in Nat
  BY SegmentsLog, PlacesTyped
<1>4. c = i
  <2>1. IsRun(LogOf(f), c, j)
    BY <1>2
  <2> HIDE DEF c
  <2> QED
    BY <1>3, <2>1, RunUnique
<1>5. WithSet(f, d, j) = IF O = {} THEN d ELSE Append(d, SetAt(f, c, j))
  BY DEF WithSet
<1> HIDE DEF O, c
<1> QED
  BY <1>1, <1>4, <1>5

LEMMA SetAtTyped ==
  ASSUME NEW f \in Seq(FileCell), NEW i, NEW j, IsRun(LogOf(f), i, j)
  PROVE  SetAt(f, i, j) \in PlacedSets
<1> DEFINE l == LogOf(f)
<1>1. l \in Seq(Segment) /\ Len(l) = Len(SegmentsOf(f))
  BY SegmentsLog
<1>2. i \in 1 .. Len(l) /\ j \in 1 .. Len(l) /\ i <= j
  BY <1>1 DEF IsRun
<1>3. SegmentsOf(f)[i] \in Nat
  BY <1>1, <1>2, PlacesTyped
<1> HIDE DEF l
<1>4. l[i] \in Segment
  BY <1>1, <1>2, ElementOfSeq
<1>5. SubSeq(l, i, j) \in Seq(Segment)
  <2> DEFINE h == i - 1
  <2>1. h \in 0 .. Len(l) /\ j \in h .. Len(l) /\ i = h + 1
    BY <1>1, <1>2
  <2> HIDE DEF h
  <2> QED
    BY <1>1, <2>1, Slices
<1>6. l[i].pts \in Nat /\ l[i].comp \in States
  BY <1>4 DEF Segment
<1>7. RunSet(l, i, j) \in Sets
  BY <1>5, <1>6 DEF RunSet, Sets, AssembledSets
<1> QED
  BY <1>3, <1>7 DEF SetAt, PlacedSets, l

LEMMA WithSetTyped ==
  ASSUME NEW f \in Seq(FileCell), NEW d \in Seq(PlacedSets), NEW j \in Nat
  PROVE  WithSet(f, d, j) \in Seq(PlacedSets)
<1>1. CASE \A i \in 1 .. j - 1 : ~ IsRun(LogOf(f), i, j)
  BY <1>1, NoSetAt
<1>2. CASE \E i \in 1 .. j - 1 : IsRun(LogOf(f), i, j)
  <2>1. PICK i \in 1 .. j - 1 : IsRun(LogOf(f), i, j)
    BY <1>2
  <2>2. SetAt(f, i, j) \in PlacedSets /\ WithSet(f, d, j) = Append(d, SetAt(f, i, j))
    BY <2>1, OneSetAt, SetAtTyped
  <2> QED
    BY <2>2, AppendProperties
<1> QED
  BY <1>1, <1>2

(* ContentOf adds what the segments add, one after the other.               *)
IsContent(u, f) ==
  /\ u[0] = << >>
  /\ \A j \in 1 .. Len(SegmentsOf(f)) : u[j] = WithSet(f, u[j - 1], j)
  /\ ContentOf(f) = u[Len(SegmentsOf(f))]

LEMMA ContentExists ==
  ASSUME NEW f \in Seq(FileCell)
  PROVE  \E u \in [0 .. Len(SegmentsOf(f)) -> Seq(PlacedSets)] : IsContent(u, f)
<1> DEFINE s == SegmentsOf(f)
           l == LogOf(f)
           N == Len(l)
           D == Seq(PlacedSets)
           more(d, n) == WithSet(f, d, n)
           g == [y \in D \X (1 .. N) |-> more(y[1], y[2])]
           Is(h) == h = [j \in 0 .. N |->
                           IF j = 0 THEN << >>
                           ELSE LET opens == {i \in 1 .. j - 1 : IsRun(l, i, j)}
                                IN  IF opens = {} THEN h[j - 1]
                                    ELSE LET i == CHOOSE i \in opens : TRUE
                                         IN  Append(h[j - 1],
                                               [begin |-> s[i], set |-> RunSet(l, i, j)])]
           Eq(h) == h = [j \in 0 .. N |-> IF j = 0 THEN << >> ELSE more(h[j - 1], j)]
           u == CHOOSE h : Is(h)
<1>1. N \in Nat /\ N = Len(s) /\ << >> \in D
  BY SegmentsLog, PlacesTyped
<1>2. ContentOf(f) = u[N]
  BY DEF ContentOf, LogOf
<1>3. \A h : Is(h) <=> Eq(h)
  BY DEF WithSet, SetAt
<1> HIDE DEF Is
<1>4. \A d \in D, n \in 1 .. N : more(d, n) \in D
  BY WithSetTyped
<1> HIDE DEF more
<1>5. /\ g \in [D \X (1 .. N) -> D]
      /\ \A y \in D, n \in 1 .. N : g[<< y, n >>] = more(y, n)
  <2> HIDE DEF D, N
  <2> QED
    BY <1>4
<1>6. Eq(u)
  <2>1. PICK h \in [0 .. N -> D] : IsRecursive(h, N, << >>, g)
    <3> HIDE DEF g, N, D
    <3> QED
      BY <1>1, <1>5, Recursion
  <2>2. Eq(h)
    <3>1. \A n \in 0 .. N : n # 0 => n - 1 \in 0 .. N /\ n \in 1 .. N
      BY <1>1
    <3> HIDE DEF g, D, N
    <3>2. \A n \in 0 .. N : h[n] = IF n = 0 THEN << >> ELSE more(h[n - 1], n)
      BY <1>5, <2>1, <3>1 DEF IsRecursive
    <3> QED
      BY <2>1, <3>2
  <2>3. Is(u)
    <3> HIDE DEF Eq
    <3> QED
      BY <1>3, <2>2
  <2> HIDE DEF u
  <2> QED
    BY <1>3, <2>3
<1> HIDE DEF u
<1>7. u[0] = << >> /\ (\A n \in 1 .. N : u[n] = more(u[n - 1], n)) /\ u = [n \in 0 .. N |-> u[n]]
  <2>1. 0 \in 0 .. N /\ \A n \in 1 .. N : n # 0 /\ n \in 0 .. N
    BY <1>1
  <2> HIDE DEF N
  <2> QED
    BY <1>6, <2>1
<1>8. Follows(u, N, D, << >>, g)
  <2> HIDE DEF N, D, g
  <2> QED
    BY <1>5, <1>7 DEF Follows
<1>9. u \in [0 .. N -> D]
  <2> HIDE DEF g, D, N
  <2> QED
    BY <1>1, <1>5, <1>8, RecursionTyped
<1>10. IsContent(u, f)
  <2> HIDE DEF N, D, g
  <2> QED
    BY <1>1, <1>2, <1>7 DEF IsContent, more
<1> QED
  <2>1. u \in [0 .. Len(s) -> D]
    BY <1>1, <1>9
  <2> QED
    BY <1>10, <2>1

LEMMA ContentTyped ==
  ASSUME NEW f \in Seq(FileCell)
  PROVE  ContentOf(f) \in Seq(PlacedSets)
<1>1. PICK u \in [0 .. Len(SegmentsOf(f)) -> Seq(PlacedSets)] : IsContent(u, f)
  BY ContentExists
<1>2. Len(SegmentsOf(f)) \in 0 .. Len(SegmentsOf(f))
  BY PlacesTyped
<1> QED
  BY <1>1, <1>2 DEF IsContent
-----------------------------------------------------------------------------
(* The runs of a part of a log.                                             *)
LEMMA PartOfRun ==
  ASSUME NEW S, NEW l \in Seq(S), NEW h \in 1 .. Len(l), NEW m \in h .. Len(l),
         NEW i \in h .. m - 1
  PROVE  LET s == SubSeq(l, h, m)
         IN  /\ IsRun(s, i - h + 1, m - h + 1) <=> IsRun(l, i, m)
             /\ RunSet(s, i - h + 1, m - h + 1) = RunSet(l, i, m)
<1> DEFINE s == SubSeq(l, h, m)
           a == i - h + 1
           b == m - h + 1
<1>1. /\ Len(l) \in Nat /\ h \in Nat /\ m \in Nat /\ i \in Nat /\ a \in Nat /\ b \in Nat
      /\ 1 <= h /\ h <= i /\ i < m /\ m <= Len(l)
      /\ 1 <= a /\ a < b
      /\ a = i - h + 1 /\ b = m - h + 1
  OBVIOUS
<1>2. /\ s \in Seq(S) /\ Len(s) = b
      /\ \A k \in 1 .. b : s[k] = l[h + k - 1]
  <2>1. Len(s) = b /\ \A k \in 1 .. b : s[k] = l[h + k - 1]
    BY <1>1
  <2>2. s \in Seq(S)
    <3> DEFINE q == h - 1
    <3>1. q \in 0 .. Len(l) /\ m \in q .. Len(l) /\ h = q + 1
      BY <1>1
    <3> HIDE DEF q
    <3> QED
      BY <3>1, Slices
  <2> QED
    BY <2>1, <2>2
<1> HIDE DEF s
<1>3. s[a] = l[i] /\ s[b] = l[m]
  <2>1. a \in 1 .. b /\ b \in 1 .. b /\ h + a - 1 = i /\ h + b - 1 = m
    BY <1>1
  <2> HIDE DEF a, b
  <2> QED
    BY <1>2, <2>1
<1> HIDE DEF a, b
<1>4. (\A k \in a + 1 .. b - 1 : s[k].type \in BodyType) <=>
        \A k \in i + 1 .. m - 1 : l[k].type \in BodyType
  <2>1. ASSUME NEW k \in a + 1 .. b - 1
        PROVE  h + k - 1 \in i + 1 .. m - 1 /\ s[k] = l[h + k - 1]
    BY <1>1, <1>2
  <2>2. ASSUME NEW k \in i + 1 .. m - 1
        PROVE  k - h + 1 \in a + 1 .. b - 1 /\ s[k - h + 1] = l[k]
    <3>1. k - h + 1 \in a + 1 .. b - 1 /\ k - h + 1 \in 1 .. b /\ h + (k - h + 1) - 1 = k
      BY <1>1
    <3> QED
      BY <1>2, <3>1
  <2> QED
    BY <2>1, <2>2
<1>5. IsRun(s, a, b) <=> IsRun(l, i, m)
  <2>1. /\ a \in 1 .. Len(s) /\ b \in a + 1 .. Len(s)
        /\ i \in 1 .. Len(l) /\ m \in i + 1 .. Len(l)
    BY <1>1, <1>2
  <2> QED
    BY <1>3, <1>4, <2>1 DEF IsRun
<1>6. SubSeq(s, a, b) = SubSeq(l, i, m)
  <2> DEFINE x == SubSeq(s, a, b)
             y == SubSeq(l, i, m)
  <2>1. Len(x) = b - a + 1 /\ x = [k \in 1 .. b - a + 1 |-> s[a + k - 1]]
    BY <1>1, <1>2
  <2>2. Len(y) = m - i + 1 /\ y = [k \in 1 .. m - i + 1 |-> l[i + k - 1]]
    BY <1>1
  <2>3. b - a + 1 = m - i + 1
    BY <1>1
  <2>4. \A k \in 1 .. b - a + 1 : s[a + k - 1] = l[i + k - 1]
    <3> TAKE k \in 1 .. b - a + 1
    <3>1. a + k - 1 \in 1 .. b /\ h + (a + k - 1) - 1 = i + k - 1
      BY <1>1
    <3> QED
      BY <1>2, <3>1
  <2> HIDE DEF x, y
  <2> QED
    BY <2>1, <2>2, <2>3, <2>4 DEF x, y
<1>7. RunSet(s, a, b) = RunSet(l, i, m)
  BY <1>3, <1>6 DEF RunSet
<1> QED
  BY <1>5, <1>7 DEF s, a, b

Behindwards(a) == {c \in PlacedSets : c.begin >= a}
SetOf == [c \in PlacedSets |-> c.set]

LEMMA SetOfTyped == SetOf \in [PlacedSets -> Sets] /\ \A c \in PlacedSets : SetOf[c] = c.set
<1>1. \A c \in PlacedSets : c.set \in Sets
  BY DEF PlacedSets
<1> QED
  BY <1>1 DEF SetOf

(* The part of a log from h on grows with it.                               *)
LEMMA PartGrows ==
  ASSUME NEW S, NEW l \in Seq(S), NEW h \in Nat \ {0}, NEW m \in h - 1 .. Len(l) - 1
  PROVE  /\ SubSeq(l, h, m + 1) = Append(SubSeq(l, h, m), l[m + 1])
         /\ SubSeq(l, h, m) \in Seq(S) /\ Len(SubSeq(l, h, m)) = m - h + 1
         /\ SubSeq(l, h, m + 1) \in Seq(S) /\ Len(SubSeq(l, h, m + 1)) = m - h + 2
<1> DEFINE x == SubSeq(l, h, m)
           y == SubSeq(l, h, m + 1)
           z == Append(x, l[m + 1])
           n == m - h + 1
<1>1. m \in Nat /\ h - 1 <= m /\ m + 1 <= Len(l) /\ Len(l) \in Nat /\ n \in Nat
  OBVIOUS
<1>2. x \in Seq(S) /\ y \in Seq(S)
  <2> DEFINE q == h - 1
  <2>1. q \in 0 .. Len(l) /\ m \in q .. Len(l) /\ m + 1 \in q .. Len(l) /\ h = q + 1
    BY <1>1
  <2> HIDE DEF q
  <2> QED
    BY <2>1, Slices
<1>3. Len(x) = n /\ \A k \in 1 .. n : x[k] = l[h + k - 1]
  BY <1>1
<1>4. Len(y) = n + 1 /\ \A k \in 1 .. n + 1 : y[k] = l[h + k - 1]
  BY <1>1
<1>5. l[m + 1] \in S
  <2>1. m + 1 \in 1 .. Len(l)
    BY <1>1
  <2> QED
    BY <2>1, ElementOfSeq
<1> HIDE DEF x, y
<1>6. /\ z \in Seq(S) /\ Len(z) = n + 1 /\ z[n + 1] = l[m + 1]
      /\ \A k \in 1 .. n : z[k] = x[k]
  BY <1>2, <1>3, <1>5, AppendProperties
<1>7. \A k \in 1 .. n + 1 : y[k] = z[k]
  <2> TAKE k \in 1 .. n + 1
  <2>1. CASE k = n + 1
    <3>1. h + k - 1 = m + 1
      BY <1>1, <2>1
    <3> QED
      BY <1>4, <1>6, <2>1, <3>1
  <2>2. CASE k # n + 1
    <3>1. k \in 1 .. n
      BY <1>1, <2>2
    <3> QED
      BY <1>3, <1>4, <1>6, <3>1
  <2> QED
    BY <2>1, <2>2
<1>8. n + 1 = m - h + 2
  BY <1>1
<1> HIDE DEF z, n
<1>9. y = z
  <2>1. DOMAIN y = 1 .. n + 1 /\ DOMAIN z = 1 .. n + 1
    BY <1>2, <1>4, <1>6
  <2> QED
    BY <1>2, <1>6, <1>7, <2>1, SeqEqual
<1> QED
  BY <1>2, <1>3, <1>4, <1>8, <1>9 DEF x, y, z, n

LEMMA NoPart ==
  ASSUME NEW S, NEW l \in Seq(S), NEW h \in Nat, NEW m \in Nat, m < h
  PROVE  SubSeq(l, h, m) = << >>
OBVIOUS

(* What a run of the log adds is the same for the part of it from h on, or  *)
(* nothing when it begins in front of it.                                   *)
LEMMA EndingOfPart ==
  ASSUME NEW f \in Seq(FileCell), NEW h \in Nat \ {0}, NEW m \in h - 1 .. Len(LogOf(f)) - 1
  PROVE  LET l == LogOf(f)
             z == SubSeq(l, h, m + 1)
         IN  /\ \A i \in h .. m : IsRun(l, i, m + 1) =>
                    Ending(z, Len(z)) = << RunSet(l, i, m + 1) >>
             /\ (\A i \in h .. m : ~ IsRun(l, i, m + 1)) => Ending(z, Len(z)) = << >>
<1> DEFINE l == LogOf(f)
           j == m + 1
           z == SubSeq(l, h, j)
           b == j - h + 1
<1>1. l \in Seq(Segment)
  BY SegmentsLog
<1>2. /\ h \in Nat \ {0} /\ m \in h - 1 .. Len(l) - 1
  OBVIOUS
<1> HIDE DEF l
<1>3. /\ Len(l) \in Nat /\ m \in Nat /\ j \in Nat /\ b \in Nat \ {0}
      /\ h - 1 <= m /\ j <= Len(l) /\ j - 1 = m
  BY <1>1, <1>2
<1>4. z \in Seq(Segment) /\ Len(z) = b
  <2>1. m - h + 2 = b
    BY <1>3
  <2> QED
    BY <1>1, <1>2, <2>1, PartGrows
<1>5. ASSUME NEW i \in h .. m
      PROVE  /\ IsRun(z, i - h + 1, b) <=> IsRun(l, i, j)
             /\ RunSet(z, i - h + 1, b) = RunSet(l, i, j)
             /\ i - h + 1 \in 1 .. b - 1
  <2>1. h \in 1 .. Len(l) /\ j \in h .. Len(l) /\ i \in h .. j - 1
    BY <1>2, <1>3
  <2>2. i - h + 1 \in 1 .. b - 1
    BY <1>2, <1>3
  <2> HIDE DEF j
  <2> QED
    BY <1>1, <2>1, <2>2, PartOfRun
<1> HIDE DEF z, j
<1>6. ASSUME NEW i \in h .. m, IsRun(l, i, j)
      PROVE  Ending(z, b) = << RunSet(l, i, j) >>
  <2> DEFINE k == i - h + 1
  <2>1. IsRun(z, k, b) /\ RunSet(z, k, b) = RunSet(l, i, j) /\ k \in 1 .. b - 1
    BY <1>5, <1>6
  <2> HIDE DEF k, b
  <2> QED
    BY <1>3, <1>4, <2>1, EndingIs
<1>7. ASSUME \A i \in h .. m : ~ IsRun(l, i, j)
      PROVE  Ending(z, b) = << >>
  <2>1. ASSUME NEW k \in 1 .. b - 1 PROVE ~ IsRun(z, k, b)
    <3> DEFINE i == k + h - 1
    <3>1. i \in h .. m /\ i - h + 1 = k
      BY <1>2, <1>3 DEF j
    <3> HIDE DEF i, b
    <3> QED
      BY <1>5, <1>7, <3>1
  <2> HIDE DEF b
  <2> QED
    BY <2>1, EndingIsNot
<1> HIDE DEF b
<1> QED
  BY <1>4, <1>6, <1>7 DEF l, z, j

(* The display sets that begin at a or behind it are those in the segments  *)
(* from there on.                                                           *)
LEMMA SetsBehind ==
  ASSUME NEW f \in Seq(FileCell), NEW a \in Nat, NEW h, Landed(f, h, a)
  PROVE  Image(Only(ContentOf(f), Behindwards(a)), SetOf)
           = SetsIn(SubSeq(LogOf(f), h, Len(LogOf(f))))
<1> DEFINE s == SegmentsOf(f)
           l == LogOf(f)
           n == Len(s)
           B == Behindwards(a)
<1>1. PICK u \in [0 .. n -> Seq(PlacedSets)] : IsContent(u, f)
  BY ContentExists
<1>2. l \in Seq(Segment) /\ Len(l) = n /\ n \in Nat
  BY SegmentsLog, PlacesTyped
<1>3. h \in 1 .. n + 1 /\ \A k \in 1 .. n : k < h <=> s[k] < a
  BY DEF Landed
<1>4. \A k \in 1 .. n : s[k] \in Nat
  BY PlacesTyped
<1>5. u[0] = << >> /\ (\A j \in 1 .. n : u[j] = WithSet(f, u[j - 1], j)) /\ ContentOf(f) = u[n]
  BY <1>1 DEF IsContent
<1>6. \A i, j : IsRun(l, i, j) => /\ i \in 1 .. n /\ SetAt(f, i, j) \in PlacedSets
                                  /\ SetAt(f, i, j) = [begin |-> s[i], set |-> RunSet(l, i, j)]
  BY <1>2, SetAtTyped DEF IsRun, SetAt
<1> HIDE DEF s, l, n
<1> DEFINE part(m) == SubSeq(l, h, m)
           own(m) == Only(u[m], B)
           T == {m \in 0 .. n : Image(own(m), SetOf) = SetsIn(part(m))}
<1>7. 0 \in T
  <2> DEFINE e == << >>
  <2>1. part(0) = e
    BY <1>2, <1>3, NoPart
  <2>2. own(0) = e
    BY <1>5, OnlyEmpty
  <2>3. Image(e, SetOf) = e
    <3>1. DOMAIN e = {}
      OBVIOUS
    <3> QED
      BY <3>1 DEF Image
  <2>4. SetsIn(e) = e
    BY SetsInEmpty
  <2> HIDE DEF e, own, part
  <2> QED
    BY <1>2, <2>1, <2>2, <2>3, <2>4
<1>8. ASSUME NEW m \in 0 .. n - 1, m \in T PROVE m + 1 \in T
  <2> DEFINE j == m + 1
  <2>1. j \in 1 .. n /\ j - 1 = m /\ m \in 0 .. n /\ j \in Nat /\ m \in Nat /\ j \in 0 .. n
    BY <1>2
  <2>2. u[m] \in Seq(PlacedSets) /\ u[j] = WithSet(f, u[m], j)
    BY <1>1, <1>5, <2>1
  <2>3. Image(own(m), SetOf) = SetsIn(part(m))
    BY <1>8
  <2>4. own(m) \in Seq(PlacedSets)
    BY <2>2, OnlyTyped
  <2> SUFFICES Image(own(j), SetOf) = SetsIn(part(j))
    BY <2>1
  <2>5. ASSUME NEW i \in 1 .. m, IsRun(l, i, j)
        PROVE  own(j) = IF s[i] >= a THEN Append(own(m), SetAt(f, i, j)) ELSE own(m)
    <3> DEFINE c == SetAt(f, i, j)
    <3>1. c \in PlacedSets /\ (c \in B <=> s[i] >= a)
      BY <1>6, <2>5 DEF Behindwards
    <3>2. u[j] = Append(u[m], c)
      <4>1. i \in 1 .. j - 1 /\ IsRun(LogOf(f), i, j)
        BY <2>1, <2>5 DEF l
      <4> QED
        BY <2>1, <2>2, <4>1, OneSetAt
    <3> DEFINE v == u[m]
    <3>4. v \in Seq(PlacedSets) /\ own(m) = Only(v, B) /\ own(j) = Only(Append(v, c), B)
      BY <2>2, <3>2
    <3> HIDE DEF c, B, v, own
    <3>3. Only(Append(v, c), B) = IF c \in B THEN Append(Only(v, B), c) ELSE Only(v, B)
      BY <3>1, <3>4, OnlyAppend
    <3>5. own(j) = IF c \in B THEN Append(own(m), c) ELSE own(m)
      BY <3>3, <3>4
    <3> QED
      BY <3>1, <3>5 DEF c
  <2>6. (\A i \in 1 .. m : ~ IsRun(l, i, j)) => own(j) = own(m)
    <3> SUFFICES ASSUME \A i \in 1 .. m : ~ IsRun(l, i, j) PROVE own(j) = own(m)
      OBVIOUS
    <3>1. \A i \in 1 .. j - 1 : ~ IsRun(LogOf(f), i, j)
      BY <2>1 DEF l
    <3> QED
      BY <2>2, <3>1, NoSetAt
  <2>7. ASSUME NEW i \in 1 .. m PROVE s[i] >= a <=> h <= i
    BY <1>2, <1>3, <1>4
  <2> HIDE DEF own, B
  <2>8. (\A i \in h .. m : ~ IsRun(l, i, j)) => own(j) = own(m)
    <3> SUFFICES ASSUME \A i \in h .. m : ~ IsRun(l, i, j) PROVE own(j) = own(m)
      OBVIOUS
    <3>1. CASE \A i \in 1 .. m : ~ IsRun(l, i, j)
      BY <2>6, <3>1
    <3>2. CASE \E i \in 1 .. m : IsRun(l, i, j)
      <4>1. PICK i \in 1 .. m : IsRun(l, i, j)
        BY <3>2
      <4>2. ~ (h <= i)
        <5>1. i \notin h .. m
          BY <4>1
        <5> QED
          BY <1>3, <5>1
      <4> QED
        BY <2>5, <2>7, <4>1, <4>2
    <3> QED
      BY <3>1, <3>2
  <2>9. CASE j < h
    <3>1. part(j) = << >> /\ part(m) = << >>
      BY <1>2, <1>3, <2>1, <2>9, NoPart
    <3>2. \A i \in h .. m : ~ IsRun(l, i, j)
      BY <1>3, <2>1, <2>9
    <3> QED
      BY <2>3, <2>8, <3>1, <3>2
  <2>10. CASE h <= j
    <3> DEFINE y == part(m)
               z == part(j)
               e == l[j]
    <3>1. h \in Nat \ {0} /\ m \in h - 1 .. Len(l) - 1
      BY <1>2, <1>3, <2>1, <2>10
    <3>2. /\ z = Append(y, e) /\ y \in Seq(Segment) /\ z \in Seq(Segment)
          /\ Len(y) = m - h + 1 /\ Len(z) = m - h + 2
      BY <1>2, <3>1, PartGrows
    <3>3. e \in Segment /\ Len(y) + 1 = Len(z)
      BY <1>2, <1>3, <2>1, <3>2, ElementOfSeq
    <3>4. /\ \A i \in h .. m : IsRun(l, i, j) => Ending(z, Len(z)) = << RunSet(l, i, j) >>
          /\ (\A i \in h .. m : ~ IsRun(l, i, j)) => Ending(z, Len(z)) = << >>
      BY <3>1, EndingOfPart DEF l
    <3> HIDE DEF y, z, e
    <3>5. SetsIn(z) = SetsIn(y) \o Ending(z, Len(z))
      BY <3>2, <3>3, SegmentsLogged, SetsInAppend
    <3>6. Image(own(m), SetOf) \in Seq(Sets)
      BY <2>4, SetOfTyped, ImageProperties DEF IsImage
    <3>7. CASE \A i \in h .. m : ~ IsRun(l, i, j)
      <4>1. SetsIn(z) = SetsIn(y)
        BY <2>3, <3>4, <3>5, <3>6, <3>7, ConcatEmptySeq DEF y
      <4> QED
        BY <2>3, <2>8, <3>7, <4>1 DEF y, z
    <3>8. CASE \E i \in h .. m : IsRun(l, i, j)
      <4>1. PICK i \in h .. m : IsRun(l, i, j)
        BY <3>8
      <4> DEFINE c == SetAt(f, i, j)
                 r == RunSet(l, i, j)
      <4>2. i \in 1 .. m /\ h <= i
        BY <1>3
      <4>3. c \in PlacedSets /\ SetOf[c] = r
        BY <1>6, <4>1, SetOfTyped
      <4>4. own(j) = Append(own(m), c)
        BY <2>5, <2>7, <4>1, <4>2
      <4> HIDE DEF c, r
      <4>5. Image(own(j), SetOf) = Append(Image(own(m), SetOf), r)
        BY <2>4, <4>3, <4>4, SetOfTyped, ImageAppend
      <4>6. SetsIn(z) = SetsIn(y) \o << r >>
        BY <3>4, <3>5, <4>1 DEF r
      <4>7. r \in Sets
        BY <4>3, SetOfTyped
      <4>8. Append(Image(own(m), SetOf), r) = Image(own(m), SetOf) \o << r >>
        BY <3>6, <4>7, AppendIsConcat
      <4> QED
        BY <2>3, <4>5, <4>6, <4>8 DEF y, z
    <3> QED
      BY <3>7, <3>8
  <2>11. h \in Nat
    BY <1>3
  <2> QED
    BY <2>1, <2>9, <2>10, <2>11
<1>9. 0 .. n \subseteq T
  <2> HIDE DEF T
  <2> QED
    BY <1>2, <1>7, <1>8, Upto
<1>10. Image(own(n), SetOf) = SetsIn(part(n))
  <2>1. n \in T
    BY <1>2, <1>9
  <2> QED
    BY <2>1
<1> QED
  BY <1>2, <1>5, <1>10 DEF l

-----------------------------------------------------------------------------
(* Where set_time_range ends.                                               *)

(* The first place at or behind k where a segment begins, or the end.       *)
Nearest(f, k, t) ==
  LET s == SegmentsOf(f)
  IN  /\ t \in k .. Len(f)
      /\ t = Len(f) \/ \E j \in 1 .. Len(s) : s[j] = t
      /\ \A j \in 1 .. Len(s) : ~ (k <= s[j] /\ s[j] < t)

(* In a file whose payloads do not look like headers "PG" is at the heads   *)
(* of the segments, and behind a "P" that is no head comes none.            *)
LEMMA HeadsOf ==
  ASSUME NEW f \in Seq(FileCell), Unambiguous(f)
  PROVE  LET s == SegmentsOf(f)
         IN  /\ \A j \in 1 .. Len(s) : /\ s[j] \in Nat /\ s[j] + 3 <= Len(f)
                                       /\ f[s[j] + 1].byte = "P"
                                       /\ s[j] > 0 => f[s[j]].byte # "P"
             /\ \A i \in 0 .. Len(f) - 2 :
                  f[i + 1].byte = "P" /\ f[i + 2].byte = "G" =>
                    \E j \in 1 .. Len(s) : s[j] = i
             /\ Len(f) = 0 \/ \E j \in 1 .. Len(s) : Behind(f, s[j]) = Len(f)
<1> DEFINE s == SegmentsOf(f)
           H == {s[k] : k \in DOMAIN s}
<1>1. Len(s) \in Nat /\ DOMAIN s = 1 .. Len(s) /\ \A k \in 1 .. Len(s) : s[k] \in Nat /\ Readable(f, s[k])
  BY PlacesTyped
<1>2. /\ Len(f) = 0 \/ \E i \in H : Behind(f, i) = Len(f)
      /\ \A i \in 0 .. Len(f) - 2 : f[i + 1].byte = "P" /\ f[i + 2].byte = "G" => i \in H
      /\ \A i \in H : i > 0 => f[i].byte # "P"
  BY DEF Unambiguous
<1> HIDE DEF s
<1>3. ASSUME NEW j \in 1 .. Len(s)
      PROVE  /\ s[j] \in Nat /\ s[j] + 3 <= Len(f) /\ f[s[j] + 1].byte = "P"
             /\ s[j] > 0 => f[s[j]].byte # "P"
  <2>1. s[j] \in H
    BY <1>1
  <2>2. MagicAt(f, s[j])
    BY <1>1 DEF Readable
  <2> HIDE DEF H
  <2> QED
    BY <1>1, <1>2, <2>1, <2>2 DEF MagicAt, HEADER_SIZE
<1>4. \A i \in H : \E j \in 1 .. Len(s) : s[j] = i
  BY <1>1
<1> HIDE DEF H
<1>5. \A i \in 0 .. Len(f) - 2 :
        f[i + 1].byte = "P" /\ f[i + 2].byte = "G" => \E j \in 1 .. Len(s) : s[j] = i
  BY <1>2, <1>4
<1>6. Len(f) = 0 \/ \E j \in 1 .. Len(s) : Behind(f, s[j]) = Len(f)
  BY <1>2, <1>4
<1> QED
  BY <1>3, <1>5, <1>6 DEF s

(* What the search makes of each place it may begin at.                     *)
IsSearch(u, f) ==
  \A k \in 0 .. Len(f) :
    u[k] = IF k = Len(f) THEN k
           ELSE IF f[k + 1].byte # "P" THEN u[k + 1]
           ELSE IF k + 1 = Len(f) THEN Len(f)
           ELSE IF f[k + 2].byte = "G" THEN k
           ELSE u[k + 2]

LEMMA SearchExists ==
  ASSUME NEW f \in Seq(FileCell)
  PROVE  \E u \in [0 .. Len(f) -> Nat] :
           /\ IsSearch(u, f)
           /\ \A place \in 0 .. Len(f) : ScanToPgMagic(f, place) = u[place]
<1> DEFINE N == Len(f)
           D == Nat
           isP(k) == f[k + 1].byte = "P"
           isG(k) == f[k + 2].byte = "G"
           S == {k \in 0 .. N : k < N /\ (~ isP(k) \/ (k + 1 < N /\ ~ isG(k)))}
           to == [k \in 0 .. N |-> IF isP(k) THEN k + 2 ELSE k + 1]
           a == [k \in 0 .. N |-> IF k + 1 = N THEN N ELSE k]
           g == [y \in D \X S |-> y[1]]
           Is(h) == h = [k \in 0 .. N |->
                          IF k = N THEN k
                          ELSE IF f[k + 1].byte # "P" THEN h[k + 1]
                          ELSE IF k + 1 = N THEN N
                          ELSE IF f[k + 2].byte = "G" THEN k
                          ELSE h[k + 2]]
           u == CHOOSE h : Is(h)
<1>1. N \in Nat /\ \A place \in 0 .. N : ScanToPgMagic(f, place) = u[place]
  BY DEF ScanToPgMagic
<1> HIDE DEF N
<1>2. Jumps(N, D, S, to, a, g)
  <2>1. S \subseteq 0 .. N
    OBVIOUS
  <2>2. \A k \in S : to[k] \in k + 1 .. N
    BY <1>1
  <2>3. \A k \in 0 .. N : k \notin S => a[k] \in D
    BY <1>1
  <2>4. g \in [D \X S -> D]
    <3> HIDE DEF D, S
    <3> QED
      OBVIOUS
  <2> HIDE DEF S, to, a, g, D
  <2> QED
    BY <2>1, <2>2, <2>3, <2>4 DEF Jumps
<1>3. Is(u)
  <2>1. PICK h \in [0 .. N -> D] : IsJumping(h, N, S, to, a, g)
    <3> HIDE DEF N, D, S, to, a, g
    <3> QED
      BY <1>1, <1>2, Jumping
  <2>2. ASSUME NEW k \in 0 .. N
        PROVE  h[k] = IF k = N THEN k
                      ELSE IF f[k + 1].byte # "P" THEN h[k + 1]
                      ELSE IF k + 1 = N THEN N
                      ELSE IF f[k + 2].byte = "G" THEN k
                      ELSE h[k + 2]
    <3>1. CASE k \in S
      <4>1. to[k] \in 0 .. N
        BY <1>1, <3>1
      <4>2. h[to[k]] \in D
        BY <4>1
      <4>3. h[k] = g[<< h[to[k]], k >>]
        BY <2>1, <3>1 DEF IsJumping
      <4>4. g[<< h[to[k]], k >>] = h[to[k]]
        <5> HIDE DEF D, S, to
        <5> QED
          BY <3>1, <4>2
      <4>5. /\ to[k] = IF isP(k) THEN k + 2 ELSE k + 1
            /\ k < N /\ (isP(k) => k + 1 # N /\ ~ isG(k))
        BY <1>1, <3>1
      <4>6. h[k] = h[to[k]]
        BY <4>3, <4>4
      <4> HIDE DEF g, to, S
      <4> QED
        BY <1>1, <4>5, <4>6
    <3>2. CASE k \notin S
      <4>1. h[k] = a[k]
        BY <2>1, <3>2 DEF IsJumping
      <4> QED
        BY <1>1, <3>2, <4>1
    <3> QED
      BY <3>1, <3>2
  <2>3. Is(h)
    <3>1. h = [k \in 0 .. N |-> h[k]]
      BY <2>1
    <3> QED
      BY <2>2, <3>1
  <2> HIDE DEF Is
  <2> QED
    BY <2>3
<1>4. \A k \in 0 .. N : u[k] = IF k = N THEN k
                               ELSE IF ~ isP(k) THEN u[k + 1]
                               ELSE IF k + 1 = N THEN N
                               ELSE IF isG(k) THEN k
                               ELSE u[k + 2]
  <2> HIDE DEF u
  <2> QED
    BY <1>3
<1> HIDE DEF u, Is, to, g, a
<1> DEFINE T == {k \in 0 .. N : u[k] \in D}
<1>5. ASSUME NEW k \in 0 .. N, \A m \in k + 1 .. N : m \in T PROVE k \in T
  <2>1. CASE k < N /\ ~ isP(k)
    <3>1. u[k] = u[k + 1] /\ u[k + 1] \in D
      BY <1>1, <1>4, <1>5, <2>1
    <3> QED
      BY <3>1
  <2>2. CASE k + 1 < N /\ isP(k) /\ ~ isG(k)
    <3>1. u[k] = u[k + 2] /\ u[k + 2] \in D
      BY <1>1, <1>4, <1>5, <2>2
    <3> QED
      BY <3>1
  <2>3. CASE k = N \/ (isP(k) /\ (k + 1 = N \/ isG(k)))
    <3>1. u[k] = k \/ u[k] = N
      BY <1>4, <2>3
    <3> QED
      BY <1>1, <3>1
  <2> HIDE DEF T, isP, isG
  <2> QED
    BY <1>1, <2>1, <2>2, <2>3
<1>6. 0 .. N \subseteq T
  <2> HIDE DEF T
  <2> QED
    BY <1>1, <1>5, Downto
<1>7. u = [k \in 0 .. N |-> u[k]]
  <2>1. \E e : u = [k \in 0 .. N |-> e[k]]
    BY <1>3 DEF Is
  <2> QED
    BY <2>1
<1>8. u \in [0 .. N -> D]
  <2>1. \A k \in 0 .. N : u[k] \in D
    BY <1>6
  <2> HIDE DEF N, D
  <2> QED
    BY <1>7, <2>1
<1>9. IsSearch(u, f)
  BY <1>4 DEF IsSearch, N
<1> QED
  BY <1>1, <1>8, <1>9 DEF N

LEMMA ScanFindsNearest ==
  ASSUME NEW f \in Seq(FileCell), Unambiguous(f), NEW place \in 0 .. Len(f)
  PROVE  Nearest(f, place, ScanToPgMagic(f, place))
<1> DEFINE s == SegmentsOf(f)
           n == Len(s)
           N == Len(f)
           isP(k) == f[k + 1].byte = "P"
           isG(k) == f[k + 2].byte = "G"
<1>1. N \in Nat
  OBVIOUS
<1>2. PICK u \in [0 .. N -> Nat] :
        IsSearch(u, f) /\ \A k \in 0 .. N : ScanToPgMagic(f, k) = u[k]
  BY SearchExists
<1>3. ScanToPgMagic(f, place) = u[place]
  BY <1>2
<1> HIDE DEF N
<1>4. \A k \in 0 .. N : u[k] = IF k = N THEN k
                               ELSE IF ~ isP(k) THEN u[k + 1]
                               ELSE IF k + 1 = N THEN N
                               ELSE IF isG(k) THEN k
                               ELSE u[k + 2]
  BY <1>2 DEF IsSearch, N, isP, isG
<1>5. /\ n \in Nat
      /\ \A j \in 1 .. n : s[j] \in Nat /\ s[j] + 3 <= N /\ isP(s[j])
      /\ \A j \in 1 .. n : s[j] > 0 => f[s[j]].byte # "P"
      /\ \A i \in 0 .. N - 2 : isP(i) /\ isG(i) => \E j \in 1 .. n : s[j] = i
  BY PlacesTyped, HeadsOf DEF N
<1>10. ASSUME NEW j \in 1 .. n PROVE ~ isP(s[j] - 1) \/ s[j] = 0
  <2>1. s[j] \in Nat /\ (s[j] > 0 => f[s[j]].byte # "P")
    BY <1>5
  <2>2. (s[j] - 1) + 1 = s[j]
    BY <2>1
  <2>3. isP(s[j] - 1) <=> f[s[j]].byte = "P"
    BY <2>2
  <2> HIDE DEF isP
  <2> QED
    BY <2>1, <2>3
<1> HIDE DEF s, n, isP, isG
<1>6. \A k \in 0 .. N - 1 : isP(k) => \A j \in 1 .. n : s[j] # k + 1
  <2> SUFFICES ASSUME NEW k \in 0 .. N - 1, isP(k), NEW j \in 1 .. n, s[j] = k + 1
               PROVE  FALSE
    OBVIOUS
  <2>1. s[j] - 1 = k /\ s[j] # 0
    BY <1>1
  <2> QED
    BY <1>10, <2>1
<1> DEFINE near(k, t) == /\ t \in k .. N
                         /\ t = N \/ \E j \in 1 .. n : s[j] = t
                         /\ \A j \in 1 .. n : ~ (k <= s[j] /\ s[j] < t)
           T == {k \in 0 .. N : near(k, u[k])}
<1>7. ASSUME NEW k \in 0 .. N, \A m \in k + 1 .. N : m \in T PROVE k \in T
  <2> SUFFICES near(k, u[k])
    OBVIOUS
  <2>1. CASE k = N
    <3>1. u[k] = N
      BY <1>4, <2>1
    <3> QED
      BY <1>1, <1>5, <2>1, <3>1
  <2>2. CASE k < N /\ ~ isP(k)
    <3>1. u[k] = u[k + 1] /\ near(k + 1, u[k + 1])
      BY <1>1, <1>4, <1>7, <2>2
    <3>2. \A j \in 1 .. n : s[j] # k
      BY <1>5, <2>2
    <3>3. \A j \in 1 .. n : s[j] \in Nat
      BY <1>5
    <3> QED
      BY <1>1, <3>1, <3>2, <3>3
  <2>3. CASE isP(k) /\ k + 1 = N
    <3>1. u[k] = N
      BY <1>1, <1>4, <2>3
    <3>2. \A j \in 1 .. n : ~ (k <= s[j])
      BY <1>1, <1>5, <2>3
    <3> QED
      BY <1>1, <2>3, <3>1, <3>2
  <2>4. CASE isP(k) /\ isG(k) /\ k + 1 < N
    <3>1. u[k] = k
      BY <1>1, <1>4, <2>4
    <3>2. \E j \in 1 .. n : s[j] = k
      BY <1>1, <1>5, <2>4
    <3>3. \A j \in 1 .. n : s[j] \in Nat
      BY <1>5
    <3> QED
      BY <1>1, <2>4, <3>1, <3>2, <3>3
  <2>5. CASE isP(k) /\ ~ isG(k) /\ k + 1 < N
    <3>1. u[k] = u[k + 2] /\ near(k + 2, u[k + 2])
      BY <1>1, <1>4, <1>7, <2>5
    <3>2. \A j \in 1 .. n : s[j] # k + 1
      BY <1>1, <1>6, <2>5
    <3>3. \A j \in 1 .. n : s[j] # k
      <4> SUFFICES ASSUME NEW j \in 1 .. n, s[j] = k PROVE FALSE
        OBVIOUS
      <4>1. Readable(f, s[j])
        BY PlacesTyped DEF s, n
      <4> QED
        BY <2>5, <4>1 DEF Readable, MagicAt, isP, isG
    <3>4. \A j \in 1 .. n : s[j] \in Nat
      BY <1>5
    <3> DEFINE t == u[k + 2]
    <3>5. t \in k + 2 .. N /\ u[k] = t
      BY <3>1
    <3> HIDE DEF t
    <3>6. \A j \in 1 .. n : ~ (k <= s[j] /\ s[j] < t)
      <4> SUFFICES ASSUME NEW j \in 1 .. n PROVE ~ (k <= s[j] /\ s[j] < t)
        OBVIOUS
      <4>1. ~ (k + 2 <= s[j] /\ s[j] < t)
        BY <3>1 DEF t
      <4> QED
        BY <3>2, <3>3, <3>4, <3>5, <4>1
    <3>7. t = N \/ \E j \in 1 .. n : s[j] = t
      BY <3>1 DEF t
    <3> QED
      BY <1>1, <3>5, <3>6, <3>7
  <2> HIDE DEF near
  <2> QED
    BY <1>1, <2>1, <2>2, <2>3, <2>4, <2>5
<1>8. 0 .. N \subseteq T
  <2> HIDE DEF T
  <2> QED
    BY <1>1, <1>7, Downto
<1>9. near(place, u[place])
  <2>1. place \in 0 .. N
    BY DEF N
  <2> HIDE DEF near
  <2> QED
    BY <1>8, <2>1
<1> QED
  BY <1>3, <1>9 DEF Nearest, s, n, N

(* Landed: the search ends at the segment number h.                         *)
LEMMA ScanLands ==
  ASSUME NEW f \in Seq(FileCell), Unambiguous(f), NEW place \in 0 .. Len(f),
         NEW h, Landed(f, h, place)
  PROVE  LET s == SegmentsOf(f)
         IN  ScanToPgMagic(f, place) = IF h <= Len(s) THEN s[h] ELSE Len(f)
<1> DEFINE s == SegmentsOf(f)
           n == Len(s)
           t == ScanToPgMagic(f, place)
<1>1. /\ t \in place .. Len(f)
      /\ t = Len(f) \/ \E j \in 1 .. n : s[j] = t
      /\ \A j \in 1 .. n : ~ (place <= s[j] /\ s[j] < t)
  BY ScanFindsNearest DEF Nearest
<1>2. /\ n \in Nat /\ \A j \in 1 .. n : s[j] \in Nat /\ s[j] + 3 <= Len(f)
  BY PlacesTyped, HeadsOf
<1>3. h \in 1 .. n + 1 /\ \A k \in 1 .. n : k < h <=> s[k] < place
  BY DEF Landed
<1>4. \A j, k \in 1 .. n : j < k => s[j] < s[k]
  <2> SUFFICES ASSUME NEW j \in 1 .. n, NEW k \in 1 .. n, j < k PROVE s[j] < s[k]
    OBVIOUS
  <2>1. /\ s[j] + 3 <= Place(f, 0, s, j) /\ Place(f, 0, s, j) <= s[k]
        /\ Place(f, 0, s, j) \in Nat
    <3>1. j \in 0 .. n
      OBVIOUS
    <3> QED
      BY <3>1, PlacesAscend
  <2> QED
    BY <1>2, <2>1
<1> HIDE DEF s, n, t
<1>5. CASE h <= n
  <2>1. h \in 1 .. n /\ place <= s[h]
    BY <1>2, <1>3, <1>5
  <2>2. s[h] >= t
    BY <1>1, <1>2, <2>1
  <2>3. t # Len(f)
    BY <1>2, <2>1, <2>2
  <2>4. PICK j \in 1 .. n : s[j] = t
    BY <1>1, <2>3
  <2>5. ~ (j < h)
    BY <1>1, <1>3, <2>4
  <2>6. j = h
    BY <1>2, <1>4, <2>1, <2>2, <2>4, <2>5
  <2> QED
    BY <1>5, <2>4, <2>6 DEF s, n, t
<1>6. CASE ~ (h <= n)
  <2>1. \A k \in 1 .. n : s[k] < place
    BY <1>2, <1>3, <1>6
  <2>2. t = Len(f)
    BY <1>1, <1>2, <2>1
  <2> QED
    BY <1>6, <2>2 DEF s, n, t
<1> QED
  BY <1>5, <1>6

(* A file has pts, so the last of them is an Option of one.                 *)
LEMMA LastPtsTyped ==
  ASSUME NEW f \in Seq(FileCell)
  PROVE  FindLastPts(f) \in SUBSET Nat
<1> DEFINE N == Len(f)
           D == SUBSET Nat
           S == {k \in 0 .. N : k + 3 <= N}
           to == [k \in 0 .. N |->
                    IF MagicAt(f, k) THEN Least(Behind(f, k), N) ELSE k + 1]
           a == [k \in 0 .. N |-> {}]
           pick(later, k) == IF MagicAt(f, k) /\ later = {} THEN {Fields(f, k).pts} ELSE later
           g == [y \in D \X S |-> pick(y[1], y[2])]
           Is(h) == h = [k \in 0 .. N |->
                          IF k + 3 > N THEN {}
                          ELSE IF MagicAt(f, k)
                               THEN LET later == h[Least(Behind(f, k), N)]
                                    IN  IF later # {} THEN later ELSE {Fields(f, k).pts}
                               ELSE h[k + 1]]
           u == CHOOSE h : Is(h)
<1>1. N \in Nat /\ FindLastPts(f) = u[0]
  BY DEF FindLastPts, HEADER_SIZE
<1>2. \A k \in S : Fields(f, k) \in FileCell
  <2> SUFFICES ASSUME NEW k \in S PROVE Fields(f, k) \in FileCell
    OBVIOUS
  <2>1. k + 3 \in 1 .. Len(f)
    BY <1>1
  <2> QED
    BY <2>1 DEF Fields, HEADER_SIZE
<1> HIDE DEF N
<1>3. \A k \in S : to[k] \in k + 1 .. N /\ to[k] \in 0 .. N
  <2> SUFFICES ASSUME NEW k \in S PROVE to[k] \in k + 1 .. N
    BY <1>1
  <2>1. Fields(f, k).len \in Nat
    BY <1>2 DEF FileCell
  <2>2. Behind(f, k) = k + 3 + Fields(f, k).len
    BY DEF Behind, HEADER_SIZE
  <2>3. Behind(f, k) \in Nat /\ Behind(f, k) > k /\ k < N
    BY <1>1, <2>1, <2>2
  <2>4. Least(Behind(f, k), N) \in k + 1 .. N
    BY <1>1, <2>3 DEF Least
  <2> QED
    BY <1>1, <2>3, <2>4
<1>4. \A y \in D, k \in S : pick(y, k) \in D /\ g[<< y, k >>] = pick(y, k)
  <2> SUFFICES ASSUME NEW y \in D, NEW k \in S
               PROVE  pick(y, k) \in D /\ g[<< y, k >>] = pick(y, k)
    OBVIOUS
  <2>1. Fields(f, k).pts \in Nat
    BY <1>2 DEF FileCell
  <2>2. pick(y, k) \in D
    BY <2>1
  <2>3. << y, k >> \in D \X S
    OBVIOUS
  <2> HIDE DEF D, S, pick
  <2> QED
    BY <2>2, <2>3
<1>5. Jumps(N, D, S, to, a, g)
  <2>1. S \subseteq 0 .. N /\ \A k \in 0 .. N : a[k] \in D
    OBVIOUS
  <2>2. g \in [D \X S -> D]
    <3> HIDE DEF D, S, pick
    <3> QED
      BY <1>4
  <2> HIDE DEF S, to, a, g, D
  <2> QED
    BY <1>3, <2>1, <2>2 DEF Jumps
<1>6. Is(u)
  <2>1. PICK h \in [0 .. N -> D] : IsJumping(h, N, S, to, a, g)
    <3> HIDE DEF N, D, S, to, a, g
    <3> QED
      BY <1>1, <1>5, Jumping
  <2>2. ASSUME NEW k \in 0 .. N
        PROVE  h[k] = IF k + 3 > N THEN {}
                      ELSE IF MagicAt(f, k)
                           THEN LET later == h[Least(Behind(f, k), N)]
                                IN  IF later # {} THEN later ELSE {Fields(f, k).pts}
                           ELSE h[k + 1]
    <3>1. CASE k \in S
      <4>1. h[to[k]] \in D
        BY <1>3, <3>1
      <4>2. h[k] = g[<< h[to[k]], k >>]
        BY <2>1, <3>1 DEF IsJumping
      <4>3. h[k] = pick(h[to[k]], k)
        <5> HIDE DEF D, S, to, g, pick
        <5> QED
          BY <1>4, <3>1, <4>1, <4>2
      <4>4. /\ to[k] = IF MagicAt(f, k) THEN Least(Behind(f, k), N) ELSE k + 1
            /\ ~ (k + 3 > N)
        BY <1>1, <3>1
      <4> HIDE DEF to, S
      <4> QED
        BY <4>3, <4>4
    <3>2. CASE k \notin S
      <4>1. h[k] = a[k]
        BY <2>1, <3>2 DEF IsJumping
      <4>2. a[k] = {} /\ k + 3 > N
        BY <1>1, <3>2
      <4> QED
        BY <4>1, <4>2
    <3> QED
      BY <3>1, <3>2
  <2>3. Is(h)
    <3>1. h = [k \in 0 .. N |-> h[k]]
      BY <2>1
    <3> QED
      BY <2>2, <3>1
  <2> HIDE DEF Is
  <2> QED
    BY <2>3
<1>7. \A k \in 0 .. N : u[k] = IF k + 3 > N THEN {} ELSE pick(u[to[k]], k)
  <2>1. \A k \in 0 .. N : u[k] = IF k + 3 > N THEN {}
                      ELSE IF MagicAt(f, k)
                           THEN LET later == u[Least(Behind(f, k), N)]
                                IN  IF later # {} THEN later ELSE {Fields(f, k).pts}
                           ELSE u[k + 1]
    <3> HIDE DEF u
    <3> QED
      BY <1>6
  <2> HIDE DEF u
  <2> QED
    BY <2>1
<1> HIDE DEF u, Is, to, g, a, pick
<1> DEFINE T == {k \in 0 .. N : u[k] \in D}
<1>8. ASSUME NEW k \in 0 .. N, \A m \in k + 1 .. N : m \in T PROVE k \in T
  <2>1. CASE k \in S
    <3>1. u[to[k]] \in D
      BY <1>3, <1>8, <2>1
    <3>2. u[k] = pick(u[to[k]], k)
      BY <1>1, <1>7, <2>1
    <3> QED
      BY <1>4, <2>1, <3>1, <3>2
  <2>2. CASE k \notin S
    <3>1. u[k] = {}
      BY <1>1, <1>7, <2>2
    <3> QED
      BY <3>1
  <2> QED
    BY <2>1, <2>2
<1>9. 0 .. N \subseteq T
  <2> HIDE DEF T
  <2> QED
    BY <1>1, <1>8, Downto
<1>10. u[0] \in D
  <2>1. 0 \in T
    BY <1>1, <1>9
  <2> QED
    BY <2>1
<1> QED
  BY <1>1, <1>10

LEMMA DivTyped ==
  ASSUME NEW a \in Nat, NEW b \in Nat \ {0}
  PROVE  a \div b \in Nat
OBVIOUS

LEMMA EstimateTyped ==
  ASSUME NEW f \in Seq(FileCell), NEW ms \in Nat
  PROVE  Estimate(f, ms) \in SUBSET Nat
<1> DEFINE tail == SubSeq(f, Minus(Len(f), TailCells) + 1, Len(f))
           margin == Least(MarginCap, Len(f) \div MarginPart)
           first == Fields(f, 0).pts
           to(d) == Minus((Len(f) * ms * TicksPerMs) \div d, margin)
<1>1. CASE ~ MagicAt(f, 0)
  BY <1>1 DEF Estimate
<1>2. CASE MagicAt(f, 0)
  <2>1. Len(f) \in Nat /\ TailCells \in Nat /\ MarginCap \in Nat
        /\ MarginPart \in Nat \ {0} /\ TicksPerMs \in Nat
    BY SizesAssumption, PositiveAssumption
  <2>2. tail \in Seq(FileCell)
    <3> DEFINE q == Minus(Len(f), TailCells)
               b == Len(f)
    <3>1. q \in 0 .. b /\ b \in q .. b
      BY <2>1 DEF Minus
    <3> HIDE DEF q, b
    <3>2. SubSeq(f, q + 1, b) \in Seq(FileCell)
      <4>1. b = Len(f)
        BY DEF b
      <4> QED
        BY <3>1, <4>1, Slices
    <3> QED
      BY <3>2 DEF q, b
  <2>3. FindLastPts(tail) \in SUBSET Nat
    <3> HIDE DEF tail
    <3> QED
      BY <2>2, LastPtsTyped
  <2>4. margin \in Nat
    <3>1. Len(f) \div MarginPart \in Nat
      BY <2>1, DivTyped
    <3> QED
      BY <2>1, <3>1 DEF Least
  <2>5. first \in Nat
    <3>1. 3 \in 1 .. Len(f)
      BY <1>2, <2>1 DEF MagicAt, HEADER_SIZE
    <3>2. Fields(f, 0) \in FileCell
      BY <3>1 DEF Fields, HEADER_SIZE
    <3> QED
      BY <3>2 DEF FileCell
  <2>6. Len(f) * ms * TicksPerMs \in Nat
    <3>1. Len(f) * ms \in Nat
      BY <2>1
    <3> DEFINE x == Len(f) * ms
    <3> HIDE DEF x
    <3>2. x \in Nat => x * TicksPerMs \in Nat
      BY <2>1
    <3> QED
      BY <3>1, <3>2 DEF x
  <2>7. Estimate(f, ms) = {to(l - first) : l \in {k \in FindLastPts(tail) : k > first}}
    BY <1>2 DEF Estimate
  <2> DEFINE x == Len(f) * ms * TicksPerMs
  <2> HIDE DEF margin, first, x
  <2>8. ASSUME NEW l \in Nat, l > first PROVE to(l - first) \in Nat
    <3>1. l - first \in Nat \ {0}
      BY <2>5, <2>8
    <3>2. x \div (l - first) \in Nat
      BY <2>6, <3>1, DivTyped DEF x
    <3> DEFINE y == x \div (l - first)
    <3> HIDE DEF y
    <3>3. Minus(y, margin) \in Nat
      BY <2>4, <3>2 DEF Minus, y
    <3> QED
      BY <3>3 DEF y, x
  <2> HIDE DEF to, tail
  <2> QED
    BY <2>3, <2>7, <2>8
<1> QED
  BY <1>1, <1>2

LEMMA ScanTyped ==
  ASSUME NEW f \in Seq(FileCell), NEW place \in Nat
  PROVE  ScanToPgMagic(f, place) \in Nat
<1>1. Len(f) \in Nat
  OBVIOUS
<1>2. CASE place > Len(f)
  <2>1. ScanToPgMagic(f, place) = place
    BY <1>2 DEF ScanToPgMagic
  <2> QED
    BY <2>1
<1>3. CASE ~ (place > Len(f))
  <2>1. PICK u \in [0 .. Len(f) -> Nat] :
          \A k \in 0 .. Len(f) : ScanToPgMagic(f, k) = u[k]
    BY SearchExists
  <2>2. place \in 0 .. Len(f)
    BY <1>1, <1>3
  <2> QED
    BY <2>1, <2>2
<1> QED
  BY <1>2, <1>3

(* The segments from number h on, up to j.                                  *)
Stretch(f, h, j) == SubSeq(LogOf(f), h, j)

LEMMA StretchSets ==
  ASSUME NEW f \in Seq(FileCell), NEW h \in Nat \ {0}, NEW m \in h - 1 .. Len(SegmentsOf(f))
  PROVE  Stretch(f, h, m) \in Seq(Segment) /\ SetsIn(Stretch(f, h, m)) \in Seq(Sets)
<1> DEFINE l == LogOf(f)
<1>1. l \in Seq(Segment) /\ Len(l) = Len(SegmentsOf(f)) /\ Len(l) \in Nat
  BY SegmentsLog, PlacesTyped
<1> HIDE DEF l
<1>2. SubSeq(l, h, m) \in Seq(Segment)
  <2> DEFINE q == h - 1
  <2>1. q \in 0 .. Len(l) /\ m \in q .. Len(l) /\ h = q + 1
    BY <1>1
  <2> HIDE DEF q
  <2> QED
    BY <1>1, <2>1, Slices
<1> DEFINE y == SubSeq(l, h, m)
<1>3. y = Stretch(f, h, m)
  BY DEF Stretch, l
<1> HIDE DEF y
<1>7. y \in Seq(Segment) /\ Len(y) \in Nat
  BY <1>2 DEF y
<1>4. PICK e \in [0 .. Len(y) -> Seq(Sets)] : SetsIn(y) = e[Len(y)]
  BY <1>7, SetsExist, SegmentsLogged DEF Sets
<1>5. Len(y) \in 0 .. Len(y)
  BY <1>7
<1>6. SetsIn(y) \in Seq(Sets)
  BY <1>4, <1>5
<1> QED
  BY <1>2, <1>3, <1>6 DEF y

(* One segment more.                                                        *)
LEMMA StretchNext ==
  ASSUME NEW f \in Seq(FileCell), NEW h \in Nat \ {0},
         NEW m \in h - 1 .. Len(SegmentsOf(f)) - 1
  PROVE  LET y == Stretch(f, h, m)
             e == SegmentAt(f, SegmentsOf(f)[m + 1])
         IN  /\ Stretch(f, h, m + 1) = Append(y, e)
             /\ y \in Seq(Segment) /\ e \in Segment
             /\ SetsIn(Stretch(f, h, m + 1)) = SetsIn(y) \o Ending(Append(y, e), Len(y) + 1)
<1> DEFINE l == LogOf(f)
           y == Stretch(f, h, m)
           e == SegmentAt(f, SegmentsOf(f)[m + 1])
<1>1. /\ l \in Seq(Segment) /\ Len(l) = Len(SegmentsOf(f)) /\ Len(l) \in Nat
      /\ \A k \in 1 .. Len(l) : l[k] = SegmentAt(f, SegmentsOf(f)[k])
  BY SegmentsLog, PlacesTyped
<1>2. m \in h - 1 .. Len(l) - 1 /\ m + 1 \in 1 .. Len(l)
  BY <1>1
<1>3. l[m + 1] = e /\ l[m + 1] \in Segment
  BY <1>1, <1>2, ElementOfSeq
<1>4. Stretch(f, h, m + 1) = Append(y, l[m + 1]) /\ y \in Seq(Segment)
  <2> HIDE DEF l
  <2> QED
    BY <1>1, <1>2, PartGrows DEF l, Stretch
<1> HIDE DEF l, y, e
<1>5. SetsIn(Append(y, e)) = SetsIn(y) \o Ending(Append(y, e), Len(y) + 1)
  BY <1>3, <1>4, SegmentsLogged, SetsInAppend
<1> QED
  BY <1>3, <1>4, <1>5 DEF y, e

LEMMA SetsRegroup == \A s, t, u \in Seq(Sets) : (s \o t) \o u = s \o (t \o u)
BY ConcatAssociative

(* The display sets of a part are the first of those of the whole.          *)
LEMMA StretchGrows ==
  ASSUME NEW f \in Seq(FileCell), NEW h \in Nat \ {0}, NEW m \in h - 1 .. Len(SegmentsOf(f))
  PROVE  \E r \in Seq(Sets) :
           SetsIn(Stretch(f, h, Len(SegmentsOf(f)))) = SetsIn(Stretch(f, h, m)) \o r
<1> DEFINE n == Len(SegmentsOf(f))
           N == n - m
           a == SetsIn(Stretch(f, h, m))
           T == {k \in 0 .. N : \E r \in Seq(Sets) : SetsIn(Stretch(f, h, m + k)) = a \o r}
<1>1. n \in Nat /\ m \in Nat /\ N \in Nat /\ m <= n
  BY PlacesTyped
<1>2. a \in Seq(Sets)
  BY StretchSets
<1> HIDE DEF n
<1>3. 0 \in T
  <2> DEFINE r == << >>
  <2>1. m + 0 = m /\ r \in Seq(Sets)
    BY <1>1
  <2> HIDE DEF a
  <2>2. a \o r = a
    BY <1>2, ConcatEmptySeq
  <2>3. SetsIn(Stretch(f, h, m + 0)) = a \o r
    BY <2>1, <2>2 DEF a
  <2>4. 0 \in 0 .. N
    BY <1>1
  <2> HIDE DEF r, N
  <2> QED
    BY <2>1, <2>3, <2>4
<1>4. ASSUME NEW k \in 0 .. N - 1, k \in T PROVE k + 1 \in T
  <2> DEFINE q == m + k
             y == Stretch(f, h, q)
             e == SegmentAt(f, SegmentsOf(f)[q + 1])
             d == Ending(Append(y, e), Len(y) + 1)
  <2>1. q \in h - 1 .. n - 1 /\ q + 1 = m + (k + 1) /\ k + 1 \in 0 .. N
    BY <1>1
  <2>2. PICK r \in Seq(Sets) : SetsIn(y) = a \o r
    BY <1>4
  <2> HIDE DEF q, e
  <2>3. /\ SetsIn(Stretch(f, h, q + 1)) = SetsIn(y) \o d
        /\ y \in Seq(Segment) /\ e \in Segment
    BY <2>1, StretchNext DEF n, e
  <2>4. d \in Seq(Sets)
    <3> DEFINE z == Append(y, e)
               p == Len(y) + 1
    <3> HIDE DEF y
    <3>1. z \in Seq(Segment) /\ p \in 1 .. Len(z)
      BY <2>3, AppendProperties
    <3> HIDE DEF z, p
    <3>2. Ending(z, p) \in Seq(Sets)
      BY <3>1, EndingTyped, SegmentsLogged DEF Sets
    <3> QED
      BY <3>2 DEF z, p
  <2> HIDE DEF y, d, a
  <2>5. (a \o r) \o d = a \o (r \o d)
    BY <1>2, <2>2, <2>4, SetsRegroup
  <2>7. r \o d \in Seq(Sets)
    BY <2>2, <2>4, ConcatProperties
  <2>6. SetsIn(Stretch(f, h, m + (k + 1))) = a \o (r \o d)
    BY <2>1, <2>2, <2>3, <2>5
  <2> HIDE DEF N
  <2> QED
    BY <2>1, <2>6, <2>7
<1>5. 0 .. N \subseteq T
  <2> HIDE DEF T, N
  <2> QED
    BY <1>1, <1>3, <1>4, Upto
<1>6. N \in T /\ m + N = n
  <2>1. N \in 0 .. N /\ m + N = n
    BY <1>1
  <2> HIDE DEF N, T
  <2> QED
    BY <1>5, <2>1
<1>7. \E r \in Seq(Sets) : SetsIn(Stretch(f, h, m + N)) = a \o r
  <2> HIDE DEF a, N
  <2> QED
    BY <1>6
<1> QED
  BY <1>6, <1>7 DEF n

LEMMA FirstPart ==
  ASSUME NEW X, NEW a \in Seq(X), NEW r \in Seq(X)
  PROVE  Len(a) <= Len(a \o r) /\ a = SubSeq(a \o r, 1, Len(a))
<1> DEFINE s == a \o r
           b == SubSeq(s, 1, Len(a))
<1>1. /\ s \in Seq(X) /\ Len(s) = Len(a) + Len(r) /\ Len(a) \in Nat /\ Len(r) \in Nat
      /\ \A k \in 1 .. Len(a) : s[k] = a[k]
  BY ConcatProperties
<1> HIDE DEF s
<1>2. Len(a) \in 0 .. Len(s)
  BY <1>1
<1>3. b \in Seq(X) /\ Len(b) = Len(a) /\ \A k \in 1 .. Len(a) : b[k] = s[k]
  BY <1>1, <1>2, Prefix
<1> HIDE DEF b
<1>4. a = b
  <2>1. DOMAIN a = 1 .. Len(a) /\ DOMAIN b = 1 .. Len(a)
    BY <1>3
  <2> QED
    BY <1>1, <1>3, <2>1, SeqEqual
<1> QED
  BY <1>1, <1>4 DEF s, b

(* SetsFrom over the content of the file.                                   *)
LEMMA SetsFromIs ==
  ASSUME content \in Seq(PlacedSets), NEW a \in Nat
  PROVE  SetsFrom(a) = Image(Only(content, Behindwards(a)), SetOf)
<1> DEFINE C == {c \in Members(content) : c.begin >= a}
           o == Only(content, C)
           p == Only(content, Behindwards(a))
<1>1. \A k \in DOMAIN content : content[k] \in PlacedSets /\ content[k] \in Members(content)
  BY DEF Members
<1>2. \A k \in DOMAIN content : content[k] \in C <=> content[k] \in Behindwards(a)
  BY <1>1 DEF Behindwards
<1> HIDE DEF C
<1>3. o = p
  BY <1>2, OnlySame
<1>4. o \in Seq(PlacedSets)
  BY OnlyTyped
<1> HIDE DEF o, p
<1>5. \A k \in DOMAIN o : o[k].set = SetOf[o[k]]
  <2>1. \A k \in DOMAIN o : o[k] \in PlacedSets
    BY <1>4
  <2> QED
    BY <2>1, SetOfTyped
<1>6. SetsFrom(a) = [k \in DOMAIN o |-> o[k].set]
  BY DEF SetsFrom, o, C
<1>7. Image(o, SetOf) = [k \in DOMAIN o |-> SetOf[o[k]]]
  BY DEF Image
<1> QED
  BY <1>3, <1>5, <1>6, <1>7 DEF p

-----------------------------------------------------------------------------
(* The invariant.                                                           *)

TypeInv ==
  /\ file \in Seq(FileCell) /\ content = ContentOf(file) /\ start \in SUBSET Nat
  /\ at \in Nat /\ aim \in Nat
  /\ asm \in Assemblers(Segment, Nat, States) /\ yielded \in Seq(Sets)

(* What set_time_range finds, and what it leaves.                           *)
OpenInv ==
  /\ ~ opened => at \in 0 .. Len(file) /\ asm = AsmNew /\ yielded = << >>
                  /\ result = "more" /\ aim = at /\ strayed = (at # 0)
  /\ FromBeginning => ~ strayed
  /\ result = "end" => at >= Len(file)

(* The reader is in front of segment number j, or cannot read on.           *)
IsAt(h, j) ==
  \/ at = Place(file, 0, SegmentsOf(file), j - 1)
  \/ j = h /\ strayed /\ at < Len(file) /\ ~ Readable(file, at)
  \/ ~ FromBeginning /\ j = h /\ h = Len(SegmentsOf(file)) + 1 /\ at >= Len(file)

(* The segments from number h on, the first behind the place aimed at, have *)
(* been pushed up to the number j.                                          *)
ReadTo(h, j) ==
  /\ h \in 1 .. Len(SegmentsOf(file)) + 1 /\ j \in h .. Len(SegmentsOf(file)) + 1
  /\ Landed(file, h, aim)
  /\ IsAt(h, j)
  /\ Holds(asm, Stretch(file, h, j - 1))
  /\ yielded = SetsIn(Stretch(file, h, j - 1))

IsKnown == FromBeginning \/ Unambiguous(file)
ReadInv == opened /\ IsKnown => \E h, j \in Nat : ReadTo(h, j)

SupInv == TypeInv /\ OpenInv /\ ReadInv

LEMMA SupInit == Init => SupInv
<1> SUFFICES ASSUME Init PROVE SupInv
  OBVIOUS
<1>1. file \in Seq(FileCell) /\ start \in SUBSET Nat /\ content = ContentOf(file)
  BY FilesAssumption, StartsAssumption DEF Init
<1>2. << >> \in Seq(Sets)
  OBVIOUS
<1>6. at \in 0 .. Len(file) /\ Len(file) \in Nat
  <2>1. Len(file) \in Nat
    BY <1>1
  <2>2. Least(ProbeCells, Len(file)) \in 0 .. Len(file)
    BY <2>1, SizesAssumption DEF Least
  <2>3. at \in DetectLeaves(file)
    BY DEF Init
  <2> QED
    BY <2>1, <2>2, <2>3 DEF DetectLeaves
<1>3. TypeInv
  BY <1>1, <1>2, <1>6, SegmentsLogged DEF TypeInv, Init
<1>4. OpenInv
  BY <1>6 DEF OpenInv, Init, FromBeginning
<1>5. ReadInv
  BY DEF ReadInv, Init
<1> QED
  BY <1>3, <1>4, <1>5 DEF SupInv

(* Nothing is read yet.                                                     *)
LEMMA ReadNothing ==
  ASSUME NEW f \in Seq(FileCell), NEW h \in Nat \ {0}
  PROVE  /\ SetsIn(Stretch(f, h, h - 1)) = << >>
         /\ Holds(AsmNew, Stretch(f, h, h - 1))
<1> DEFINE e == << >>
<1>1. LogOf(f) \in Seq(Segment)
  BY SegmentsLog
<1>2. Stretch(f, h, h - 1) = e
  <2> DEFINE l == LogOf(f)
             m == h - 1
  <2>1. m \in Nat /\ m < h /\ h \in Nat
    OBVIOUS
  <2> HIDE DEF l, m, e
  <2>2. SubSeq(l, h, m) = << >>
    BY <1>1, <2>1, NoPart DEF l
  <2> QED
    BY <2>2 DEF Stretch, l, m, e
<1>3. SetsIn(e) = e
  BY SetsInEmpty
<1>4. Holds(AsmNew, e)
  <2>1. Len(e) = 0
    OBVIOUS
  <2> HIDE DEF e
  <2> QED
    BY <2>1 DEF Holds, AsmNew
<1> HIDE DEF e
<1> QED
  BY <1>2, <1>3, <1>4 DEF e

(* A place at which a segment can be read is that of a segment.             *)
LEMMA ReadableIsPlace ==
  ASSUME NEW f \in Seq(FileCell), Unambiguous(f), NEW i \in Nat, Readable(f, i),
         NEW h, Landed(f, h, i)
  PROVE  h <= Len(SegmentsOf(f)) /\ i = SegmentsOf(f)[h]
<1> DEFINE s == SegmentsOf(f)
           n == Len(s)
<1>1. i + 3 <= Len(f) /\ f[i + 1].byte = "P" /\ f[i + 2].byte = "G"
  BY DEF Readable, MagicAt, HEADER_SIZE
<1>2. i \in 0 .. Len(f) - 2
  BY <1>1
<1>3. PICK k \in 1 .. n : s[k] = i
  BY <1>1, <1>2, HeadsOf
<1>4. n \in Nat /\ h \in 1 .. n + 1 /\ \A j \in 1 .. n : j < h <=> s[j] < i
  BY PlacesTyped DEF Landed
<1>5. h <= k
  BY <1>3, <1>4
<1>6. h \in 1 .. n /\ ~ (s[h] < i)
  BY <1>3, <1>4, <1>5
<1>7. h = k
  <2> SUFFICES ASSUME h < k PROVE FALSE
    BY <1>4, <1>5
  <2>1. /\ s[h] + 3 <= Place(f, 0, s, h) /\ Place(f, 0, s, h) <= s[k]
        /\ Place(f, 0, s, h) \in Nat /\ s[h] \in Nat
    <3>1. h \in 0 .. n
      BY <1>6
    <3> QED
      BY <1>3, <1>6, <3>1, PlacesAscend
  <2> QED
    BY <1>3, <1>6, <2>1
<1> QED
  BY <1>3, <1>6, <1>7

(* The search from a place ends in front of the first segment behind it, or *)
(* at or behind the end of the file.                                        *)
LEMMA SearchIsAt ==
  ASSUME NEW f \in Seq(FileCell), Unambiguous(f), NEW place \in Nat,
         NEW h, Landed(f, h, place)
  PROVE  LET s == SegmentsOf(f)
         IN  \/ ScanToPgMagic(f, place) = Place(f, 0, s, h - 1)
             \/ h = Len(s) + 1 /\ ScanToPgMagic(f, place) >= Len(f)
<1> DEFINE s == SegmentsOf(f)
           n == Len(s)
<1>1. /\ n \in Nat /\ h \in 1 .. n + 1 /\ Len(f) \in Nat
      /\ \A j \in 1 .. n : j < h <=> s[j] < place
  BY PlacesTyped DEF Landed
<1>2. \A j \in 1 .. n : s[j] \in Nat /\ s[j] + 3 <= Len(f)
  BY HeadsOf
<1>3. CASE place > Len(f)
  <2>1. ScanToPgMagic(f, place) = place
    BY <1>3 DEF ScanToPgMagic
  <2>2. ~ (h <= n)
    BY <1>1, <1>2, <1>3
  <2> QED
    BY <1>1, <1>3, <2>1, <2>2
<1>4. CASE ~ (place > Len(f))
  <2>1. place \in 0 .. Len(f)
    BY <1>1, <1>4
  <2>2. ScanToPgMagic(f, place) = IF h <= n THEN s[h] ELSE Len(f)
    BY <2>1, ScanLands
  <2>3. CASE h <= n
    <3>1. h \in 1 .. n
      BY <1>1, <2>3
    <3>2. s[h] = Place(f, 0, s, h - 1)
      BY <3>1, PlacesAscend
    <3> QED
      BY <2>2, <2>3, <3>2
  <2>4. CASE ~ (h <= n)
    BY <1>1, <2>2, <2>4
  <2> QED
    BY <2>3, <2>4
<1> QED
  BY <1>3, <1>4

(* A reader left anywhere in the file, where nothing has been read yet.     *)
LEMMA LeftAnywhere ==
  ASSUME SupInv, ~ opened, Unambiguous(file), UNCHANGED << config, asm, yielded >>,
         at' \in 0 .. Len(file), aim' = at', strayed', ~ FromBeginning'
  PROVE  \E h \in Nat : ReadTo(h, h)'
<1> USE DEF SupInv
<1> DEFINE n == Len(SegmentsOf(file))
<1>1. /\ file' = file /\ start' = start /\ content' = content
      /\ asm' = asm /\ yielded' = yielded
  BY DEF config
<1>2. /\ file \in Seq(FileCell) /\ Len(file) \in Nat /\ n \in Nat
      /\ asm = AsmNew /\ yielded = << >> /\ at' \in Nat
  BY PlacesTyped DEF TypeInv, OpenInv
<1>3. PICK h \in 1 .. n + 1 : Landed(file, h, at')
  BY <1>2, LandingExists
<1>4. IsAt(h, h)'
  <2>1. CASE Readable(file, at')
    <3>1. h \in 1 .. n /\ at' = SegmentsOf(file)[h]
      <4>1. h <= n /\ at' = SegmentsOf(file)[h]
        BY <1>2, <1>3, <2>1, ReadableIsPlace
      <4> QED
        BY <1>2, <1>3, <4>1
    <3>2. at' = Place(file, 0, SegmentsOf(file), h - 1)
      BY <1>2, <3>1, PlacesAscend
    <3> QED
      BY <1>1, <3>2 DEF IsAt
  <2>2. CASE ~ Readable(file, at') /\ at' < Len(file)
    BY <1>1, <2>2 DEF IsAt
  <2>3. CASE at' >= Len(file)
    <3>1. \A k \in 1 .. n : /\ SegmentsOf(file)[k] \in Nat
                            /\ SegmentsOf(file)[k] + 3 <= Len(file)
      BY <1>2, HeadsOf
    <3>2. \A k \in 1 .. n : k < h
      BY <1>2, <1>3, <2>3, <3>1 DEF Landed
    <3>3. h = n + 1
      BY <1>2, <1>3, <3>2
    <3> QED
      BY <1>1, <2>3, <3>3 DEF IsAt
  <2> QED
    BY <1>2, <2>1, <2>2, <2>3
<1>5. /\ asm' = AsmNew /\ yielded' = << >> /\ Landed(file', h, aim')
      /\ h \in 1 .. Len(SegmentsOf(file')) + 1
  BY <1>1, <1>2, <1>3
<1>6. /\ SetsIn(Stretch(file, h, h - 1)) = << >>
      /\ Holds(AsmNew, Stretch(file, h, h - 1))
  BY <1>2, ReadNothing
<1>7. h \in h .. Len(SegmentsOf(file')) + 1
  BY <1>1, <1>2
<1>8. ReadTo(h, h)'
  BY <1>1, <1>4, <1>5, <1>6, <1>7 DEF ReadTo
<1> QED
  BY <1>2, <1>8

LEMMA SetTimeRangeKeeps == SupInv /\ SetTimeRange => SupInv'
<1> SUFFICES ASSUME SupInv, SetTimeRange PROVE SupInv'
  OBVIOUS
<1> USE DEF SupInv
<1> DEFINE to == UNION {Estimate(file, ms) : ms \in start}
           n == Len(SegmentsOf(file))
<1>1. /\ ~ opened /\ opened' = TRUE
      /\ file' = file /\ start' = start /\ content' = content
      /\ asm' = asm /\ yielded' = yielded /\ result' = result
  BY DEF SetTimeRange, config
<1>2. /\ file \in Seq(FileCell) /\ start \in SUBSET Nat
      /\ at \in 0 .. Len(file) /\ asm = AsmNew /\ yielded = << >> /\ result = "more"
      /\ aim = at /\ strayed = (at # 0) /\ Len(file) \in Nat
  BY <1>1 DEF TypeInv, OpenInv
<1>3. to \in SUBSET Nat
  <2>1. \A ms \in start : Estimate(file, ms) \in SUBSET Nat
    BY <1>2, EstimateTyped
  <2> QED
    BY <2>1
<1>4. n \in Nat
  BY <1>2, PlacesTyped
<1>5. CASE at' = 0 /\ aim' = 0 /\ ~ strayed'
  <2>1. TypeInv'
    BY <1>1, <1>5 DEF TypeInv
  <2>2. OpenInv'
    BY <1>1, <1>2, <1>5 DEF OpenInv
  <2>3. Landed(file, 1, 0)
    <3>1. \A k \in 1 .. n : SegmentsOf(file)[k] \in Nat
      BY <1>2, PlacesTyped
    <3> QED
      BY <1>4, <3>1 DEF Landed
  <2>4. IsAt(1, 1)'
    <3>1. Place(file, 0, SegmentsOf(file), 1 - 1) = 0
      BY DEF Place
    <3> QED
      BY <1>1, <1>2, <1>5, <3>1 DEF IsAt
  <2>5. 1 \in 1 .. n + 1
    BY <1>4
  <2>6. ReadTo(1, 1)'
    <3>1. /\ asm' = AsmNew /\ yielded' = << >> /\ Landed(file', 1, aim')
          /\ 1 \in 1 .. Len(SegmentsOf(file')) + 1
      BY <1>1, <1>2, <1>5, <2>3, <2>5
    <3>2. /\ SetsIn(Stretch(file, 1, 1 - 1)) = << >>
          /\ Holds(AsmNew, Stretch(file, 1, 1 - 1))
      BY <1>2, ReadNothing
    <3>3. 1 \in 1 .. Len(SegmentsOf(file')) + 1
      BY <1>1, <2>5
    <3> QED
      BY <1>1, <2>4, <3>1, <3>2, <3>3 DEF ReadTo
  <2> QED
    BY <2>1, <2>2, <2>6 DEF ReadInv
<1>7. CASE start = {} /\ UNCHANGED << at, aim, strayed >> /\ at # 0
  <2>1. TypeInv'
    BY <1>1, <1>7 DEF TypeInv
  <2>2. ~ FromBeginning'
    BY <1>2, <1>7 DEF FromBeginning
  <2>3. OpenInv'
    BY <1>1, <1>2, <2>2 DEF OpenInv
  <2>4. ASSUME Unambiguous(file) PROVE \E h \in Nat : ReadTo(h, h)'
    <3>1. UNCHANGED << config, asm, yielded >>
      BY <1>1 DEF config
    <3>2. at' \in 0 .. Len(file) /\ aim' = at' /\ strayed'
      BY <1>2, <1>7
    <3> QED
      BY <1>1, <2>2, <2>4, <3>1, <3>2, LeftAnywhere
  <2>5. ReadInv'
    BY <1>1, <2>2, <2>4 DEF ReadInv, IsKnown
  <2> QED
    BY <2>1, <2>3, <2>5
<1>6. CASE \E place \in to : /\ at' = ScanToPgMagic(file, place)
                            /\ aim' = place /\ ~ strayed'
  <2>1. PICK place \in to : at' = ScanToPgMagic(file, place) /\ aim' = place /\ ~ strayed'
    BY <1>6
  <2>2. place \in Nat /\ start # {}
    BY <1>3
  <2>7. ~ FromBeginning'
    BY <1>1, <2>2 DEF FromBeginning
  <2>3. TypeInv'
    <3>1. at' \in Nat
      BY <1>2, <2>1, <2>2, ScanTyped
    <3> QED
      BY <1>1, <2>1, <2>2, <3>1 DEF TypeInv
  <2>4. OpenInv'
    BY <1>1, <1>2, <2>7 DEF OpenInv
  <2>5. ASSUME Unambiguous(file) PROVE \E h \in Nat : ReadTo(h, h)'
    <3>1. PICK h \in 1 .. n + 1 : Landed(file, h, place)
      BY <1>2, <2>2, LandingExists
    <3>2. \/ at' = Place(file, 0, SegmentsOf(file), h - 1)
          \/ h = n + 1 /\ at' >= Len(file)
      BY <1>2, <2>1, <2>2, <2>5, <3>1, SearchIsAt
    <3>3. IsAt(h, h)'
      BY <1>1, <2>7, <3>2 DEF IsAt
    <3>4. /\ asm' = AsmNew /\ yielded' = << >> /\ Landed(file', h, aim')
          /\ h \in 1 .. Len(SegmentsOf(file')) + 1
      BY <1>1, <1>2, <2>1, <3>1
    <3>6. /\ SetsIn(Stretch(file, h, h - 1)) = << >>
          /\ Holds(AsmNew, Stretch(file, h, h - 1))
      BY <1>2, <1>4, ReadNothing
    <3>7. h \in h .. Len(SegmentsOf(file')) + 1
      BY <1>1, <1>4
    <3>5. ReadTo(h, h)'
      BY <1>1, <3>3, <3>4, <3>6, <3>7 DEF ReadTo
    <3> QED
      BY <1>4, <3>5
  <2>6. ReadInv'
    BY <1>1, <2>5, <2>7 DEF ReadInv, IsKnown
  <2> QED
    BY <2>3, <2>4, <2>6
<1>8. start = {} /\ UNCHANGED << at, aim, strayed >> /\ at = 0 =>
        at' = 0 /\ aim' = 0 /\ ~ strayed'
  BY <1>2
<1> QED
  BY <1>5, <1>6, <1>7, <1>8 DEF SetTimeRange

LEMMA SetTimeRangeFailsKeeps == SupInv /\ SetTimeRangeFails => SupInv'
<1> SUFFICES ASSUME SupInv, SetTimeRangeFails PROVE SupInv'
  OBVIOUS
<1> USE DEF SupInv
<1> DEFINE n == Len(SegmentsOf(file))
<1>1. /\ ~ opened /\ opened' = TRUE /\ start # {}
      /\ at' \in 0 .. Len(file) /\ aim' = at' /\ strayed' = TRUE
      /\ file' = file /\ start' = start /\ content' = content
      /\ asm' = asm /\ yielded' = yielded /\ result' = result
  BY DEF SetTimeRangeFails, config
<1>2. /\ file \in Seq(FileCell) /\ Len(file) \in Nat /\ n \in Nat
      /\ asm = AsmNew /\ yielded = << >> /\ result = "more" /\ at' \in Nat
  BY <1>1, PlacesTyped DEF TypeInv, OpenInv
<1>7. ~ FromBeginning'
  BY <1>1 DEF FromBeginning
<1>3. TypeInv'
  BY <1>1, <1>2 DEF TypeInv
<1>4. OpenInv'
  BY <1>1, <1>2, <1>7 DEF OpenInv
<1>5. ASSUME Unambiguous(file) PROVE \E h \in Nat : ReadTo(h, h)'
  <2>1. UNCHANGED << config, asm, yielded >>
    BY <1>1 DEF config
  <2> QED
    BY <1>1, <1>5, <1>7, <2>1, LeftAnywhere
<1>6. ReadInv'
  BY <1>1, <1>5, <1>7 DEF ReadInv, IsKnown
<1> QED
  BY <1>3, <1>4, <1>6

LEMMA ReadSegmentKeeps == SupInv /\ ReadSegment => SupInv'
<1> SUFFICES ASSUME SupInv, ReadSegment PROVE SupInv'
  OBVIOUS
<1> USE DEF SupInv
<1> DEFINE s == SegmentsOf(file)
           n == Len(s)
           e == SegmentAt(file, at)
<1>1. /\ opened /\ opened' = opened /\ result = "more" /\ result' = result
      /\ Readable(file, at) /\ at' = Behind(file, at)
      /\ aim' = aim /\ strayed' = strayed
      /\ file' = file /\ start' = start /\ content' = content
  BY DEF ReadSegment, Reading, config
<1>2. asm' = AsmPush(asm, e) /\ yielded' = yielded \o AsmOut(asm, e)
  BY DEF ReadSegment
<1>3. /\ file \in Seq(FileCell) /\ at \in Nat /\ n \in Nat
      /\ asm \in Assemblers(Segment, Nat, States) /\ yielded \in Seq(Sets)
  BY PlacesTyped DEF TypeInv
<1>4. /\ at + 3 <= Len(file) /\ at' \in at + 3 .. Len(file) /\ e \in Segment
  BY <1>1, <1>3, ReadableIs
<1>5. TypeInv'
  <2> HIDE DEF e
  <2>1. /\ asm' \in Assemblers(Segment, Nat, States)
        /\ AsmOut(asm, e) \in Seq(Sets)
    BY <1>2, <1>3, <1>4, SegmentsLogged, AsmPushTyped DEF Sets
  <2>2. yielded' \in Seq(Sets)
    BY <1>2, <1>3, <2>1, ConcatProperties
  <2>3. at' \in Nat
    BY <1>3, <1>4
  <2> QED
    BY <1>1, <2>1, <2>2, <2>3 DEF TypeInv
<1>6. OpenInv'
  BY <1>1 DEF OpenInv, FromBeginning
<1>7. ASSUME IsKnown PROVE \E h, j \in Nat : ReadTo(h, j)'
  <2>1. PICK h \in Nat, j \in Nat : ReadTo(h, j)
    BY <1>1, <1>7 DEF ReadInv
  <2>2. /\ h \in 1 .. n + 1 /\ j \in h .. n + 1 /\ Landed(file, h, aim)
        /\ Holds(asm, Stretch(file, h, j - 1))
        /\ yielded = SetsIn(Stretch(file, h, j - 1))
    BY <2>1 DEF ReadTo
  <2>3. at = Place(file, 0, s, j - 1)
    <3>1. ~ (at >= Len(file))
      BY <1>3, <1>4
    <3> QED
      BY <1>1, <2>1, <3>1 DEF ReadTo, IsAt
  <2>4. j \in 1 .. n
    <3>1. j # n + 1
      <4>1. ~ Readable(file, Place(file, 0, s, n))
        BY <1>3, PlacesAscend
      <4>2. j = n + 1 => j - 1 = n
        BY <1>3
      <4> QED
        BY <1>1, <2>3, <4>1, <4>2
    <3> QED
      BY <1>3, <2>2, <3>1
  <2>5. at = s[j] /\ at' = Place(file, 0, s, j)
    <3>1. s[j] = Place(file, 0, s, j - 1)
      BY <1>3, <2>4, PlacesAscend
    <3>2. Place(file, 0, s, j) = Behind(file, s[j])
      BY <2>4 DEF Place
    <3> QED
      BY <1>1, <2>3, <3>1, <3>2
  <2> DEFINE m == j - 1
             y == Stretch(file, h, m)
  <2>6. /\ Stretch(file, h, j) = Append(y, e) /\ y \in Seq(Segment)
        /\ SetsIn(Stretch(file, h, j)) = SetsIn(y) \o Ending(Append(y, e), Len(y) + 1)
    <3>1. h \in Nat \ {0} /\ m \in h - 1 .. n - 1 /\ m + 1 = j
      BY <1>3, <2>2, <2>4
    <3> HIDE DEF m
    <3>2. e = SegmentAt(file, s[m + 1])
      BY <2>5, <3>1
    <3> QED
      BY <1>3, <3>1, <3>2, StretchNext
  <2> HIDE DEF e, y
  <2>7. /\ Holds(AsmPush(asm, e), Append(y, e))
        /\ AsmOut(asm, e) = Ending(Append(y, e), Len(y) + 1)
    BY <1>3, <1>4, <2>2, <2>6, SegmentsLogged, HoldsPush DEF y
  <2>8. /\ Holds(asm, y) /\ yielded = SetsIn(y)
    BY <2>2 DEF y
  <2>9. /\ asm' = AsmPush(asm, e) /\ yielded' = SetsIn(Stretch(file, h, j))
        /\ Holds(asm', Stretch(file, h, j))
    BY <1>2, <2>6, <2>7, <2>8
  <2>10. j + 1 \in h .. n + 1 /\ j + 1 \in Nat /\ (j + 1) - 1 = j
    BY <1>3, <2>2, <2>4
  <2>11. IsAt(h, j + 1)'
    BY <1>1, <2>5, <2>10 DEF IsAt
  <2>12. ReadTo(h, j + 1)'
    BY <1>1, <2>2, <2>9, <2>10, <2>11 DEF ReadTo
  <2> QED
    BY <2>10, <2>12
<1>8. ReadInv'
  BY <1>1, <1>7 DEF ReadInv, IsKnown, FromBeginning
<1> QED
  BY <1>5, <1>6, <1>8

LEMMA StopKeeps ==
  ASSUME SupInv, opened, NEW how, Stop(how), how = "end" => at >= Len(file)
  PROVE  SupInv'
<1>1. /\ opened' = opened /\ at' = at /\ asm' = asm /\ yielded' = yielded
      /\ aim' = aim /\ strayed' = strayed /\ result' = how
      /\ file' = file /\ start' = start /\ content' = content
  BY DEF Stop, config
<1>2. TypeInv'
  BY <1>1 DEF SupInv, TypeInv
<1>3. OpenInv'
  BY <1>1 DEF SupInv, OpenInv, FromBeginning
<1>4. ReadInv'
  <2>1. ASSUME IsKnown PROVE \E h, j \in Nat : ReadTo(h, j)'
    <3>1. PICK h \in Nat, j \in Nat : ReadTo(h, j)
      BY <2>1 DEF SupInv, ReadInv
    <3>2. ReadTo(h, j)'
      BY <1>1, <3>1 DEF ReadTo, IsAt, FromBeginning
    <3> QED
      BY <3>2
  <2> QED
    BY <1>1, <2>1 DEF ReadInv, IsKnown, FromBeginning
<1> QED
  BY <1>2, <1>3, <1>4 DEF SupInv

LEMMA SupNext == SupInv /\ [Next]_vars => SupInv'
<1> SUFFICES ASSUME SupInv, [Next]_vars PROVE SupInv'
  OBVIOUS
<1>1. CASE SetTimeRange
  BY <1>1, SetTimeRangeKeeps
<1>2. CASE SetTimeRangeFails
  BY <1>2, SetTimeRangeFailsKeeps
<1>3. CASE ReadSegment
  BY <1>3, ReadSegmentKeeps
<1>4. CASE CleanEnd
  BY <1>4, StopKeeps DEF CleanEnd, Reading
<1>5. CASE Malformed
  BY <1>5, StopKeeps DEF Malformed, Reading
<1>6. CASE ReadFails
  BY <1>6, StopKeeps DEF ReadFails, Reading
<1>7. CASE UNCHANGED vars
  <2>1. /\ opened' = opened /\ at' = at /\ asm' = asm /\ yielded' = yielded
        /\ aim' = aim /\ strayed' = strayed /\ result' = result
        /\ file' = file /\ start' = start /\ content' = content
    BY <1>7 DEF vars, config
  <2>2. TypeInv'
    BY <2>1 DEF SupInv, TypeInv
  <2>3. OpenInv'
    BY <2>1 DEF SupInv, OpenInv, FromBeginning
  <2>4. ReadInv'
    <3>1. ASSUME opened, IsKnown PROVE \E h, j \in Nat : ReadTo(h, j)'
      <4>1. PICK h \in Nat, j \in Nat : ReadTo(h, j)
        BY <3>1 DEF SupInv, ReadInv
      <4>2. ReadTo(h, j)'
        BY <2>1, <4>1 DEF ReadTo, IsAt, FromBeginning
      <4> QED
        BY <4>2
    <3> QED
      BY <2>1, <3>1 DEF ReadInv, IsKnown, FromBeginning
  <2> QED
    BY <2>2, <2>3, <2>4 DEF SupInv
<1> QED
  BY <1>1, <1>2, <1>3, <1>4, <1>5, <1>6, <1>7 DEF Next

(* What is handed out of what is found from the place aimed at.             *)
LEMMA ReadIsExpected ==
  ASSUME SupInv, NEW h \in Nat, NEW j \in Nat, ReadTo(h, j)
  PROVE  LET expected == SetsFrom(aim)
         IN  /\ expected \in Seq(Sets)
             /\ Len(yielded) <= Len(expected)
             /\ yielded = SubSeq(expected, 1, Len(yielded))
             /\ j = Len(SegmentsOf(file)) + 1 => yielded = expected
<1> USE DEF SupInv
<1> DEFINE n == Len(SegmentsOf(file))
           expected == SetsFrom(aim)
           m == j - 1
<1>1. /\ file \in Seq(FileCell) /\ aim \in Nat /\ content = ContentOf(file)
      /\ yielded \in Seq(Sets) /\ n \in Nat
  BY PlacesTyped DEF TypeInv
<1>2. /\ h \in 1 .. n + 1 /\ j \in h .. n + 1 /\ Landed(file, h, aim)
      /\ yielded = SetsIn(Stretch(file, h, m))
  BY DEF ReadTo
<1>3. h \in Nat \ {0} /\ m \in h - 1 .. n
  BY <1>1, <1>2
<1>4. expected = SetsIn(Stretch(file, h, n))
  <2>1. content \in Seq(PlacedSets)
    BY <1>1, ContentTyped
  <2>2. expected = Image(Only(ContentOf(file), Behindwards(aim)), SetOf)
    BY <1>1, <2>1, SetsFromIs
  <2>3. Image(Only(ContentOf(file), Behindwards(aim)), SetOf)
          = SetsIn(SubSeq(LogOf(file), h, Len(LogOf(file))))
    BY <1>1, <1>2, SetsBehind
  <2>4. Len(LogOf(file)) = n
    BY <1>1, SegmentsLog
  <2> QED
    BY <2>2, <2>3, <2>4 DEF Stretch
<1> HIDE DEF expected, m
<1>5. PICK r \in Seq(Sets) : expected = yielded \o r
  BY <1>1, <1>2, <1>3, <1>4, StretchGrows
<1>6. expected \in Seq(Sets)
  BY <1>1, <1>5, ConcatProperties
<1>7. Len(yielded) <= Len(expected) /\ yielded = SubSeq(expected, 1, Len(yielded))
  BY <1>1, <1>5, FirstPart
<1>8. j = n + 1 => yielded = expected
  <2>1. j = n + 1 => m = n
    BY <1>1 DEF m
  <2> QED
    BY <1>2, <1>4, <2>1
<1> QED
  BY <1>6, <1>7, <1>8 DEF expected

LEMMA SupInvYieldsFromAim == SupInv => YieldsFromAim
<1> SUFFICES ASSUME SupInv, opened, Unambiguous(file) PROVE YieldsFromAim
  BY DEF YieldsFromAim
<1> DEFINE s == SegmentsOf(file)
           n == Len(s)
<1>1. /\ file \in Seq(FileCell) /\ at \in Nat /\ n \in Nat /\ Len(file) \in Nat
      /\ result = "end" => at >= Len(file)
  BY PlacesTyped DEF SupInv, TypeInv, OpenInv
<1>2. PICK h \in Nat, j \in Nat : ReadTo(h, j)
  BY DEF SupInv, ReadInv, IsKnown
<1>3. h \in 1 .. n + 1 /\ j \in h .. n + 1 /\ IsAt(h, j)
  BY <1>2 DEF ReadTo
<1>4. \A k \in 1 .. n : /\ s[k] \in Nat /\ Readable(file, s[k])
                        /\ s[k] + 3 <= Len(file) /\ s[k] = Place(file, 0, s, k - 1)
  BY <1>1, PlacesAscend, HeadsOf
<1>5. Place(file, 0, s, n) >= Len(file)
  <2>1. Place(file, 0, s, n) \in Nat
    <3>1. n \in 0 .. n
      BY <1>1
    <3> QED
      BY <1>1, <3>1, PlacesAscend
  <2>2. CASE Len(file) = 0
    BY <2>1, <2>2
  <2>3. CASE Len(file) # 0
    <3>1. PICK k \in 1 .. n : Behind(file, s[k]) = Len(file)
      BY <1>1, <2>3, HeadsOf
    <3>2. Place(file, 0, s, k) = Behind(file, s[k])
      BY <3>1 DEF Place
    <3>3. Place(file, 0, s, k) <= Place(file, 0, s, n)
      BY <1>1, <3>1, PlacesAscend
    <3> QED
      BY <1>1, <2>1, <3>1, <3>2, <3>3
  <2> QED
    BY <2>2, <2>3
<1>6. CASE at = Place(file, 0, s, j - 1) /\ j \in 1 .. n
  <2>1. at = s[j]
    BY <1>4, <1>6
  <2>2. Readable(file, at) /\ at < Len(file)
    BY <1>1, <1>4, <1>6, <2>1
  <2>3. result # "end"
    BY <1>1, <2>2
  <2> QED
    BY <1>2, <2>2, <2>3, ReadIsExpected DEF YieldsFromAim
<1>7. CASE strayed /\ at < Len(file)
  <2>1. result # "end"
    BY <1>1, <1>7
  <2> QED
    BY <1>2, <1>7, <2>1, ReadIsExpected DEF YieldsFromAim
<1>8. CASE j = n + 1 /\ at >= Len(file)
  BY <1>2, <1>8, ReadIsExpected DEF YieldsFromAim
<1>9. CASE at = Place(file, 0, s, j - 1) /\ j = n + 1
  <2>1. j - 1 = n
    BY <1>1, <1>9
  <2> QED
    BY <1>5, <1>8, <1>9, <2>1
<1>10. j \in 1 .. n \/ j = n + 1
  BY <1>1, <1>3
<1> QED
  BY <1>3, <1>6, <1>7, <1>8, <1>9, <1>10 DEF IsAt

(* What is handed out are the display sets that begin where set_time_range  *)
(* began to search, or where the detection of the format or a failure left  *)
(* the reader, or behind that place, and at the end all of them.            *)
THEOREM YieldsWhatIsBehind == Spec => []YieldsFromAim
BY SupInit, SupNext, SupInvYieldsFromAim, PTL DEF Spec

-----------------------------------------------------------------------------
(* The stream of the Extractor.                                             *)

(* Read from the beginning, what is handed out is the beginning of the      *)
(* content, and all of it where the iterator may end.                       *)
Handed ==
  FromBeginning =>
    LET sets == SetsFrom(0)
    IN  /\ sets \in Seq(Sets)
        /\ Len(yielded) <= Len(sets) /\ yielded = SubSeq(sets, 1, Len(yielded))
        /\ opened /\ at >= Len(file) => yielded = sets

LEMMA SetsFromTyped ==
  ASSUME NEW f \in Seq(FileCell), content = ContentOf(f)
  PROVE  /\ SetsFrom(0) \in Seq(Sets)
         /\ SetsFrom(0) = SetsOf(f)
<1> DEFINE B == Behindwards(0)
<1>1. content \in Seq(PlacedSets)
  BY ContentTyped
<1>2. B = PlacedSets
  <2>1. \A c \in PlacedSets : c.begin \in Nat
    BY DEF PlacedSets
  <2>2. \A c \in PlacedSets : c.begin >= 0
    BY <2>1
  <2> QED
    BY <2>2 DEF Behindwards
<1> HIDE DEF B
<1>3. Only(content, B) = content
  BY <1>1, <1>2, OnlyAll
<1>4. SetsFrom(0) = Image(content, SetOf)
  <2>1. SetsFrom(0) = Image(Only(content, Behindwards(0)), SetOf)
    BY <1>1, SetsFromIs
  <2> QED
    BY <1>3, <2>1 DEF B
<1>5. Image(content, SetOf) \in Seq(Sets)
  BY <1>1, SetOfTyped, ImageProperties DEF IsImage
<1>6. \A k \in DOMAIN content : SetOf[content[k]] = content[k].set
  <2>1. \A k \in DOMAIN content : content[k] \in PlacedSets
    BY <1>1
  <2> QED
    BY <2>1, SetOfTyped
<1>7. SetsOf(f) = Image(content, SetOf)
  BY <1>6 DEF SetsOf, Image
<1> QED
  BY <1>4, <1>5, <1>7

LEMMA SupInvHanded == SupInv => Handed
<1> SUFFICES ASSUME SupInv, FromBeginning PROVE Handed
  BY DEF Handed
<1> DEFINE s == SegmentsOf(file)
           n == Len(s)
           sets == SetsFrom(0)
<1>1. /\ file \in Seq(FileCell) /\ at \in Nat /\ n \in Nat /\ Len(file) \in Nat
      /\ content = ContentOf(file) /\ aim = 0 /\ ~ strayed
      /\ ~ opened => yielded = << >>
  BY PlacesTyped DEF SupInv, TypeInv, OpenInv, FromBeginning
<1>2. sets \in Seq(Sets)
  BY <1>1, SetsFromTyped
<1>3. CASE ~ opened
  <2> HIDE DEF sets
  <2>1. yielded = << >> /\ Len(sets) \in Nat
    BY <1>1, <1>2, <1>3
  <2>2. Len(yielded) = 0
    BY <2>1
  <2>3. SubSeq(sets, 1, 0) = << >>
    BY <1>2, NoPart
  <2> QED
    BY <1>2, <1>3, <2>1, <2>2, <2>3 DEF Handed, sets
<1>4. CASE opened
  <2>1. PICK h \in Nat, j \in Nat : ReadTo(h, j)
    BY <1>4 DEF SupInv, ReadInv, IsKnown
  <2>2. h \in 1 .. n + 1 /\ j \in h .. n + 1 /\ IsAt(h, j)
    BY <2>1 DEF ReadTo
  <2>3. at >= Len(file) => j = n + 1
    <3> SUFFICES ASSUME at >= Len(file), j # n + 1 PROVE FALSE
      OBVIOUS
    <3>1. at = Place(file, 0, s, j - 1)
      BY <1>1, <2>2 DEF IsAt
    <3>2. j \in 1 .. n
      BY <1>1, <2>2
    <3>3. s[j] = at /\ Readable(file, at)
      BY <1>1, <3>1, <3>2, PlacesAscend
    <3>4. at + 3 <= Len(file)
      BY <1>1, <3>3, ReadableIs
    <3> QED
      BY <1>1, <3>4
  <2>4. /\ Len(yielded) <= Len(sets) /\ yielded = SubSeq(sets, 1, Len(yielded))
        /\ j = n + 1 => yielded = sets
    BY <1>1, <2>1, ReadIsExpected
  <2> HIDE DEF sets
  <2> QED
    BY <1>2, <2>3, <2>4 DEF Handed, sets
<1> QED
  BY <1>3, <1>4

(* What is left of a sequence whose beginning was taken.                    *)
LEMMA RestIs ==
  ASSUME NEW X, NEW s \in Seq(X), NEW y \in Seq(X), NEW e \in X,
         Len(y) + 1 <= Len(s), y = SubSeq(s, 1, Len(y)),
         Append(y, e) = SubSeq(s, 1, Len(y) + 1)
  PROVE  LET r == SubSeq(s, Len(y) + 1, Len(s))
         IN  r # << >> /\ Head(r) = e /\ Tail(r) = SubSeq(s, Len(y) + 2, Len(s))
<1> DEFINE k == Len(y)
           r == SubSeq(s, k + 1, Len(s))
<1>1. k \in Nat /\ Len(s) \in Nat /\ k + 1 <= Len(s)
  OBVIOUS
<1>2. s[k + 1] = e
  <2>1. SubSeq(s, 1, k + 1)[k + 1] = s[k + 1]
    BY <1>1, Prefix
  <2>2. Append(y, e)[k + 1] = e
    OBVIOUS
  <2> QED
    BY <2>1, <2>2
<1> HIDE DEF k
<1>3. /\ r # << >>
      /\ Head(r) = s[k + 1] /\ Tail(r) = SubSeq(s, k + 1 + 1, Len(s))
  <2> DEFINE m == k + 1
             b == Len(s)
  <2>1. m \in 1 .. Len(s) /\ b \in m .. Len(s)
    BY <1>1
  <2>2. Len(SubSeq(s, m, b)) = b - m + 1 /\ b - m + 1 # 0
    BY <1>1
  <2>3. SubSeq(s, m, b) # << >>
    BY <2>2
  <2> HIDE DEF m, b
  <2>4. Head(SubSeq(s, m, b)) = s[m] /\ Tail(SubSeq(s, m, b)) = SubSeq(s, m + 1, b)
    BY <2>1, HeadTailOfSubSeq
  <2> QED
    BY <2>3, <2>4 DEF m, b
<1>4. k + 1 + 1 = k + 2
  BY <1>1
<1> QED
  BY <1>2, <1>3, <1>4 DEF k
-----------------------------------------------------------------------------
LEMMA StreamInit == Init => Stream!Init
<1> SUFFICES ASSUME Init PROVE Stream!Init
  OBVIOUS
<1> DEFINE sets == SetsFrom(0)
           e == << >>
<1>1. /\ file \in Files /\ file \in Seq(FileCell) /\ content = ContentOf(file)
      /\ yielded = e /\ result = "more"
  BY FilesAssumption DEF Init
<1>2. sets \in Seq(Sets) /\ sets = SetsOf(file)
  BY <1>1, SetsFromTyped
<1>3. Given = << >>
  <2>1. DOMAIN yielded = {}
    BY <1>1
  <2>2. [k \in DOMAIN yielded |-> << 0, yielded[k] >>] = << >>
    BY <2>1
  <2> QED
    BY <2>2 DEF Given
<1>4. CASE FromBeginning
  <2>1. Left = [t \in {0} |-> SubSeq(sets, Len(yielded) + 1, Len(sets))]
    BY <1>4 DEF Left
  <2> HIDE DEF sets
  <2>2. SubSeq(sets, Len(yielded) + 1, Len(sets)) = sets
    <3>1. Len(yielded) + 1 = 1
      BY <1>1
    <3>2. SubSeq(sets, 1, Len(sets)) = sets
      BY <1>2, SubSeqFull
    <3> QED
      BY <3>1, <3>2
  <2>3. Left = [t \in {0} |-> SetsOf(file)]
    BY <1>2, <2>1, <2>2
  <2> QED
    BY <1>1, <1>3, <2>3 DEF Stream!Init
<1>5. CASE ~ FromBeginning
  <2>1. Left = [t \in {0} |-> << >>]
    BY <1>5 DEF Left
  <2> QED
    BY <1>1, <1>3, <2>1 DEF Stream!Init
<1> QED
  BY <1>4, <1>5

LEMMA StreamIdles ==
  ASSUME UNCHANGED << content, yielded >>, FromBeginning' = FromBeginning
  PROVE  Left' = Left /\ Given' = Given
<1>1. SetsFrom(0)' = SetsFrom(0)
  BY DEF SetsFrom
<1> QED
  BY <1>1 DEF Left, Given

LEMMA StreamStops ==
  ASSUME SupInv, Handed, Reading, NEW how, Stop(how),
         how = "err" \/ (how = "end" /\ at >= Len(file))
  PROVE  Stream!Next
<1>1. /\ UNCHANGED << content, yielded >> /\ FromBeginning' = FromBeginning
      /\ result = "more" /\ result' = how /\ opened
  BY DEF Stop, Reading, config, FromBeginning
<1>2. Left' = Left /\ Given' = Given
  BY <1>1, StreamIdles
<1>3. CASE how = "err"
  BY <1>1, <1>2, <1>3 DEF Stream!Next, Stream!Error
<1>4. CASE how = "end" /\ at >= Len(file)
  <2>1. Left[0] = << >>
    <3>1. CASE FromBeginning
      <4> DEFINE sets == SetsFrom(0)
      <4>1. sets \in Seq(Sets) /\ yielded = sets
        BY <1>1, <1>4, <3>1 DEF Handed
      <4>2. Left[0] = SubSeq(sets, Len(yielded) + 1, Len(sets))
        BY <3>1 DEF Left
      <4> HIDE DEF sets
      <4>3. Len(sets) \in Nat /\ Len(sets) < Len(sets) + 1
        BY <4>1
      <4> DEFINE a == Len(sets)
                 b == Len(sets) + 1
      <4>4. a \in Nat /\ b \in Nat /\ a < b
        BY <4>3
      <4> HIDE DEF a, b
      <4>5. SubSeq(sets, b, a) = << >>
        BY <4>1, <4>4, NoPart
      <4> QED
        BY <4>1, <4>2, <4>5 DEF a, b
    <3>2. CASE ~ FromBeginning
      BY <3>2 DEF Left
    <3> QED
      BY <3>1, <3>2
  <2> QED
    BY <1>1, <1>2, <1>4, <2>1 DEF Stream!Next, Stream!End
<1> QED
  BY <1>3, <1>4

LEMMA StreamGives ==
  ASSUME SupInv, Handed, Handed', ReadSegment
  PROVE  [Stream!Next]_(Stream!vars)
<1> DEFINE x == SegmentAt(file, at)
           out == AsmOut(asm, x)
           e == << >>
<1>1. /\ FromBeginning' = FromBeginning /\ content' = content
      /\ result = "more" /\ result' = result
      /\ yielded' = yielded \o out /\ Readable(file, at)
  BY DEF ReadSegment, Reading, config, FromBeginning
<1>2. /\ file \in Seq(FileCell) /\ at \in Nat /\ yielded \in Seq(Sets)
      /\ asm \in Assemblers(Segment, Nat, States)
  BY DEF SupInv, TypeInv
<1>3. x \in Segment
  BY <1>1, <1>2, ReadableIs
<1>4. out \in Seq(Sets)
  <2> HIDE DEF x
  <2> QED
    BY <1>2, <1>3, SegmentsLogged, AsmPushTyped DEF Sets
<1>5. out = e \/ \E d : out = << d >>
  BY DEF AsmOut
<1> HIDE DEF out
<1>6. CASE out = e
  <2>1. yielded' = yielded
    BY <1>1, <1>2, <1>6, ConcatEmptySeq
  <2>2. Left' = Left /\ Given' = Given
    BY <1>1, <2>1, StreamIdles
  <2> QED
    BY <1>1, <2>2 DEF Stream!vars
<1>7. CASE ~ FromBeginning
  <2>1. Left' = Left /\ Given' = Given
    BY <1>1, <1>7 DEF Left, Given
  <2> QED
    BY <1>1, <2>1 DEF Stream!vars
<1>8. ASSUME NEW d, out = << d >>, FromBeginning
      PROVE  Stream!Give(0)
  <2> DEFINE sets == SetsFrom(0)
             k == Len(yielded)
             left == SubSeq(sets, k + 1, Len(sets))
             rest == SubSeq(sets, k + 2, Len(sets))
  <2>1. sets' = sets
    BY <1>1 DEF SetsFrom
  <2>2. d \in Sets
    <3>1. 1 \in 1 .. Len(out) /\ out[1] = d
      BY <1>8
    <3> QED
      BY <1>4, <3>1, ElementOfSeq
  <2>3. yielded' = Append(yielded, d) /\ Len(yielded') = k + 1 /\ k \in Nat
    <3>1. yielded' = yielded \o << d >>
      BY <1>1, <1>8
    <3>2. yielded' = Append(yielded, d)
      BY <1>2, <2>2, <3>1, AppendIsConcat
    <3> QED
      BY <1>2, <2>2, <3>2, AppendProperties
  <2>4. /\ sets \in Seq(Sets) /\ k <= Len(sets) /\ yielded = SubSeq(sets, 1, k)
    BY <1>8 DEF Handed
  <2>5. k + 1 <= Len(sets) /\ Append(yielded, d) = SubSeq(sets, 1, k + 1)
    <3>1. Len(yielded') <= Len(sets') /\ yielded' = SubSeq(sets', 1, Len(yielded'))
      BY <1>1, <1>8 DEF Handed
    <3> HIDE DEF sets
    <3> QED
      BY <2>1, <2>3, <3>1
  <2>6. Left = [t \in {0} |-> left] /\ Left' = [t \in {0} |-> rest]
    <3>1. Left = [t \in {0} |-> left]
      BY <1>8 DEF Left
    <3>2. Left' = [t \in {0} |-> SubSeq(sets', Len(yielded') + 1, Len(sets'))]
      BY <1>1, <1>8 DEF Left
    <3>3. k + 1 + 1 = k + 2
      BY <2>3
    <3> HIDE DEF sets
    <3> QED
      BY <2>1, <2>3, <3>1, <3>2, <3>3
  <2>7. Given' = Append(Given, << 0, d >>)
    <3> DEFINE g == [y \in Sets |-> << 0, y >>]
               Y == {0} \X Sets
    <3>1. g \in [Sets -> Y] /\ g[d] = << 0, d >>
      BY <2>2
    <3>2. Given = Image(yielded, g)
      <4>1. \A i \in DOMAIN yielded : g[yielded[i]] = << 0, yielded[i] >>
        BY <1>2
      <4> QED
        BY <1>8, <4>1 DEF Given, Image
    <3>3. Given' = Image(Append(yielded, d), g)
      <4> DEFINE z == Append(yielded, d)
      <4>1. z \in Seq(Sets)
        BY <1>2, <2>2, AppendProperties
      <4>2. Given' = [i \in DOMAIN z |-> << 0, z[i] >>]
        BY <1>1, <1>8, <2>3 DEF Given
      <4> HIDE DEF z
      <4>3. \A i \in DOMAIN z : g[z[i]] = << 0, z[i] >>
        BY <4>1
      <4>4. Given' = Image(z, g)
        BY <4>2, <4>3 DEF Image
      <4> QED
        BY <4>4 DEF z
    <3> HIDE DEF g, Y, k, sets
    <3>4. Image(Append(yielded, d), g) = Append(Image(yielded, g), g[d])
      BY <1>2, <2>2, <3>1, ImageAppend
    <3> QED
      BY <3>1, <3>2, <3>3, <3>4
  <2>8. left # << >> /\ Head(left) = d /\ Tail(left) = rest
    <3> HIDE DEF sets
    <3> QED
      BY <1>2, <2>2, <2>4, <2>5, RestIs
  <2> HIDE DEF left, rest
  <2>9. /\ Left[0] = left /\ [Left EXCEPT ![0] = Tail(@)] = [t \in {0} |-> Tail(left)]
    BY <2>6
  <2>10. Left' = [Left EXCEPT ![0] = Tail(@)] /\ Left[0] # << >>
         /\ Given' = Append(Given, << 0, Head(Left[0]) >>)
    BY <2>6, <2>7, <2>8, <2>9
  <2> QED
    BY <1>1, <2>10 DEF Stream!Give
<1>9. CASE FromBeginning /\ out # e
  <2>1. PICK d : out = << d >>
    BY <1>5, <1>9
  <2>2. Stream!Give(0)
    BY <1>8, <1>9, <2>1
  <2> QED
    BY <2>2 DEF Stream!Next
<1> QED
  BY <1>6, <1>7, <1>9

LEMMA StreamNext == SupInv /\ Handed /\ Handed' /\ [Next]_vars => [Stream!Next]_(Stream!vars)
<1> SUFFICES ASSUME SupInv, Handed, Handed', [Next]_vars
             PROVE  [Stream!Next]_(Stream!vars)
  OBVIOUS
<1>1. ASSUME UNCHANGED << content, yielded, result >>, FromBeginning' = FromBeginning
      PROVE  UNCHANGED Stream!vars
  BY <1>1, StreamIdles DEF Stream!vars
<1>2. CASE SetTimeRange \/ SetTimeRangeFails
  <2>1. UNCHANGED << content, yielded, result, start >>
    BY <1>2 DEF SetTimeRange, SetTimeRangeFails, config
  <2>2. start = {} => aim' = aim
    BY <1>2 DEF SetTimeRange, SetTimeRangeFails
  <2> QED
    BY <1>1, <2>1, <2>2 DEF FromBeginning
<1>3. CASE ReadSegment
  BY <1>3, StreamGives
<1>4. CASE CleanEnd
  BY <1>4, StreamStops DEF CleanEnd
<1>5. CASE Malformed
  BY <1>5, StreamStops DEF Malformed
<1>6. CASE ReadFails
  BY <1>6, StreamStops DEF ReadFails
<1>7. CASE UNCHANGED vars
  BY <1>1, <1>7 DEF vars, config, FromBeginning
<1> QED
  BY <1>2, <1>3, <1>4, <1>5, <1>6, <1>7 DEF Next

(* Without a time range, and from the beginning of the file if this is      *)
(* where the detection of the format left the reader, next_display_set      *)
(* hands out the display sets of the file in order, each once, and ends     *)
(* when none is left; otherwise (where the stream is empty) it still only   *)
(* ends or fails.  Liveness is not part of this.                            *)
THEOREM ImplementsStream == Spec => Stream!Spec
<1>1. Spec => []SupInv
  BY SupInit, SupNext, PTL DEF Spec
<1> QED
  BY <1>1, SupInvHanded, StreamInit, StreamNext, PTL DEF Spec, Stream!Spec

-----------------------------------------------------------------------------
(* The count.                                                               *)

Counts == [total : Nat, content : Nat, clear : Nat]
NoSets == [total |-> 0, content |-> 0, clear |-> 0]
Countable(f, i) ==
  /\ MagicAt(f, i) /\ Fields(f, i).type \in SegmentType
  /\ Fields(f, i).type = "PCS" => Fields(f, i).objs # {} /\ Behind(f, i) <= Len(f)
CountOn(f, y, i) == {Tally(c, Fields(f, i)) : c \in y}
IsCounting(u, f) ==
  \A i \in 0 .. Len(f) :
    u[i] = IF i = Len(f) THEN {NoSets}
           ELSE IF Countable(f, i) THEN CountOn(f, u[Least(Behind(f, i), Len(f))], i)
           ELSE {}

(* What a segment counts for.                                               *)
LEMMA TallyIs ==
  ASSUME NEW c \in Counts, NEW h \in FileCell
  PROVE  LET d == Tally(c, h)
         IN  /\ d \in Counts
             /\ d.total = IF h.type = "END" THEN c.total + 1 ELSE c.total
             /\ d.content + d.clear = IF h.type = "PCS" THEN c.content + c.clear + 1
                                                       ELSE c.content + c.clear
<1>1. CASE h.type = "PCS" /\ h.objs # {0}
  <2>1. Tally(c, h) = [c EXCEPT !.content = @ + 1]
    BY <1>1 DEF Tally
  <2> QED
    BY <1>1, <2>1 DEF Counts
<1>2. CASE h.type = "PCS" /\ h.objs = {0}
  <2>1. Tally(c, h) = [c EXCEPT !.clear = @ + 1]
    BY <1>2 DEF Tally
  <2> QED
    BY <1>2, <2>1 DEF Counts
<1>3. CASE h.type = "END"
  <2>1. Tally(c, h) = [c EXCEPT !.total = @ + 1]
    BY <1>3 DEF Tally
  <2> QED
    BY <1>3, <2>1 DEF Counts
<1>4. CASE h.type # "PCS" /\ h.type # "END"
  <2>1. Tally(c, h) = c
    BY <1>4 DEF Tally
  <2> QED
    BY <1>4, <2>1 DEF Counts
<1> QED
  BY <1>1, <1>2, <1>3, <1>4

LEMMA MagicFields ==
  ASSUME NEW f \in Seq(FileCell), NEW i \in Nat, MagicAt(f, i)
  PROVE  /\ Fields(f, i) \in FileCell /\ Behind(f, i) \in Nat
         /\ Behind(f, i) >= i + 3 /\ i + 3 <= Len(f)
<1>1. i + 3 <= Len(f) /\ Len(f) \in Nat
  BY DEF MagicAt, HEADER_SIZE
<1>2. Fields(f, i) \in FileCell
  <2>1. i + 3 \in 1 .. Len(f)
    BY <1>1
  <2> QED
    BY <2>1 DEF Fields, HEADER_SIZE
<1>3. Fields(f, i).len \in Nat
  BY <1>2 DEF FileCell
<1>4. Behind(f, i) = i + 3 + Fields(f, i).len
  BY DEF Behind, HEADER_SIZE
<1> QED
  BY <1>1, <1>2, <1>3, <1>4

LEMMA CountingExists ==
  ASSUME NEW f \in Seq(FileCell)
  PROVE  \E u \in [0 .. Len(f) -> SUBSET Counts] :
           IsCounting(u, f) /\ CountDisplaySets(f) = u[0]
<1> DEFINE N == Len(f)
           D == SUBSET Counts
           S == {i \in 0 .. N : i # N /\ Countable(f, i)}
           to == [i \in S |-> Least(Behind(f, i), N)]
           a == [i \in 0 .. N |-> IF i = N THEN {NoSets} ELSE {}]
           g == [y \in D \X S |-> CountOn(f, y[1], y[2])]
           Is(h) == h = [i \in 0 .. N |->
                          IF i = N THEN {NoSets}
                          ELSE IF Countable(f, i)
                               THEN CountOn(f, h[Least(Behind(f, i), N)], i)
                          ELSE {}]
           u == CHOOSE h : Is(h)
<1>1. N \in Nat /\ CountDisplaySets(f) = u[0]
  BY DEF CountDisplaySets, Countable, CountOn, NoSets
<1> HIDE DEF N
<1>2. \A i \in S : /\ i \in 0 .. N /\ Fields(f, i) \in FileCell
                   /\ Least(Behind(f, i), N) \in i + 1 .. N
  <2> SUFFICES ASSUME NEW i \in S
               PROVE  Fields(f, i) \in FileCell /\ Least(Behind(f, i), N) \in i + 1 .. N
    OBVIOUS
  <2>1. i \in Nat /\ MagicAt(f, i)
    BY <1>1 DEF Countable
  <2>2. Fields(f, i) \in FileCell /\ Behind(f, i) \in Nat /\ Behind(f, i) >= i + 3 /\ i + 3 <= N
    BY <2>1, MagicFields DEF N
  <2> HIDE DEF S
  <2> QED
    BY <1>1, <2>1, <2>2 DEF Least
<1>3. /\ \A y \in D, i \in S : CountOn(f, y, i) \in D /\ g[<< y, i >>] = CountOn(f, y, i)
      /\ g \in [D \X S -> D]
  <2>1. ASSUME NEW y \in D, NEW i \in S PROVE CountOn(f, y, i) \in D
    <3>1. \A c \in y : Tally(c, Fields(f, i)) \in Counts
      BY <1>2, TallyIs
    <3> QED
      BY <3>1 DEF CountOn
  <2> HIDE DEF D, S
  <2> QED
    BY <2>1
<1>4. Jumps(N, D, S, to, a, g)
  <2>1. S \subseteq 0 .. N
    OBVIOUS
  <2>2. \A i \in S : to[i] \in i + 1 .. N
    BY <1>2
  <2>3. \A i \in 0 .. N : a[i] \in D
    BY DEF Counts, NoSets
  <2> HIDE DEF S, to, a, g, D
  <2> QED
    BY <1>3, <2>1, <2>2, <2>3 DEF Jumps
<1>5. Is(u)
  <2>1. PICK h \in [0 .. N -> D] : IsJumping(h, N, S, to, a, g)
    <3> HIDE DEF N, D, S, to, a, g
    <3> QED
      BY <1>1, <1>4, Jumping
  <2>2. ASSUME NEW i \in 0 .. N
        PROVE  h[i] = IF i = N THEN {NoSets}
                      ELSE IF Countable(f, i)
                           THEN CountOn(f, h[Least(Behind(f, i), N)], i)
                      ELSE {}
    <3>1. CASE i \in S
      <4>1. to[i] = Least(Behind(f, i), N) /\ to[i] \in 0 .. N /\ i # N /\ Countable(f, i)
        BY <1>1, <1>2, <3>1
      <4>2. h[to[i]] \in D
        BY <4>1
      <4>3. h[i] = g[<< h[to[i]], i >>]
        BY <2>1, <3>1 DEF IsJumping
      <4> HIDE DEF S, to, g, D
      <4>4. h[i] = CountOn(f, h[to[i]], i)
        BY <1>3, <3>1, <4>2, <4>3
      <4> QED
        BY <4>1, <4>4
    <3>2. CASE i \notin S
      <4>1. h[i] = a[i]
        BY <2>1, <3>2 DEF IsJumping
      <4>2. a[i] = IF i = N THEN {NoSets} ELSE {}
        OBVIOUS
      <4>3. i = N \/ ~ Countable(f, i)
        BY <3>2
      <4> HIDE DEF a, S
      <4> QED
        BY <4>1, <4>2, <4>3
    <3> QED
      BY <3>1, <3>2
  <2>3. Is(h)
    <3>1. h = [i \in 0 .. N |-> h[i]]
      BY <2>1
    <3> QED
      BY <2>2, <3>1
  <2> HIDE DEF Is
  <2> QED
    BY <2>3
<1>6. \A i \in 0 .. N : u[i] = IF i = N THEN {NoSets}
                      ELSE IF Countable(f, i)
                           THEN CountOn(f, u[Least(Behind(f, i), N)], i)
                      ELSE {}
  <2> HIDE DEF u
  <2> QED
    BY <1>5
<1>7. u = [i \in 0 .. N |-> u[i]]
  <2>1. \E e : u = [i \in 0 .. N |-> e[i]]
    BY <1>5 DEF Is
  <2> QED
    BY <2>1
<1> HIDE DEF u, Is, to, g, a
<1> DEFINE T == {i \in 0 .. N : u[i] \in D}
<1>8. ASSUME NEW i \in 0 .. N, \A m \in i + 1 .. N : m \in T PROVE i \in T
  <2>1. CASE i \in S
    <3>1. Least(Behind(f, i), N) \in T /\ i # N /\ Countable(f, i)
      BY <1>2, <1>8, <2>1
    <3>2. u[i] = CountOn(f, u[Least(Behind(f, i), N)], i)
      BY <1>6, <3>1
    <3>3. u[Least(Behind(f, i), N)] \in D
      BY <3>1
    <3> HIDE DEF D, S
    <3> QED
      BY <1>3, <2>1, <3>2, <3>3
  <2>2. CASE i \notin S
    <3>1. u[i] = {NoSets} \/ u[i] = {}
      BY <1>6, <2>2
    <3>2. NoSets \in Counts
      BY DEF NoSets, Counts
    <3> QED
      BY <3>1, <3>2
  <2> QED
    BY <2>1, <2>2
<1>9. 0 .. N \subseteq T
  <2> HIDE DEF T
  <2> QED
    BY <1>1, <1>8, Downto
<1>10. u \in [0 .. N -> D]
  <2>1. \A i \in 0 .. N : u[i] \in D
    BY <1>9
  <2> HIDE DEF N, D
  <2> QED
    BY <1>7, <2>1
<1>11. IsCounting(u, f)
  BY <1>6 DEF IsCounting, N
<1> QED
  BY <1>1, <1>10, <1>11 DEF N

(* The segments of a type among those of a range, and their number.         *)
OfType(f, t, I) == {k \in I : Fields(f, SegmentsOf(f)[k]).type = t}
Number(f, t, a, b) == Cardinality(OfType(f, t, a .. b))

LEMMA NumberTyped ==
  ASSUME NEW f, NEW t, NEW a \in Int, NEW b \in Int
  PROVE  /\ IsFiniteSet(OfType(f, t, a .. b))
         /\ Number(f, t, a, b) \in Nat
         /\ b < a => Number(f, t, a, b) = 0
<1> DEFINE I == a .. b
           S == OfType(f, t, I)
<1>1. IsFiniteSet(I)
  BY FS_Interval
<1>2. S \in SUBSET I
  BY DEF OfType
<1>3. b < a => S = {}
  BY DEF OfType
<1> HIDE DEF I, S
<1>4. IsFiniteSet(S)
  BY <1>1, <1>2, FS_Subset
<1>5. Cardinality(S) \in Nat /\ (S = {} => Cardinality(S) = 0)
  BY <1>4, FS_CardinalityType, FS_EmptySet
<1> QED
  BY <1>3, <1>4, <1>5 DEF Number, S, I

LEMMA NumberUp ==
  ASSUME NEW f, NEW t, NEW a \in Int, NEW b \in Int, a <= b + 1
  PROVE  Number(f, t, a, b + 1) =
           IF Fields(f, SegmentsOf(f)[b + 1]).type = t THEN Number(f, t, a, b) + 1
                                                       ELSE Number(f, t, a, b)
<1> DEFINE S == OfType(f, t, a .. b)
           R == OfType(f, t, a .. b + 1)
           x == b + 1
<1>1. IsFiniteSet(S)
  BY NumberTyped
<1>2. x \notin S
  BY DEF OfType
<1>3. CASE Fields(f, SegmentsOf(f)[x]).type = t
  <2>1. R = S \cup {x}
    BY <1>3 DEF OfType
  <2> HIDE DEF S, R, x
  <2>2. Cardinality(R) = Cardinality(S) + 1
    BY <1>1, <1>2, <2>1, FS_AddElement
  <2> QED
    BY <1>3, <2>2 DEF Number, S, R, x
<1>4. CASE Fields(f, SegmentsOf(f)[x]).type # t
  <2>1. R = S
    BY <1>4 DEF OfType
  <2> QED
    BY <1>4, <2>1 DEF Number
<1> QED
  BY <1>3, <1>4

LEMMA NumberDown ==
  ASSUME NEW f, NEW t, NEW a \in Int, NEW b \in Int, a <= b
  PROVE  Number(f, t, a, b) =
           IF Fields(f, SegmentsOf(f)[a]).type = t THEN Number(f, t, a + 1, b) + 1
                                                   ELSE Number(f, t, a + 1, b)
<1> DEFINE S == OfType(f, t, a + 1 .. b)
           R == OfType(f, t, a .. b)
<1>1. IsFiniteSet(S)
  BY NumberTyped
<1>2. a \notin S
  BY DEF OfType
<1>3. CASE Fields(f, SegmentsOf(f)[a]).type = t
  <2>1. R = S \cup {a}
    BY <1>3 DEF OfType
  <2> HIDE DEF S, R
  <2>2. Cardinality(R) = Cardinality(S) + 1
    BY <1>1, <1>2, <2>1, FS_AddElement
  <2> QED
    BY <1>3, <2>2 DEF Number, S, R
<1>4. CASE Fields(f, SegmentsOf(f)[a]).type # t
  <2>1. R = S
    BY <1>4 DEF OfType
  <2> QED
    BY <1>4, <2>1 DEF Number
<1> QED
  BY <1>3, <1>4

LEMMA NumberPart ==
  ASSUME NEW f, NEW t, NEW m \in Nat, NEW n \in Nat, m <= n
  PROVE  Number(f, t, 1, m) <= Number(f, t, 1, n)
<1> DEFINE S == OfType(f, t, 1 .. n)
           R == OfType(f, t, 1 .. m)
<1>1. IsFiniteSet(S)
  BY NumberTyped
<1>2. R \in SUBSET S
  BY DEF OfType
<1> HIDE DEF S, R
<1>3. Cardinality(R) <= Cardinality(S)
  BY <1>1, <1>2, FS_Subset
<1> QED
  BY <1>3 DEF S, R, Number

(* Each display set has a PCS and an END of its own, and an open one a PCS  *)
(* more.                                                                    *)
IsOpen(l) == \E i \in 1 .. Len(l) : OpenRun(l, i)
Enough(f, m) ==
  LET y == Stretch(f, 1, m)
  IN  /\ Len(SetsIn(y)) <= Number(f, "END", 1, m)
      /\ Len(SetsIn(y)) <= Number(f, "PCS", 1, m)
      /\ IsOpen(y) => Len(SetsIn(y)) + 1 <= Number(f, "PCS", 1, m)

LEMMA SetsCounted ==
  ASSUME NEW f \in Seq(FileCell), NEW m \in 0 .. Len(SegmentsOf(f))
  PROVE  Enough(f, m)
<1> DEFINE n == Len(SegmentsOf(f))
           T == {k \in 0 .. n : Enough(f, k)}
<1>1. n \in Nat
  BY PlacesTyped
<1> HIDE DEF n
<1>2. 0 \in T
  <2> DEFINE e == << >>
  <2>1. Stretch(f, 1, 0) = e
    <3>1. LogOf(f) \in Seq(Segment)
      BY SegmentsLog
    <3> DEFINE l == LogOf(f)
    <3> HIDE DEF l
    <3>2. SubSeq(l, 1, 0) = << >>
      BY <3>1, NoPart DEF l
    <3> QED
      BY <3>2 DEF Stretch, l
  <2>2. SetsIn(e) = e /\ Len(e) = 0
    BY SetsInEmpty
  <2>3. \A t : Number(f, t, 1, 0) \in Nat
    BY NumberTyped
  <2>4. ~ IsOpen(e)
    <3> HIDE DEF e
    <3> QED
      BY <2>2 DEF IsOpen
  <2> HIDE DEF e
  <2>5. Enough(f, 0)
    BY <2>1, <2>2, <2>3, <2>4 DEF Enough
  <2> QED
    BY <1>1, <2>5
<1>3. ASSUME NEW k \in 0 .. n - 1, k \in T PROVE k + 1 \in T
  <2> DEFINE y == Stretch(f, 1, k)
             z == Stretch(f, 1, k + 1)
             s == SegmentAt(f, SegmentsOf(f)[k + 1])
             d == Ending(Append(y, s), Len(y) + 1)
             E == Number(f, "END", 1, k)
             P == Number(f, "PCS", 1, k)
  <2>1. k \in 1 - 1 .. n - 1 /\ k + 1 \in 1 .. n /\ k + 1 \in 0 .. n
    BY <1>1
  <2>2. /\ z = Append(y, s) /\ y \in Seq(Segment) /\ s \in Segment
        /\ SetsIn(z) = SetsIn(y) \o d
    BY <2>1, StretchNext DEF n
  <2>3. SetsIn(y) \in Seq(Sets) /\ SetsIn(z) \in Seq(Sets)
    <3>1. k \in 1 - 1 .. n /\ k + 1 \in 1 - 1 .. n
      BY <1>1, <2>1
    <3> QED
      BY <3>1, StretchSets DEF n
  <2>4. s.type = Fields(f, SegmentsOf(f)[k + 1]).type /\ s.type \in SegmentType
    <3>1. SegmentsOf(f)[k + 1] \in Nat /\ Readable(f, SegmentsOf(f)[k + 1])
      BY <2>1, PlacesTyped DEF n
    <3>2. s.type = Fields(f, SegmentsOf(f)[k + 1]).type
      BY <3>1, ReadableIs
    <3> HIDE DEF s
    <3> QED
      BY <2>2, <3>2 DEF Segment
  <2>5. /\ E \in Nat /\ P \in Nat
        /\ Number(f, "END", 1, k + 1) = IF s.type = "END" THEN E + 1 ELSE E
        /\ Number(f, "PCS", 1, k + 1) = IF s.type = "PCS" THEN P + 1 ELSE P
    <3>1. \A t : Number(f, t, 1, k) \in Nat
      BY <2>1, NumberTyped
    <3> DEFINE c == Fields(f, SegmentsOf(f)[k + 1])
    <3>2. s.type = c.type
      BY <2>4
    <3>3. \A t : Number(f, t, 1, k + 1) =
                   IF c.type = t THEN Number(f, t, 1, k) + 1 ELSE Number(f, t, 1, k)
      BY <2>1, NumberUp
    <3> HIDE DEF c, s
    <3> QED
      BY <3>1, <3>2, <3>3
  <2>6. /\ Len(SetsIn(y)) <= E /\ Len(SetsIn(y)) <= P
        /\ IsOpen(y) => Len(SetsIn(y)) + 1 <= P
    BY <1>3 DEF Enough
  <2> HIDE DEF y, z, s, d, E, P
  <2>7. Len(y) \in Nat /\ Len(z) = Len(y) + 1
    BY <2>2, AppendProperties
  <2>8. /\ s.type # "END" => d = << >>
        /\ s.type = "END" /\ ~ IsOpen(y) => d = << >>
        /\ d = << >> \/ Len(d) = 1
    <3>1. \A i \in 1 .. Len(y) : IsRun(z, i, Len(y) + 1) <=> s.type = "END" /\ OpenRun(y, i)
      BY <2>2, RunCloses
    <3>2. (s.type = "END" => ~ IsOpen(y)) => \A i \in 1 .. (Len(y) + 1) - 1 : ~ IsRun(z, i, Len(y) + 1)
      BY <2>7, <3>1 DEF IsOpen
    <3>3. d = Ending(z, Len(y) + 1)
      BY <2>2 DEF d
    <3>4. (s.type = "END" => ~ IsOpen(y)) => d = << >>
      BY <3>2, <3>3, EndingIsNot
    <3>5. d = << >> \/ Len(d) = 1
      BY <3>3 DEF Ending
    <3> QED
      BY <3>4, <3>5
  <2>9. IsOpen(z) => s.type = "PCS" \/ (s.type \in BodyType /\ IsOpen(y))
    <3> SUFFICES ASSUME NEW i \in 1 .. Len(z), OpenRun(z, i)
                 PROVE  s.type = "PCS" \/ (s.type \in BodyType /\ IsOpen(y))
      BY DEF IsOpen
    <3>1. \/ i = Len(y) + 1 /\ s.type = "PCS" /\ s.comp # None
          \/ i # Len(y) + 1 /\ OpenRun(y, i) /\ s.type \in BodyType
      BY <2>2, <2>7, OpenExtends
    <3> QED
      BY <2>7, <3>1 DEF IsOpen
  <2>10. /\ d = << >> => Len(SetsIn(z)) = Len(SetsIn(y))
         /\ Len(d) = 1 => Len(SetsIn(z)) = Len(SetsIn(y)) + 1
         /\ Len(SetsIn(y)) \in Nat
    <3>1. d = << >> => SetsIn(z) = SetsIn(y)
      BY <2>2, <2>3, ConcatEmptySeq
    <3>2. Len(d) = 1 => Len(SetsIn(z)) = Len(SetsIn(y)) + 1
      <4>1. d = << >> \/ \E x : d = << x >>
        BY DEF d, Ending
      <4>2. ASSUME NEW x, d = << x >> PROVE Len(SetsIn(y) \o d) = Len(SetsIn(y)) + 1
        <5>1. SetsIn(y) \in Seq(Sets \cup {x}) /\ << x >> \in Seq(Sets \cup {x})
          BY <2>3
        <5>2. Len(SetsIn(y) \o << x >>) = Len(SetsIn(y)) + Len(<< x >>)
          BY <5>1, ConcatProperties
        <5> QED
          BY <4>2, <5>2
      <4>3. Len(d) = 1 => d # << >>
        <5>1. d = << >> => Len(d) = 0
          <6> SUFFICES ASSUME d = << >> PROVE Len(d) = 0
            OBVIOUS
          <6> QED
            BY EmptySeq
        <5> QED
          BY <5>1
      <4> QED
        BY <2>2, <4>1, <4>2, <4>3
    <3>3. Len(SetsIn(y)) \in Nat
      BY <2>3
    <3> QED
      BY <3>1, <3>2, <3>3
  <2>11. "PCS" \notin BodyType /\ "END" \notin BodyType
    BY DEF BodyType
  <2>12. /\ Len(SetsIn(z)) <= Number(f, "END", 1, k + 1)
         /\ Len(SetsIn(z)) <= Number(f, "PCS", 1, k + 1)
         /\ IsOpen(z) => Len(SetsIn(z)) + 1 <= Number(f, "PCS", 1, k + 1)
    <3>1. CASE s.type = "PCS"
      <4>1. Len(SetsIn(z)) = Len(SetsIn(y))
        BY <2>8, <2>10, <3>1
      <4> QED
        BY <2>5, <2>6, <2>10, <3>1, <4>1
    <3>2. CASE s.type = "END"
      <4>1. ~ IsOpen(z)
        BY <2>9, <2>11, <3>2
      <4>2. CASE IsOpen(y)
        BY <2>5, <2>6, <2>8, <2>10, <3>2, <4>1, <4>2
      <4>3. CASE ~ IsOpen(y)
        <5>1. Len(SetsIn(z)) = Len(SetsIn(y))
          BY <2>8, <2>10, <3>2, <4>3
        <5> QED
          BY <2>5, <2>6, <2>10, <3>2, <4>1, <5>1
      <4> QED
        BY <4>2, <4>3
    <3>3. CASE s.type # "PCS" /\ s.type # "END"
      <4>1. Len(SetsIn(z)) = Len(SetsIn(y)) /\ (IsOpen(z) => IsOpen(y))
        BY <2>8, <2>9, <2>10, <3>3
      <4> QED
        BY <2>5, <2>6, <2>10, <3>3, <4>1
    <3> QED
      BY <3>1, <3>2, <3>3
  <2> QED
    BY <2>1, <2>12 DEF Enough, z
<1>4. 0 .. n \subseteq T
  <2> HIDE DEF T
  <2> QED
    BY <1>1, <1>2, <1>3, Upto
<1> QED
  BY <1>4 DEF n

(* A PCS that is too short to be counted.                                   *)
IsShort(f, k) ==
  /\ Fields(f, SegmentsOf(f)[k]).type = "PCS"
  /\ Fields(f, SegmentsOf(f)[k]).objs = {}

(* What is counted from behind segment number k on: the segments that can   *)
(* be read, and perhaps one more, whose payload is cut off.                 *)
LastPlace(f) == Place(f, 0, SegmentsOf(f), Len(SegmentsOf(f)))
IsCount(f, y, k) ==
  LET n == Len(SegmentsOf(f))
  IN  /\ LastPlace(f) = Len(f) /\ (\A i \in k + 1 .. n : ~ IsShort(f, i)) => y # {}
      /\ y # {} =>
           /\ \A i \in k + 1 .. n : ~ IsShort(f, i)
           /\ LastPlace(f) < Len(f) =>
                MagicAt(f, LastPlace(f)) /\ Behind(f, LastPlace(f)) > Len(f)
      /\ \A c \in y :
           /\ c \in Counts
           /\ c.content + c.clear = Number(f, "PCS", k + 1, n)
           /\ c.total >= Number(f, "END", k + 1, n)
           /\ LastPlace(f) = Len(f) => c.total = Number(f, "END", k + 1, n)

LEMMA LastPlaceIs ==
  ASSUME NEW f \in Seq(FileCell)
  PROVE  LastPlace(f) \in 0 .. Len(f) /\ ~ Readable(f, LastPlace(f))
<1> DEFINE n == Len(SegmentsOf(f))
<1>1. n \in Nat /\ Len(f) \in Nat
  BY PlacesTyped
<1>2. LastPlace(f) \in Nat /\ ~ Readable(f, LastPlace(f))
  <2>1. n \in 0 .. n
    BY <1>1
  <2> QED
    BY <2>1, PlacesAscend DEF LastPlace
<1>3. CASE n = 0
  <2>1. LastPlace(f) = 0
    BY <1>3 DEF LastPlace, Place
  <2> QED
    BY <1>1, <1>2, <2>1
<1>4. CASE n # 0
  <2>1. n \in 1 .. n
    BY <1>1, <1>4
  <2>2. LastPlace(f) <= Len(f)
    BY <2>1, PlacesAscend DEF LastPlace
  <2> QED
    BY <1>1, <1>2, <2>2
<1> QED
  BY <1>3, <1>4

LEMMA CountBehindLast ==
  ASSUME NEW f \in Seq(FileCell), NEW u \in [0 .. Len(f) -> SUBSET Counts], IsCounting(u, f)
  PROVE  IsCount(f, u[LastPlace(f)], Len(SegmentsOf(f)))
<1> DEFINE n == Len(SegmentsOf(f))
           N == Len(f)
           p == LastPlace(f)
<1>1. n \in Nat /\ N \in Nat /\ p \in 0 .. N /\ ~ Readable(f, p)
  BY PlacesTyped, LastPlaceIs
<1>2. \A t : Number(f, t, n + 1, n) = 0
  BY <1>1, NumberTyped
<1>3. NoSets \in Counts /\ NoSets.total = 0 /\ NoSets.content + NoSets.clear = 0
  BY DEF NoSets, Counts
<1>4. u[N] = {NoSets}
  <2>1. N \in 0 .. N
    BY <1>1
  <2> QED
    BY <2>1 DEF IsCounting
<1>5. u[p] = IF p = N THEN {NoSets}
             ELSE IF Countable(f, p) THEN CountOn(f, u[Least(Behind(f, p), N)], p)
             ELSE {}
  BY <1>1 DEF IsCounting
<1>6. \A i \in n + 1 .. n : ~ IsShort(f, i)
  BY <1>1
<1>7. CASE p = N
  <2>1. u[p] = {NoSets}
    BY <1>5, <1>7
  <2> HIDE DEF n, N, p
  <2>2. /\ u[p] # {} /\ ~ (p < N)
        /\ \A c \in u[p] : c \in Counts /\ c.content + c.clear = 0 /\ c.total = 0
    BY <1>1, <1>3, <1>7, <2>1
  <2> QED
    BY <1>2, <1>6, <2>2 DEF IsCount, n, N, p
<1>8. CASE p # N /\ Countable(f, p)
  <2> DEFINE h == Fields(f, p)
  <2>1. /\ h \in FileCell /\ Behind(f, p) \in Nat /\ MagicAt(f, p) /\ h.type \in SegmentType
    BY <1>1, <1>8, MagicFields DEF Countable
  <2>2. Behind(f, p) > N
    BY <1>1, <2>1 DEF Readable
  <2>3. h.type # "PCS"
    BY <1>1, <1>8, <2>1, <2>2 DEF Countable
  <2>4. Least(Behind(f, p), N) = N
    BY <1>1, <2>1, <2>2 DEF Least
  <2>5. u[p] = {Tally(NoSets, h)}
    <3>1. u[p] = CountOn(f, {NoSets}, p)
      BY <1>4, <1>5, <1>8, <2>4
    <3> QED
      BY <3>1 DEF CountOn
  <2>6. LET d == Tally(NoSets, h)
        IN  d \in Counts /\ d.content + d.clear = 0 /\ d.total \in Nat
    <3>1. LET d == Tally(NoSets, h)
          IN  /\ d \in Counts
              /\ d.content + d.clear = IF h.type = "PCS" THEN NoSets.content + NoSets.clear + 1
                                                       ELSE NoSets.content + NoSets.clear
      BY <1>3, <2>1, TallyIs
    <3> HIDE DEF h
    <3> QED
      BY <1>3, <2>3, <3>1 DEF Counts
  <2> HIDE DEF n, N, p, h
  <2>7. /\ u[p] # {} /\ p # N
        /\ \A c \in u[p] : c \in Counts /\ c.content + c.clear = 0 /\ c.total >= 0
    BY <1>8, <2>5, <2>6
  <2> QED
    BY <1>2, <1>6, <2>1, <2>2, <2>7 DEF IsCount, n, N, p
<1>9. CASE p # N /\ ~ Countable(f, p)
  <2>1. u[p] = {} /\ p # N
    BY <1>5, <1>9
  <2> QED
    BY <2>1 DEF IsCount
<1> QED
  BY <1>7, <1>8, <1>9

LEMMA CountOneMore ==
  ASSUME NEW f \in Seq(FileCell), NEW u \in [0 .. Len(f) -> SUBSET Counts], IsCounting(u, f),
         NEW k \in 0 .. Len(SegmentsOf(f)) - 1,
         IsCount(f, u[Place(f, 0, SegmentsOf(f), k + 1)], k + 1)
  PROVE  IsCount(f, u[Place(f, 0, SegmentsOf(f), k)], k)
<1> DEFINE s == SegmentsOf(f)
           n == Len(s)
           N == Len(f)
           i == Place(f, 0, s, k)
           q == Place(f, 0, s, k + 1)
           h == Fields(f, i)
           y == u[q]
           x == u[i]
<1>1. n \in Nat /\ N \in Nat /\ k \in Nat /\ k + 1 \in 1 .. n /\ (k + 1) - 1 = k
  BY PlacesTyped
<1>2. /\ s[k + 1] = i /\ i \in Nat /\ Readable(f, i) /\ q = Behind(f, i)
  <2>1. s[k + 1] \in Nat /\ Readable(f, s[k + 1]) /\ s[k + 1] = Place(f, 0, s, (k + 1) - 1)
    BY <1>1, PlacesAscend
  <2>2. q = Behind(f, s[k + 1])
    BY <1>1 DEF Place
  <2> QED
    BY <1>1, <2>1, <2>2
<1>3. /\ i + 3 <= N /\ q \in i + 3 .. N
  BY <1>2, ReadableIs
<1>4. /\ MagicAt(f, i) /\ h.type \in SegmentType /\ h \in FileCell
  BY <1>2, MagicFields DEF Readable
<1>5. Countable(f, i) <=> ~ IsShort(f, k + 1)
  BY <1>1, <1>2, <1>3, <1>4 DEF Countable, IsShort
<1>6. /\ i \in 0 .. N /\ i # N /\ Least(Behind(f, i), N) = q /\ q \in 0 .. N
  BY <1>1, <1>2, <1>3 DEF Least
<1>7. x = IF IsShort(f, k + 1) THEN {} ELSE CountOn(f, y, i)
  BY <1>5, <1>6 DEF IsCounting
<1>8. \A t : /\ Number(f, t, k + 1, n) = IF h.type = t THEN Number(f, t, k + 2, n) + 1
                                                     ELSE Number(f, t, k + 2, n)
             /\ Number(f, t, k + 2, n) \in Nat
  <2> TAKE t
  <2> DEFINE a == k + 1
  <2>1. a \in Int /\ n \in Int /\ a <= n /\ a + 1 = k + 2 /\ a + 1 \in Int
    BY <1>1
  <2>2. s[a] = i
    BY <1>2
  <2> HIDE DEF a
  <2>3. Number(f, t, a, n) = IF Fields(f, s[a]).type = t THEN Number(f, t, a + 1, n) + 1
                                                       ELSE Number(f, t, a + 1, n)
    BY <2>1, NumberDown
  <2>4. Number(f, t, a + 1, n) \in Nat
    BY <2>1, NumberTyped
  <2> QED
    BY <2>1, <2>2, <2>3, <2>4 DEF a
<1>9. /\ LastPlace(f) = N /\ (\A m \in k + 2 .. n : ~ IsShort(f, m)) => y # {}
      /\ y # {} =>
           /\ \A m \in k + 2 .. n : ~ IsShort(f, m)
           /\ LastPlace(f) < N =>
                MagicAt(f, LastPlace(f)) /\ Behind(f, LastPlace(f)) > N
      /\ \A c \in y :
           /\ c \in Counts
           /\ c.content + c.clear = Number(f, "PCS", k + 2, n)
           /\ c.total >= Number(f, "END", k + 2, n)
           /\ LastPlace(f) = N => c.total = Number(f, "END", k + 2, n)
  <2>1. k + 1 + 1 = k + 2
    BY <1>1
  <2> QED
    BY <2>1 DEF IsCount
<1> HIDE DEF s, n, N, i, q, h, y, x
<1>10. (\A m \in k + 1 .. n : ~ IsShort(f, m)) <=>
         ~ IsShort(f, k + 1) /\ \A m \in k + 2 .. n : ~ IsShort(f, m)
  <2>1. \A m \in k + 1 .. n : m = k + 1 \/ m \in k + 2 .. n
    BY <1>1
  <2>2. k + 1 \in k + 1 .. n /\ \A m \in k + 2 .. n : m \in k + 1 .. n
    BY <1>1
  <2> QED
    BY <2>1, <2>2
<1>11. x # {} <=> ~ IsShort(f, k + 1) /\ y # {}
  BY <1>7 DEF CountOn
<1>12. ASSUME NEW d \in x
       PROVE  /\ d \in Counts
              /\ d.content + d.clear = Number(f, "PCS", k + 1, n)
              /\ d.total >= Number(f, "END", k + 1, n)
              /\ LastPlace(f) = N => d.total = Number(f, "END", k + 1, n)
  <2>1. PICK c \in y : d = Tally(c, h)
    BY <1>7 DEF CountOn, h
  <2>2. /\ c \in Counts
        /\ c.content + c.clear = Number(f, "PCS", k + 2, n)
        /\ c.total >= Number(f, "END", k + 2, n)
        /\ LastPlace(f) = N => c.total = Number(f, "END", k + 2, n)
    BY <1>9
  <2>3. /\ d \in Counts
        /\ d.total = IF h.type = "END" THEN c.total + 1 ELSE c.total
        /\ d.content + d.clear = IF h.type = "PCS" THEN c.content + c.clear + 1
                                                   ELSE c.content + c.clear
    BY <1>4, <2>1, <2>2, TallyIs
  <2>4. c.total \in Nat
    BY <2>2 DEF Counts
  <2>5. d.content + d.clear = Number(f, "PCS", k + 1, n)
    BY <1>8, <2>2, <2>3
  <2>6. /\ d.total >= Number(f, "END", k + 1, n)
        /\ LastPlace(f) = N => d.total = Number(f, "END", k + 1, n)
    <3> DEFINE e == Number(f, "END", k + 2, n)
    <3>1. e \in Nat /\ Number(f, "END", k + 1, n) = IF h.type = "END" THEN e + 1 ELSE e
      BY <1>8
    <3>2. c.total >= e /\ (LastPlace(f) = N => c.total = e)
      BY <2>2
    <3> HIDE DEF e
    <3> QED
      BY <2>3, <2>4, <3>1, <3>2
  <2> QED
    BY <2>3, <2>5, <2>6
<1>13. LastPlace(f) = N /\ (\A m \in k + 1 .. n : ~ IsShort(f, m)) => x # {}
  BY <1>9, <1>10, <1>11
<1>14. x # {} => /\ \A m \in k + 1 .. n : ~ IsShort(f, m)
                 /\ LastPlace(f) < N =>
                      MagicAt(f, LastPlace(f)) /\ Behind(f, LastPlace(f)) > N
  BY <1>9, <1>10, <1>11
<1> QED
  BY <1>12, <1>13, <1>14 DEF IsCount, x, i, n, N, s

LEMMA CountIs ==
  ASSUME NEW f \in Seq(FileCell)
  PROVE  IsCount(f, CountDisplaySets(f), 0)
<1> DEFINE s == SegmentsOf(f)
           n == Len(s)
<1>1. PICK u \in [0 .. Len(f) -> SUBSET Counts] :
        IsCounting(u, f) /\ CountDisplaySets(f) = u[0]
  BY CountingExists
<1>2. n \in Nat
  BY PlacesTyped
<1> DEFINE T == {k \in 0 .. n : IsCount(f, u[Place(f, 0, s, k)], k)}
<1>3. ASSUME NEW k \in 0 .. n, \A m \in k + 1 .. n : m \in T PROVE k \in T
  <2>1. CASE k = n
    <3>1. IsCount(f, u[LastPlace(f)], n)
      BY <1>1, CountBehindLast
    <3> QED
      BY <2>1, <3>1 DEF LastPlace
  <2>2. CASE k # n
    <3>1. k + 1 \in k + 1 .. n /\ k \in 0 .. n - 1
      BY <1>2, <2>2
    <3>2. IsCount(f, u[Place(f, 0, s, k + 1)], k + 1)
      BY <1>3, <3>1
    <3>3. IsCount(f, u[Place(f, 0, s, k)], k)
      BY <1>1, <3>1, <3>2, CountOneMore
    <3> QED
      BY <3>3
  <2> QED
    BY <2>1, <2>2
<1>4. 0 .. n \subseteq T
  <2> HIDE DEF T, n
  <2> QED
    BY <1>2, <1>3, Downto
<1>5. 0 \in T
  BY <1>2, <1>4
<1>6. Place(f, 0, s, 0) = 0
  BY DEF Place
<1> QED
  BY <1>1, <1>5, <1>6

LEMMA SupInvCountMatches == SupInv => CountMatchesIterator
<1> SUFFICES ASSUME SupInv, FromBeginning, result # "more" PROVE CountMatchesIterator
  BY DEF CountMatchesIterator
<1> DEFINE s == SegmentsOf(file)
           n == Len(s)
           counts == CountDisplaySets(file)
           ofType(t) == Cardinality({k \in DOMAIN s : Fields(file, s[k]).type = t})
           shortPcs == \E k \in DOMAIN s : /\ Fields(file, s[k]).type = "PCS"
                                           /\ Fields(file, s[k]).objs = {}
           p == LastPlace(file)
<1>1. /\ file \in Seq(FileCell) /\ at \in Nat /\ n \in Nat /\ Len(file) \in Nat
      /\ aim = 0 /\ ~ strayed /\ opened /\ yielded \in Seq(Sets)
      /\ result = "end" => at >= Len(file)
      /\ DOMAIN s = 1 .. n
  BY PlacesTyped DEF SupInv, TypeInv, OpenInv, FromBeginning
<1>2. PICK h \in Nat, j \in Nat : ReadTo(h, j)
  BY <1>1 DEF SupInv, ReadInv, IsKnown
<1>3. /\ h \in 1 .. n + 1 /\ j \in h .. n + 1 /\ Landed(file, h, 0)
      /\ at = Place(file, 0, s, j - 1)
      /\ yielded = SetsIn(Stretch(file, h, j - 1))
  BY <1>1, <1>2 DEF ReadTo, IsAt
<1>4. h = 1
  <2> SUFFICES ASSUME h # 1 PROVE FALSE
    OBVIOUS
  <2>1. 1 \in 1 .. n /\ 1 < h
    BY <1>1, <1>3
  <2>2. s[1] < 0 /\ s[1] \in Nat
    BY <1>1, <1>3, <2>1, PlacesTyped DEF Landed
  <2> QED
    BY <2>2
<1>5. ~ Readable(file, at) => j = n + 1
  <2> SUFFICES ASSUME j # n + 1 PROVE Readable(file, at)
    OBVIOUS
  <2>1. j \in 1 .. n
    BY <1>1, <1>3
  <2> QED
    BY <1>1, <1>3, <2>1, PlacesAscend
<1>6. j = n + 1 => at = p
  <2>1. j = n + 1 => j - 1 = n
    BY <1>1
  <2> QED
    BY <1>3, <2>1 DEF LastPlace
<1>7. at >= Len(file) => at = p /\ p = Len(file)
  <2> SUFFICES ASSUME at >= Len(file) PROVE at = p /\ p = Len(file)
    OBVIOUS
  <2>1. ~ Readable(file, at)
    <3>1. Readable(file, at) => at + 3 <= Len(file)
      BY <1>1, ReadableIs
    <3> QED
      BY <1>1, <3>1
  <2>2. p \in 0 .. Len(file)
    BY <1>1, LastPlaceIs
  <2> QED
    BY <1>1, <1>5, <1>6, <2>1, <2>2
<1>8. IsCount(file, counts, 0)
  BY <1>1, CountIs
<1>9. shortPcs <=> ~ \A i \in 0 + 1 .. n : ~ IsShort(file, i)
  <2>1. 0 + 1 = 1
    OBVIOUS
  <2> QED
    BY <1>1, <2>1 DEF IsShort
<1>10. \A t : ofType(t) = Number(file, t, 0 + 1, n) /\ 0 + 1 = 1
  BY <1>1 DEF Number, OfType
<1>11. /\ Len(yielded) <= Number(file, "END", 1, j - 1)
       /\ Len(yielded) <= Number(file, "PCS", 1, j - 1)
  <2>1. j - 1 \in 0 .. n
    BY <1>1, <1>3
  <2>2. Enough(file, j - 1)
    BY <1>1, <2>1, SetsCounted
  <2> QED
    BY <1>3, <1>4, <2>2 DEF Enough
<1>12. \A t : /\ Number(file, t, 1, j - 1) <= Number(file, t, 1, n)
              /\ Number(file, t, 1, j - 1) \in Nat /\ Number(file, t, 1, n) \in Nat
  <2>1. j - 1 \in Nat /\ j - 1 <= n
    BY <1>1, <1>3
  <2> QED
    BY <1>1, <2>1, NumberPart, NumberTyped
<1>13. Len(yielded) \in Nat
  BY <1>1
<1>14. result = "end" => (counts # {} <=> ~ shortPcs)
  <2> HIDE DEF shortPcs, counts, p, n
  <2> QED
    BY <1>1, <1>7, <1>8, <1>9 DEF IsCount, p, n
<1>15. counts # {} /\ at < Len(file) /\ ~ Readable(file, at) =>
         MagicAt(file, at) /\ Behind(file, at) > Len(file)
  <2> HIDE DEF counts, n
  <2> QED
    BY <1>5, <1>6, <1>8 DEF IsCount
<1>16. ASSUME NEW c \in counts
       PROVE  /\ Len(yielded) <= c.total /\ Len(yielded) <= c.content + c.clear
              /\ result = "end" /\ Len(content) = ofType("PCS") /\ Len(content) = ofType("END")
                   => c.content + c.clear = c.total
  <2> DEFINE e == Number(file, "END", 1, n)
             q == Number(file, "PCS", 1, n)
  <2>1. /\ c \in Counts /\ c.content + c.clear = q /\ c.total >= e
        /\ p = Len(file) => c.total = e
    BY <1>8, <1>10 DEF IsCount
  <2>2. c.total \in Nat /\ c.content + c.clear \in Nat
    BY <2>1 DEF Counts
  <2>3. Len(yielded) <= e /\ Len(yielded) <= q /\ e \in Nat /\ q \in Nat
    <3>1. \A a, b, d \in Nat : a <= b /\ b <= d => a <= d
      OBVIOUS
    <3> QED
      BY <1>11, <1>12, <1>13, <3>1
  <2>4. ofType("PCS") = q /\ ofType("END") = e
    BY <1>10
  <2>5. result = "end" => p = Len(file)
    BY <1>1, <1>7
  <2> HIDE DEF e, q, ofType, p
  <2>6. Len(yielded) <= c.total
    BY <1>13, <2>1, <2>2, <2>3
  <2>7. Len(yielded) <= c.content + c.clear
    BY <2>1, <2>3
  <2> QED
    BY <2>1, <2>4, <2>5, <2>6, <2>7
<1> QED
  BY <1>14, <1>15, <1>16 DEF CountMatchesIterator

(* Against an iterator that began at the beginning of the file:             *)
(* count_display_sets succeeds where the iterator comes to its end, unless  *)
(* a PCS is too short, fails where the iterator fails but for a last        *)
(* payload cut off, and counts no display set too few.                      *)
THEOREM CountIsRight == Spec => []CountMatchesIterator
BY SupInit, SupNext, SupInvCountMatches, PTL DEF Spec
=============================================================================
