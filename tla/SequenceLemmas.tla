--------------------------- MODULE SequenceLemmas ---------------------------
(***************************************************************************)
(* Induction over numbers and sequences in a form the provers can use, and *)
(* the lemmas about Only, Joined, the assembler and its feeding that the   *)
(* proofs of the other modules cite.  The induction theorems of the        *)
(* library take a predicate as a parameter; here the predicate is the set  *)
(* of the values that satisfy it.                                          *)
(***************************************************************************)
EXTENDS PgsAssembly, Integers, FiniteSetTheorems, WellFoundedInduction, SequenceTheorems, TLAPS

(* A set of numbers has a smallest one.                                     *)
LEMMA LeastNumber ==
  ASSUME NEW S \in SUBSET Nat, S # {}
  PROVE  \E x \in S : \A y \in S : x <= y
<1>1. IsWellFoundedOn(OpToRel(<, Nat), Nat)
  BY NatLessThanWellFounded
<1>2. PICK x \in S : \A y \in S : ~ (<<y, x>> \in OpToRel(<, Nat))
  BY <1>1, WFMin
<1>3. \A y \in S : ~ (y < x)
  BY <1>2 DEF OpToRel
<1> QED
  BY <1>3

(* Induction over Nat, for a set instead of a predicate: the smallest       *)
(* number outside the set has a predecessor inside.                         *)
LEMMA SetInduction ==
  ASSUME NEW S \in SUBSET Nat, 0 \in S, \A n \in S : n + 1 \in S
  PROVE  S = Nat
<1> SUFFICES ASSUME Nat \ S # {} PROVE FALSE
  OBVIOUS
<1>1. PICK x \in Nat \ S : \A y \in Nat \ S : x <= y
  BY LeastNumber
<1>2. x # 0 /\ x - 1 \in Nat /\ ~ (x <= x - 1)
  OBVIOUS
<1>3. x - 1 \in S
  BY <1>1, <1>2
<1> QED BY <1>3

(* The same up to a bound.                                                  *)
LEMMA Upto ==
  ASSUME NEW N \in Nat, NEW S, 0 \in S, \A n \in 0 .. N - 1 : n \in S => n + 1 \in S
  PROVE  0 .. N \subseteq S
<1> DEFINE T == {n \in Nat : n <= N => n \in S}
<1>1. T = Nat
  <2>1. T \in SUBSET Nat /\ 0 \in T
    OBVIOUS
  <2>2. \A n \in T : n + 1 \in T
    OBVIOUS
  <2> HIDE DEF T
  <2> QED BY <2>1, <2>2, SetInduction
<1> QED BY <1>1

(* f is what primitive recursion up to N makes of a and g.                  *)
IsRecursive(f, N, a, g) ==
  \A n \in 0 .. N : f[n] = IF n = 0 THEN a ELSE g[<< f[n - 1], n >>]

(* Such an f exists: the recursive functions of these modules are what      *)
(* their equations say, and not an arbitrary value.                         *)
LEMMA Recursion ==
  ASSUME NEW N \in Nat, NEW D, NEW a \in D, NEW g \in [D \X (1 .. N) -> D]
  PROVE  \E f \in [0 .. N -> D] : IsRecursive(f, N, a, g)
<1> DEFINE Ok(f, m) == \A n \in 0 .. m : f[n] = IF n = 0 THEN a ELSE g[<< f[n - 1], n >>]
           S == {m \in 0 .. N : \E f \in [0 .. m -> D] : Ok(f, m)}
<1>1. 0 \in S
  <2> DEFINE h == [n \in 0 .. 0 |-> a]
  <2>1. h \in [0 .. 0 -> D]
    OBVIOUS
  <2>2. Ok(h, 0)
    OBVIOUS
  <2>3. 0 \in 0 .. N
    OBVIOUS
  <2> HIDE DEF h, Ok
  <2> QED BY <2>1, <2>2, <2>3
<1>2. ASSUME NEW m \in 0 .. N - 1, m \in S PROVE m + 1 \in S
  <2>1. PICK f \in [0 .. m -> D] : Ok(f, m)
    BY <1>2
  <2> DEFINE e == g[<< f[m], m + 1 >>]
             h == [n \in 0 .. m + 1 |-> IF n = m + 1 THEN e ELSE f[n]]
  <2>2. m \in Nat /\ m \in 0 .. m /\ m + 1 \in 1 .. N /\ m + 1 \in 0 .. N
    OBVIOUS
  <2>3. f[m] \in D
    BY <2>2
  <2>4. e \in D
    <3>1. << f[m], m + 1 >> \in D \X (1 .. N)
      BY <2>2, <2>3
    <3> QED BY <3>1
  <2>5. h \in [0 .. m + 1 -> D]
    <3> HIDE DEF e
    <3>1. \A n \in 0 .. m + 1 : n # m + 1 => n \in 0 .. m
      BY <2>2
    <3> QED BY <2>4, <3>1
  <2>6. Ok(h, m + 1)
    <3> SUFFICES ASSUME NEW n \in 0 .. m + 1
                 PROVE  h[n] = IF n = 0 THEN a ELSE g[<< h[n - 1], n >>]
      OBVIOUS
    <3>1. CASE n = m + 1
      <4>1. n # 0 /\ n - 1 = m /\ h[n - 1] = f[m] /\ h[n] = e
        BY <3>1, <2>2
      <4> QED BY <4>1, <3>1
    <3>2. CASE n # m + 1
      <4>1. n \in 0 .. m
        BY <3>2, <2>2
      <4>2. h[n] = f[n] /\ (n # 0 => h[n - 1] = f[n - 1])
        BY <4>1, <2>2
      <4> QED BY <4>1, <4>2, <2>1
    <3> QED BY <3>1, <3>2
  <2> HIDE DEF h, Ok
  <2> QED BY <2>5, <2>6, <2>2
<1>3. 0 .. N \subseteq S
  <2> HIDE DEF S
  <2> QED BY <1>1, <1>2, Upto
<1>4. PICK f \in [0 .. N -> D] : Ok(f, N)
  BY <1>3
<1> QED BY <1>4 DEF IsRecursive

(* R puts the numbers up to n in a line.                                    *)
IsLine(R, n) ==
  \A i, j \in 1 .. n :
    /\ << i, j >> \in R \/ << j, i >> \in R
    /\ << i, j >> \in R /\ << j, i >> \in R => i = j
    /\ \A k \in 1 .. n : << i, j >> \in R /\ << j, k >> \in R => << i, k >> \in R

(* The numbers not behind i.                                                *)
UpTo(R, n, i) == {j \in 1 .. n : << j, i >> \in R}

(* Counting those not behind it gives every number a place of its own.      *)
LEMMA Places ==
  ASSUME NEW n \in Nat, NEW R, IsLine(R, n)
  PROVE  /\ \A k \in 1 .. n : \E i \in 1 .. n : Cardinality(UpTo(R, n, i)) = k
         /\ \A i \in 1 .. n : Cardinality(UpTo(R, n, i)) \in 1 .. n
         /\ \A i, j \in 1 .. n :
              /\ Cardinality(UpTo(R, n, i)) < Cardinality(UpTo(R, n, j)) => << i, j >> \in R
              /\ Cardinality(UpTo(R, n, i)) = Cardinality(UpTo(R, n, j)) => i = j
<1> DEFINE place == [i \in 1 .. n |-> Cardinality(UpTo(R, n, i))]
<1>1. IsFiniteSet(1 .. n) /\ Cardinality(1 .. n) = n
  BY FS_Interval
<1>2. ASSUME NEW i \in 1 .. n
      PROVE  IsFiniteSet(UpTo(R, n, i)) /\ place[i] \in 1 .. n
  <2>1. UpTo(R, n, i) \in SUBSET (1 .. n) /\ i \in UpTo(R, n, i)
    BY DEF UpTo, IsLine
  <2>2. IsFiniteSet(UpTo(R, n, i)) /\ Cardinality(UpTo(R, n, i)) <= n
    BY <1>1, <2>1, FS_Subset
  <2>3. Cardinality(UpTo(R, n, i)) \in Nat /\ Cardinality(UpTo(R, n, i)) # 0
    BY <2>1, <2>2, FS_CardinalityType, FS_EmptySet
  <2> QED
    BY <2>2, <2>3
<1>3. ASSUME NEW i \in 1 .. n, NEW j \in 1 .. n, << i, j >> \in R, i # j
      PROVE  place[i] < place[j]
  <2>1. UpTo(R, n, i) \in SUBSET UpTo(R, n, j) /\ j \in UpTo(R, n, j) /\ j \notin UpTo(R, n, i)
    BY <1>3 DEF UpTo, IsLine
  <2>2. place[i] <= place[j] /\ place[i] # place[j]
    BY <1>2, <2>1, FS_Subset
  <2> QED
    BY <1>2, <2>2
<1> HIDE DEF place
<1>4. \A i, j \in 1 .. n : << i, j >> \in R \/ << j, i >> \in R
  BY DEF IsLine
<1>5. \A i, j \in 1 .. n : place[i] = place[j] => i = j
  <2> SUFFICES ASSUME NEW i \in 1 .. n, NEW j \in 1 .. n, place[i] = place[j], i # j
               PROVE  FALSE
    OBVIOUS
  <2>1. place[i] < place[j] \/ place[j] < place[i]
    BY <1>3, <1>4
  <2> QED
    BY <1>2, <2>1
<1>6. \A i, j \in 1 .. n : place[i] < place[j] => << i, j >> \in R
  <2> SUFFICES ASSUME NEW i \in 1 .. n, NEW j \in 1 .. n, place[i] < place[j],
                      << i, j >> \notin R
               PROVE  FALSE
    OBVIOUS
  <2>1. << j, i >> \in R /\ i # j
    BY <1>2, <1>4
  <2> QED
    BY <1>2, <1>3, <2>1
<1>7. place \in Injection(1 .. n, 1 .. n)
  <2>1. place \in [1 .. n -> 1 .. n]
    BY <1>2 DEF place
  <2> QED
    BY <1>5, <2>1 DEF Injection, IsInjective
<1>8. place \in Surjection(1 .. n, 1 .. n)
  <2> DEFINE N == 1 .. n
  <2>1. IsFiniteSet(N) /\ place \in Injection(N, N)
    BY <1>1, <1>7
  <2> HIDE DEF N
  <2>2. place \in Surjection(N, N)
    BY <2>1, FS_Injection
  <2> QED
    BY <2>2 DEF N
<1>9. \A k \in 1 .. n : \E i \in 1 .. n : place[i] = k
  BY <1>8 DEF Surjection
<1>10. \A i \in 1 .. n : place[i] \in 1 .. n
  BY <1>2
<1> QED
  BY <1>5, <1>6, <1>9, <1>10 DEF place

(* The prefixes of a sequence, and how one grows into the next.             *)
LEMMA Prefix ==
  ASSUME NEW X, NEW s \in Seq(X), NEW n \in 0 .. Len(s)
  PROVE  /\ SubSeq(s, 1, n) \in Seq(X)
         /\ Len(SubSeq(s, 1, n)) = n
         /\ \A i \in 1 .. n : SubSeq(s, 1, n)[i] = s[i]
         /\ n < Len(s) => SubSeq(s, 1, n + 1) = Append(SubSeq(s, 1, n), s[n + 1])
<1>1. Len(s) \in Nat /\ \A i \in 1 .. Len(s) : s[i] \in X
  OBVIOUS
<1>2. \A m \in 0 .. Len(s) : /\ SubSeq(s, 1, m) \in Seq(X)
         /\ Len(SubSeq(s, 1, m)) = m
         /\ \A i \in 1 .. m : SubSeq(s, 1, m)[i] = s[i]
  <2> TAKE m \in 0 .. Len(s)
  <2>1. m \in Int /\ 1 \in Int /\ \A i \in 1 .. m : s[i] \in X
    BY <1>1
  <2>2. m - 1 + 1 = m /\ (1 <= m \/ m = 0) /\ \A i \in 1 .. m : 1 + i - 1 = i
    BY <1>1
  <2>3. /\ SubSeq(s, 1, m) \in Seq(X)
        /\ Len(SubSeq(s, 1, m)) = IF 1 <= m THEN m - 1 + 1 ELSE 0
        /\ \A i \in 1 .. m - 1 + 1 : SubSeq(s, 1, m)[i] = s[1 + i - 1]
    BY <2>1, SubSeqProperties
  <2> QED BY <2>1, <2>2, <2>3
<1>3. ASSUME n < Len(s)
      PROVE  SubSeq(s, 1, n + 1) = Append(SubSeq(s, 1, n), s[n + 1])
  <2>1. n + 1 \in 0 .. Len(s) /\ s[n + 1] \in X /\ n \in Nat
    BY <1>1, <1>3
  <2> DEFINE a == SubSeq(s, 1, n + 1)
             b == Append(SubSeq(s, 1, n), s[n + 1])
  <2>2. a \in Seq(X) /\ Len(a) = n + 1 /\ \A i \in 1 .. n + 1 : a[i] = s[i]
    BY <1>2, <2>1
  <2>3. b \in Seq(X) /\ Len(b) = n + 1 /\ \A i \in 1 .. n : b[i] = s[i]
    BY <1>2, <2>1, AppendProperties
  <2>4. b[n + 1] = s[n + 1]
    BY <1>2, <2>1, AppendProperties
  <2> HIDE DEF a, b
  <2>5. \A i \in 1 .. Len(a) : a[i] = b[i]
    BY <2>1, <2>2, <2>3, <2>4
  <2>6. a = b
    BY <2>2, <2>3, <2>5, SeqEqual
  <2> QED BY <2>6 DEF a, b
<1> QED BY <1>2, <1>3

(* Induction over sequences, for a set of sequences.                        *)
LEMMA SeqInduction ==
  ASSUME NEW X, NEW T, << >> \in T,
         \A u \in Seq(X), e \in X : u \in T => Append(u, e) \in T
  PROVE  Seq(X) \subseteq T
<1> SUFFICES ASSUME NEW s \in Seq(X) PROVE s \in T
  OBVIOUS
<1> DEFINE p(n) == SubSeq(s, 1, n)
           N == {n \in 0 .. Len(s) : p(n) \in T}
<1>1. Len(s) \in Nat
  OBVIOUS
<1>2. 0 \in N
  <2>1. p(0) = << >>
    BY SubSeqEmpty
  <2> HIDE DEF p
  <2>2. p(0) \in T
    BY <2>1
  <2> QED BY <1>1, <2>2
<1>3. ASSUME NEW n \in 0 .. Len(s) - 1, n \in N PROVE n + 1 \in N
  <2>1. n \in 0 .. Len(s) /\ n < Len(s) /\ n + 1 \in 1 .. Len(s) /\ s[n + 1] \in X
    BY <1>1
  <2>2. p(n) \in Seq(X) /\ p(n + 1) = Append(p(n), s[n + 1])
    BY <2>1, Prefix
  <2>3. p(n) \in T
    BY <1>3
  <2> HIDE DEF p
  <2>4. p(n + 1) \in T
    BY <2>1, <2>2, <2>3
  <2> QED BY <2>1, <2>4
<1>4. 0 .. Len(s) \subseteq N
  <2> HIDE DEF N
  <2> QED BY <1>1, <1>2, <1>3, Upto
<1>5. p(Len(s)) \in T
  BY <1>1, <1>4
<1> QED BY <1>5, SubSeqFull

(* Appending to the second of two sequences.                                *)
LEMMA AppendConcat ==
  ASSUME NEW X, NEW s \in Seq(X), NEW t \in Seq(X), NEW e \in X
  PROVE  s \o Append(t, e) = Append(s \o t, e)
<1>1. << e >> \in Seq(X)
  OBVIOUS
<1>2. Append(t, e) = t \o << e >>
  BY AppendIsConcat
<1>3. s \o t \in Seq(X)
  BY ConcatProperties
<1>4. Append(s \o t, e) = (s \o t) \o << e >>
  BY <1>3, AppendIsConcat
<1>5. (s \o t) \o << e >> = s \o (t \o << e >>)
  BY <1>1, ConcatAssociative
<1> QED BY <1>2, <1>4, <1>5

(* A sequence is its beginning, its middle and its end.                     *)
LEMMA Slices ==
  ASSUME NEW X, NEW s \in Seq(X), NEW i \in 0 .. Len(s), NEW j \in i .. Len(s)
  PROVE  /\ SubSeq(s, 1, i) \in Seq(X)
         /\ SubSeq(s, i + 1, j) \in Seq(X)
         /\ SubSeq(s, j + 1, Len(s)) \in Seq(X)
         /\ SubSeq(s, 1, i) \o SubSeq(s, i + 1, j) = SubSeq(s, 1, j)
         /\ SubSeq(s, 1, j) \o SubSeq(s, j + 1, Len(s)) = s
         /\ Len(SubSeq(s, 1, i)) = i
         /\ Len(SubSeq(s, i + 1, j)) = j - i
         /\ Len(SubSeq(s, j + 1, Len(s))) = Len(s) - j
         /\ \A k \in 1 .. i : SubSeq(s, 1, i)[k] = s[k]
         /\ \A k \in 1 .. j - i : SubSeq(s, i + 1, j)[k] = s[i + k]
         /\ \A k \in 1 .. Len(s) - j : SubSeq(s, j + 1, Len(s))[k] = s[j + k]
<1>1. /\ Len(s) \in Nat /\ i \in Int /\ j \in Int /\ i + 1 \in Int /\ j + 1 \in Int
      /\ 1 \in Int /\ Len(s) \in Int
      /\ 0 <= i /\ i <= j /\ j <= Len(s)
  OBVIOUS
<1>2. \A k \in 1 .. Len(s) : s[k] \in X
  OBVIOUS
<1>3. /\ SubSeq(s, 1, i) \in Seq(X)
      /\ Len(SubSeq(s, 1, i)) = i
      /\ \A k \in 1 .. i : SubSeq(s, 1, i)[k] = s[k]
  BY Prefix
<1>4. /\ SubSeq(s, i + 1, j) \in Seq(X)
      /\ Len(SubSeq(s, i + 1, j)) = j - i
      /\ \A k \in 1 .. j - i : SubSeq(s, i + 1, j)[k] = s[i + k]
  <2>1. \A k \in i + 1 .. j : s[k] \in X
    BY <1>1, <1>2
  <2>2. /\ SubSeq(s, i + 1, j) \in Seq(X)
        /\ Len(SubSeq(s, i + 1, j)) = IF i + 1 <= j THEN j - (i + 1) + 1 ELSE 0
        /\ \A k \in 1 .. j - (i + 1) + 1 : SubSeq(s, i + 1, j)[k] = s[(i + 1) + k - 1]
    BY <1>1, <2>1, SubSeqProperties
  <2>3. /\ j - (i + 1) + 1 = j - i /\ (i + 1 <= j \/ j - i = 0)
        /\ \A k \in 1 .. j - i : (i + 1) + k - 1 = i + k
    BY <1>1
  <2> QED BY <2>2, <2>3
<1>5. /\ SubSeq(s, j + 1, Len(s)) \in Seq(X)
      /\ Len(SubSeq(s, j + 1, Len(s))) = Len(s) - j
      /\ \A k \in 1 .. Len(s) - j : SubSeq(s, j + 1, Len(s))[k] = s[j + k]
  <2>1. \A k \in j + 1 .. Len(s) : s[k] \in X
    BY <1>1, <1>2
  <2>2. /\ SubSeq(s, j + 1, Len(s)) \in Seq(X)
        /\ Len(SubSeq(s, j + 1, Len(s))) = IF j + 1 <= Len(s) THEN Len(s) - (j + 1) + 1 ELSE 0
        /\ \A k \in 1 .. Len(s) - (j + 1) + 1 : SubSeq(s, j + 1, Len(s))[k] = s[(j + 1) + k - 1]
    BY <1>1, <2>1, SubSeqProperties
  <2>3. /\ Len(s) - (j + 1) + 1 = Len(s) - j /\ (j + 1 <= Len(s) \/ Len(s) - j = 0)
        /\ \A k \in 1 .. Len(s) - j : (j + 1) + k - 1 = j + k
    BY <1>1
  <2> QED BY <2>2, <2>3
<1>6. SubSeq(s, 1, i) \o SubSeq(s, i + 1, j) = SubSeq(s, 1, j)
  <2>1. 1 \in 1 .. Len(s) + 1 /\ i \in 1 - 1 .. Len(s) /\ j \in i .. Len(s)
    BY <1>1
  <2> QED BY <2>1, ConcatAdjacentSubSeq
<1>7. SubSeq(s, 1, j) \o SubSeq(s, j + 1, Len(s)) = s
  <2>1. 1 \in 1 .. Len(s) + 1 /\ j \in 1 - 1 .. Len(s) /\ Len(s) \in j .. Len(s)
    BY <1>1
  <2>2. SubSeq(s, 1, j) \o SubSeq(s, j + 1, Len(s)) = SubSeq(s, 1, Len(s))
    BY <2>1, ConcatAdjacentSubSeq
  <2> QED BY <2>2, SubSeqFull
<1> QED BY <1>3, <1>4, <1>5, <1>6, <1>7

(* f gives, for every prefix of s, its members in S.                        *)
IsSelection(f, s, S) ==
  \A n \in 0 .. Len(s) :
    f[n] = IF n = 0 THEN << >>
           ELSE IF s[n] \in S THEN Append(f[n - 1], s[n]) ELSE f[n - 1]

(* Only is the last value of such an f.                                     *)
LEMMA SelectionExists ==
  ASSUME NEW X, NEW s \in Seq(X), NEW S
  PROVE  \E f \in [0 .. Len(s) -> Seq(X)] :
           /\ IsSelection(f, s, S)
           /\ Only(s, S) = f[Len(s)]
<1> DEFINE g == [y \in Seq(X) \X (1 .. Len(s)) |->
                   IF s[y[2]] \in S THEN Append(y[1], s[y[2]]) ELSE y[1]]
           Is(f) == f = [n \in 0 .. Len(s) |->
                     IF n = 0 THEN << >>
                     ELSE IF s[n] \in S THEN Append(f[n - 1], s[n]) ELSE f[n - 1]]
<1>1. Len(s) \in Nat /\ << >> \in Seq(X) /\ \A n \in 1 .. Len(s) : s[n] \in X
  OBVIOUS
<1>2. g \in [Seq(X) \X (1 .. Len(s)) -> Seq(X)]
  <2>1. ASSUME NEW y \in Seq(X) \X (1 .. Len(s))
        PROVE  (IF s[y[2]] \in S THEN Append(y[1], s[y[2]]) ELSE y[1]) \in Seq(X)
    <3>1. y[1] \in Seq(X) /\ s[y[2]] \in X
      BY <1>1
    <3>2. Append(y[1], s[y[2]]) \in Seq(X)
      BY <3>1, AppendProperties
    <3> QED BY <3>1, <3>2
  <2> QED BY <2>1
<1>3. PICK f \in [0 .. Len(s) -> Seq(X)] : IsRecursive(f, Len(s), << >>, g)
  <2> HIDE DEF g
  <2> QED BY <1>1, <1>2, Recursion
<1>4. \A n \in 1 .. Len(s) : << f[n - 1], n >> \in Seq(X) \X (1 .. Len(s))
  <2>1. \A n \in 1 .. Len(s) : n - 1 \in 0 .. Len(s)
    BY <1>1
  <2> QED BY <2>1
<1>5. Is(f)
  <2>1. \A n \in 1 .. Len(s) :
          g[<< f[n - 1], n >>] = IF s[n] \in S THEN Append(f[n - 1], s[n]) ELSE f[n - 1]
    BY <1>4
  <2>2. \A n \in 0 .. Len(s) : n # 0 => n \in 1 .. Len(s)
    BY <1>1
  <2> HIDE DEF g
  <2>3. f = [n \in 0 .. Len(s) |->
               IF n = 0 THEN << >>
               ELSE IF s[n] \in S THEN Append(f[n - 1], s[n]) ELSE f[n - 1]]
    <3>1. \A n \in 0 .. Len(s) :
            f[n] =
            (IF n = 0 THEN << >>
             ELSE IF s[n] \in S THEN Append(f[n - 1], s[n]) ELSE f[n - 1])
      BY <1>3, <2>1, <2>2 DEF IsRecursive
    <3> QED BY <3>1
  <2> QED BY <2>3
<1>6. Is(CHOOSE h : Is(h))
  <2> HIDE DEF Is
  <2> QED BY <1>5
<1> DEFINE u == CHOOSE h : Is(h)
<1>7. Only(s, S) = u[Len(s)]
  BY DEF Only
<1>8. DOMAIN u = 0 .. Len(s)
  <2> HIDE DEF u
  <2> QED BY <1>6 DEF u
<1>9. IsSelection(u, s, S)
  <2> HIDE DEF u
  <2> QED BY <1>6 DEF u, IsSelection
<1>10. u \in [0 .. Len(s) -> Seq(X)]
  <2> DEFINE T == {n \in 0 .. Len(s) : u[n] \in Seq(X)}
  <2> HIDE DEF u
  <2>1. 0 \in T
    <3>1. 0 \in 0 .. Len(s)
      BY <1>1
    <3>2. u[0] = << >>
      BY <1>9, <3>1 DEF IsSelection
    <3> QED BY <1>1, <3>1, <3>2
  <2>2. ASSUME NEW n \in 0 .. Len(s) - 1, n \in T PROVE n + 1 \in T
    <3>1. n + 1 \in 0 .. Len(s) /\ n + 1 # 0 /\ n + 1 - 1 = n /\ s[n + 1] \in X /\ u[n] \in Seq(X)
      BY <1>1, <2>2
    <3>2. u[n + 1] = IF s[n + 1] \in S THEN Append(u[n], s[n + 1]) ELSE u[n]
      BY <1>9, <3>1 DEF IsSelection
    <3>3. Append(u[n], s[n + 1]) \in Seq(X)
      BY <3>1, AppendProperties
    <3>4. u[n + 1] \in Seq(X)
      BY <3>1, <3>2, <3>3
    <3> QED BY <3>1, <3>4
  <2>3. 0 .. Len(s) \subseteq T
    <3> HIDE DEF T
    <3> QED BY <1>1, <2>1, <2>2, Upto
  <2>4. u = [n \in 0 .. Len(s) |-> u[n]]
    BY <1>6 DEF u
  <2> QED BY <2>3, <2>4
<1> QED
  <2> HIDE DEF u
  <2> QED BY <1>7, <1>9, <1>10

(* Only makes a sequence of a sequence.                                     *)
LEMMA OnlyTyped ==
  ASSUME NEW X, NEW s \in Seq(X), NEW S
  PROVE  Only(s, S) \in Seq(X)
<1>1. Len(s) \in 0 .. Len(s)
  OBVIOUS
<1> QED BY <1>1, SelectionExists

(* Nothing is selected from nothing.                                        *)
LEMMA OnlyEmpty ==
  ASSUME NEW S
  PROVE  Only(<< >>, S) = << >>
<1> DEFINE s == << >>
<1>1. s \in Seq({}) /\ Len(s) = 0
  OBVIOUS
<1> HIDE DEF s
<1>2. PICK f \in [0 .. Len(s) -> Seq({})] : IsSelection(f, s, S) /\ Only(s, S) = f[Len(s)]
  BY <1>1, SelectionExists
<1>3. f[0] = << >>
  BY <1>1, <1>2 DEF IsSelection
<1> QED BY <1>1, <1>2, <1>3 DEF s

(* One more element is selected when it is in S, and only then.             *)
LEMMA OnlyAppend ==
  ASSUME NEW X, NEW s \in Seq(X), NEW e \in X, NEW S
  PROVE  Only(Append(s, e), S) =
           IF e \in S THEN Append(Only(s, S), e) ELSE Only(s, S)
<1> DEFINE z == Append(s, e)
<1>1. /\ z \in Seq(X) /\ Len(z) = Len(s) + 1 /\ Len(s) \in Nat
      /\ \A i \in 1 .. Len(s) : z[i] = s[i]
      /\ z[Len(s) + 1] = e
  BY AppendProperties
<1> HIDE DEF z
<1>2. PICK f \in [0 .. Len(s) -> Seq(X)] : IsSelection(f, s, S) /\ Only(s, S) = f[Len(s)]
  BY SelectionExists
<1>3. PICK h \in [0 .. Len(z) -> Seq(X)] : IsSelection(h, z, S) /\ Only(z, S) = h[Len(z)]
  BY <1>1, SelectionExists
<1>4. 0 .. Len(s) \subseteq {n \in 0 .. Len(s) : h[n] = f[n]}
  <2> DEFINE T == {n \in 0 .. Len(s) : h[n] = f[n]}
  <2>1. 0 \in T
    BY <1>1, <1>2, <1>3 DEF IsSelection
  <2>2. ASSUME NEW n \in 0 .. Len(s) - 1, n \in T PROVE n + 1 \in T
    <3>1. /\ n + 1 \in 0 .. Len(s) /\ n + 1 \in 0 .. Len(z) /\ n + 1 # 0 /\ (n + 1) - 1 = n
          /\ z[n + 1] = s[n + 1] /\ h[n] = f[n]
      BY <1>1, <2>2
    <3>2. /\ f[n + 1] = IF s[n + 1] \in S THEN Append(f[n], s[n + 1]) ELSE f[n]
          /\ h[n + 1] = IF z[n + 1] \in S THEN Append(h[n], z[n + 1]) ELSE h[n]
      BY <1>2, <1>3, <3>1 DEF IsSelection
    <3> QED BY <3>1, <3>2
  <2> HIDE DEF T
  <2> QED BY <1>1, <2>1, <2>2, Upto DEF T
<1>5. h[Len(s)] = f[Len(s)]
  BY <1>1, <1>4
<1>6. h[Len(s) + 1] = IF e \in S THEN Append(h[Len(s)], e) ELSE h[Len(s)]
  <2>1. Len(s) + 1 \in 0 .. Len(z) /\ Len(s) + 1 # 0 /\ (Len(s) + 1) - 1 = Len(s)
    BY <1>1
  <2> QED BY <1>1, <1>3, <2>1 DEF IsSelection
<1> QED BY <1>1, <1>2, <1>3, <1>5, <1>6 DEF z

(* What is selected from s and t in turn is what is selected from each.     *)
Splits(s, t, S) == Only(s \o t, S) = Only(s, S) \o Only(t, S)

(* One more element of the second sequence.                                 *)
LEMMA OnlyConcatStep ==
  ASSUME NEW X, NEW s \in Seq(X), NEW t \in Seq(X), NEW e \in X, NEW S,
         Splits(s, t, S)
  PROVE  Splits(s, Append(t, e), S)
<1>1. s \o t \in Seq(X) /\ Only(s, S) \in Seq(X) /\ Only(t, S) \in Seq(X)
  BY ConcatProperties, OnlyTyped
<1>2. s \o Append(t, e) = Append(s \o t, e)
  BY AppendConcat
<1>3. Only(Append(s \o t, e), S) =
        IF e \in S THEN Append(Only(s \o t, S), e) ELSE Only(s \o t, S)
  <2> DEFINE z == s \o t
  <2>1. z \in Seq(X)
    BY <1>1
  <2> HIDE DEF z
  <2>2. Only(Append(z, e), S) = IF e \in S THEN Append(Only(z, S), e) ELSE Only(z, S)
    BY <2>1, OnlyAppend
  <2> QED BY <2>2 DEF z
<1>4. Only(Append(t, e), S) = IF e \in S THEN Append(Only(t, S), e) ELSE Only(t, S)
  BY OnlyAppend
<1>5. Only(s, S) \o Append(Only(t, S), e) = Append(Only(s, S) \o Only(t, S), e)
  BY <1>1, AppendConcat
<1> QED BY <1>2, <1>3, <1>4, <1>5 DEF Splits

(* Selecting from two sequences in turn.                                    *)
LEMMA OnlyConcat ==
  ASSUME NEW X, NEW s \in Seq(X), NEW t \in Seq(X), NEW S
  PROVE  Splits(s, t, S)
<1> DEFINE T == {u \in Seq(X) : Splits(s, u, S)}
<1>1. << >> \in T
  BY ConcatEmptySeq, OnlyEmpty, OnlyTyped DEF Splits
<1>2. ASSUME NEW u \in Seq(X), NEW e \in X, u \in T PROVE Append(u, e) \in T
  BY <1>2, OnlyConcatStep, AppendProperties
<1>3. Seq(X) \subseteq T
  <2> HIDE DEF T
  <2> QED BY <1>1, <1>2, SeqInduction
<1> QED BY <1>3

(* The first element is selected when it is in S, and only then.           *)
LEMMA OnlyHead ==
  ASSUME NEW X, NEW s \in Seq(X), s # << >>, NEW S
  PROVE  Only(s, S) = IF Head(s) \in S THEN << Head(s) >> \o Only(Tail(s), S)
                                       ELSE Only(Tail(s), S)
<1> DEFINE h == Head(s)
           one == Append(<< >>, h)
           rest == Tail(s)
<1>1. h \in X /\ rest \in Seq(X) /\ << >> \in Seq(X)
  BY HeadTailProperties, EmptySeq
<1>2. one \in Seq(X) /\ one = << h >>
  BY <1>1, AppendProperties
<1>3. s = one \o rest
  <2>1. 1 \in 1 .. Len(s) /\ Len(s) \in 1 .. Len(s)
    BY EmptySeq
  <2>2. SubSeq(s, 1, Len(s)) = << s[1] >> \o SubSeq(s, 2, Len(s))
    BY <2>1, SubSeqRecursiveFirst
  <2>3. SubSeq(s, 1, Len(s)) = s /\ rest = SubSeq(s, 2, Len(s))
    BY SubSeqFull, TailIsSubSeq
  <2> QED BY <1>2, <2>2, <2>3
<1>4. Only(one, S) = IF h \in S THEN one ELSE << >>
  <2> HIDE DEF h
  <2>1. Only(one, S) = IF h \in S THEN Append(Only(<< >>, S), h) ELSE Only(<< >>, S)
    BY <1>1, OnlyAppend
  <2> QED BY <2>1, OnlyEmpty
<1> HIDE DEF h, one, rest
<1>5. Only(s, S) = Only(one, S) \o Only(rest, S) /\ Only(rest, S) \in Seq(X)
  <2>1. Splits(one, rest, S)
    BY <1>1, <1>2, OnlyConcat
  <2>2. Only(rest, S) \in Seq(X)
    BY <1>1, OnlyTyped
  <2> QED BY <1>3, <2>1, <2>2 DEF Splits
<1>6. Only(s, S) = IF h \in S THEN << h >> \o Only(rest, S) ELSE Only(rest, S)
  BY <1>2, <1>4, <1>5, ConcatEmptySeq
<1> QED BY <1>6 DEF h, rest

(* Nothing is selected when no element is in S.                             *)
LEMMA OnlyNone ==
  ASSUME NEW X, NEW s \in Seq(X), NEW S, \A k \in 1 .. Len(s) : s[k] \notin S
  PROVE  Only(s, S) = << >>
<1> DEFINE T == {u \in Seq(X \ S) : Only(u, S) = << >>}
<1>1. << >> \in T
  BY OnlyEmpty
<1>2. ASSUME NEW u \in Seq(X \ S), NEW e \in X \ S, u \in T PROVE Append(u, e) \in T
  <2>1. Only(Append(u, e), S) = Only(u, S)
    BY OnlyAppend
  <2> QED BY <1>2, <2>1, AppendProperties
<1>3. Seq(X \ S) \subseteq T
  <2> HIDE DEF T
  <2> QED BY <1>1, <1>2, SeqInduction
<1>4. s \in Seq(X \ S)
  <2>1. \A k \in 1 .. Len(s) : s[k] \in X \ S
    BY ElementOfSeq
  <2>2. s = [k \in 1 .. Len(s) |-> s[k]] /\ Len(s) \in Nat
    BY LenProperties
  <2> QED BY <2>1, <2>2
<1> QED BY <1>3, <1>4

(* Everything is selected when all elements are in S.                       *)
LEMMA OnlyAll ==
  ASSUME NEW S, NEW s \in Seq(S)
  PROVE  Only(s, S) = s
<1> DEFINE T == {u \in Seq(S) : Only(u, S) = u}
<1>1. << >> \in T
  BY OnlyEmpty
<1>2. ASSUME NEW u \in Seq(S), NEW e \in S, u \in T PROVE Append(u, e) \in T
  <2>1. Only(Append(u, e), S) = Append(Only(u, S), e)
    BY OnlyAppend
  <2> QED BY <1>2, <2>1, AppendProperties
<1>3. Seq(S) \subseteq T
  <2> HIDE DEF T
  <2> QED BY <1>1, <1>2, SeqInduction
<1> QED BY <1>3

(* What is selected are elements of the sequence that are in S.             *)
LEMMA OnlyMembers ==
  ASSUME NEW X, NEW s \in Seq(X), NEW S
  PROVE  Only(s, S) \in Seq(X \cap S)
<1> DEFINE T == {u \in Seq(X) : Only(u, S) \in Seq(X \cap S)}
<1>1. << >> \in T
  <2>1. << >> \in Seq(X) /\ << >> \in Seq(X \cap S)
    OBVIOUS
  <2> QED BY <2>1, OnlyEmpty
<1>2. ASSUME NEW u \in Seq(X), NEW e \in X, u \in T PROVE Append(u, e) \in T
  <2>1. Only(Append(u, e), S) = IF e \in S THEN Append(Only(u, S), e) ELSE Only(u, S)
    BY OnlyAppend
  <2>2. Only(u, S) \in Seq(X \cap S)
    BY <1>2
  <2>3. CASE e \in S
    BY <2>1, <2>2, <2>3, AppendProperties
  <2>4. CASE e \notin S
    BY <2>1, <2>2, <2>4, AppendProperties
  <2> QED BY <2>3, <2>4
<1>3. Seq(X) \subseteq T
  <2> HIDE DEF T
  <2> QED BY <1>1, <1>2, SeqInduction
<1> QED BY <1>3

(* Cutting off elements outside S, in front and behind, loses nothing.      *)
LEMMA OnlySlice ==
  ASSUME NEW X, NEW s \in Seq(X), NEW i \in 0 .. Len(s), NEW j \in i .. Len(s), NEW S,
         \A k \in 1 .. i : s[k] \notin S,
         \A k \in j + 1 .. Len(s) : s[k] \notin S
  PROVE  Only(SubSeq(s, i + 1, j), S) = Only(s, S)
<1> DEFINE a == SubSeq(s, 1, i)
           b == SubSeq(s, i + 1, j)
           c == SubSeq(s, j + 1, Len(s))
           d == SubSeq(s, 1, j)
<1>1. /\ a \in Seq(X) /\ b \in Seq(X) /\ c \in Seq(X)
      /\ a \o b = d /\ d \o c = s
  BY Slices
<1>2. \A k \in 1 .. Len(a) : a[k] \notin S
  BY Slices
<1>3. \A k \in 1 .. Len(c) : c[k] \notin S
  <2>1. Len(c) = Len(s) - j /\ \A k \in 1 .. Len(s) - j : c[k] = s[j + k]
    BY Slices
  <2>2. Len(s) \in Nat /\ j \in Nat
    OBVIOUS
  <2>3. \A k \in 1 .. Len(s) - j : j + k \in j + 1 .. Len(s)
    BY <2>2
  <2> HIDE DEF c
  <2> QED BY <2>1, <2>3
<1> HIDE DEF a, b, c, d
<1>4. Only(a, S) = << >> /\ Only(c, S) = << >> /\ Only(b, S) \in Seq(X)
  BY <1>1, <1>2, <1>3, OnlyNone, OnlyTyped
<1>5. d \in Seq(X)
  BY <1>1, ConcatProperties
<1>6. Splits(a, b, S)
  BY <1>1, OnlyConcat
<1>7. Splits(d, c, S)
  BY <1>1, <1>5, OnlyConcat
<1>8. Only(s, S) = Only(b, S)
  BY <1>1, <1>4, <1>6, <1>7, ConcatEmptySeq DEF Splits
<1> QED BY <1>8 DEF b

(* What is selected stands in the sequence.                                 *)
LEMMA OnlyFrom ==
  ASSUME NEW X, NEW s \in Seq(X), NEW S
  PROVE  Only(s, S) \in Seq(X \cap S \cap Members(s))
<1> DEFINE M == Members(s)
           Y == X \cap M
<1>1. s \in Seq(Y)
  <2>1. \A k \in 1 .. Len(s) : s[k] \in Y
    BY DEF Members
  <2> HIDE DEF Y
  <2> QED
    BY <2>1
<1> HIDE DEF Y
<1>2. Only(s, S) \in Seq(Y \cap S)
  BY <1>1, OnlyMembers
<1>3. Y \cap S = X \cap S \cap M
  BY DEF Y
<1> QED
  BY <1>2, <1>3

(* The members of sequences put together.                                   *)
LEMMA MembersAppend ==
  ASSUME NEW X, NEW s \in Seq(X), NEW e \in X
  PROVE  Members(Append(s, e)) = Members(s) \cup {e}
<1>1. /\ Len(s) \in Nat /\ Len(Append(s, e)) = Len(s) + 1
      /\ Append(s, e)[Len(s) + 1] = e
      /\ \A k \in 1 .. Len(s) : Append(s, e)[k] = s[k]
  BY AppendProperties, LenProperties
<1>2. DOMAIN s = 1 .. Len(s) /\ DOMAIN Append(s, e) = 1 .. Len(s) + 1
  BY <1>1, AppendProperties, LenProperties
<1>3. 1 .. Len(s) + 1 = (1 .. Len(s)) \cup {Len(s) + 1}
  BY <1>1
<1> DEFINE t == Append(s, e)
<1>4. DOMAIN t = DOMAIN s \cup {Len(s) + 1}
  BY <1>2, <1>3
<1>5. t[Len(s) + 1] = e /\ \A k \in DOMAIN s : t[k] = s[k]
  BY <1>1, <1>2
<1> HIDE DEF t
<1>6. Members(t) = Members(s) \cup {e}
  BY <1>4, <1>5 DEF Members
<1> QED BY <1>6 DEF t

(* The members of two sequences.                                           *)
LEMMA MembersConcat ==
  ASSUME NEW X, NEW s \in Seq(X), NEW t \in Seq(X)
  PROVE  Members(s \o t) = Members(s) \cup Members(t)
<1> DEFINE T == {u \in Seq(X) : Members(s \o u) = Members(s) \cup Members(u)}
<1>1. << >> \in T
  <2>1. s \o << >> = s /\ Members(<< >>) = {} /\ << >> \in Seq(X)
    BY ConcatEmptySeq DEF Members
  <2> QED BY <2>1
<1>2. ASSUME NEW u \in Seq(X), NEW e \in X, u \in T PROVE Append(u, e) \in T
  <2>1. s \o Append(u, e) = Append(s \o u, e)
    BY AppendConcat
  <2>2. s \o u \in Seq(X) /\ Append(u, e) \in Seq(X)
    BY ConcatProperties, AppendProperties
  <2>3. Members(Append(s \o u, e)) = Members(s \o u) \cup {e}
    <3> DEFINE v == s \o u
    <3>1. v \in Seq(X)
      BY <2>2
    <3> HIDE DEF v
    <3>2. Members(Append(v, e)) = Members(v) \cup {e}
      BY <3>1, MembersAppend
    <3> QED BY <3>2 DEF v
  <2>4. Members(Append(u, e)) = Members(u) \cup {e}
    BY MembersAppend
  <2> QED BY <1>2, <2>1, <2>2, <2>3, <2>4
<1>3. Seq(X) \subseteq T
  <2> HIDE DEF T
  <2> QED BY <1>1, <1>2, SeqInduction
<1> QED BY <1>3

(* What is selected are exactly the elements in S.                          *)
LEMMA OnlySelects ==
  ASSUME NEW X, NEW s \in Seq(X), NEW S
  PROVE  Members(Only(s, S)) = Members(s) \cap S
<1> DEFINE T == {u \in Seq(X) : Members(Only(u, S)) = Members(u) \cap S}
<1>1. << >> \in T
  <2>1. << >> \in Seq(X) /\ Members(<< >>) = {}
    BY DEF Members
  <2> QED BY <2>1, OnlyEmpty
<1>2. ASSUME NEW u \in Seq(X), NEW e \in X, u \in T PROVE Append(u, e) \in T
  <2>1. Only(Append(u, e), S) = IF e \in S THEN Append(Only(u, S), e) ELSE Only(u, S)
    BY OnlyAppend
  <2>2. Only(u, S) \in Seq(X) /\ Append(u, e) \in Seq(X)
    BY OnlyTyped, AppendProperties
  <2>3. Members(Append(u, e)) = Members(u) \cup {e}
    BY MembersAppend
  <2>4. Members(Append(Only(u, S), e)) = Members(Only(u, S)) \cup {e}
    BY <2>2, MembersAppend
  <2> QED BY <1>2, <2>1, <2>2, <2>3, <2>4
<1>3. Seq(X) \subseteq T
  <2> HIDE DEF T
  <2> QED BY <1>1, <1>2, SeqInduction
<1> QED BY <1>3

(* Every two elements of s are related by R, the one in front first.        *)
Chain(s, R) == \A j, k \in DOMAIN s : j < k => << s[j], s[k] >> \in R

(* What is selected keeps its order.                                        *)
LEMMA OnlyChain ==
  ASSUME NEW X, NEW s \in Seq(X), NEW S, NEW R, Chain(s, R)
  PROVE  Chain(Only(s, S), R)
<1> DEFINE T == {u \in Seq(X) : Chain(u, R) => Chain(Only(u, S), R)}
<1>1. << >> \in T
  BY OnlyEmpty DEF Chain
<1>2. ASSUME NEW u \in Seq(X), NEW e \in X, u \in T
      PROVE  Append(u, e) \in T
  <2> DEFINE v == Append(u, e)
             o == Only(u, S)
             n == Len(u)
  <2>1. /\ v \in Seq(X) /\ n \in Nat /\ Len(v) = n + 1 /\ v[n + 1] = e
        /\ \A i \in 1 .. n : v[i] = u[i]
    BY AppendProperties
  <2>2. o \in Seq(X \cap S \cap Members(u)) /\ o \in Seq(X)
    BY OnlyFrom, OnlyTyped
  <2>3. Only(v, S) = IF e \in S THEN Append(o, e) ELSE o
    BY OnlyAppend
  <2> HIDE DEF v, o, n
  <2>4. ASSUME Chain(v, R)
        PROVE  Chain(Only(v, S), R)
    <3>1. DOMAIN v = 1 .. n + 1 /\ DOMAIN u = 1 .. n
      BY <2>1 DEF n
    <3>2. Chain(u, R) /\ \A i \in 1 .. n : << u[i], e >> \in R
      <4>1. \A j, k \in 1 .. n + 1 : j < k => << v[j], v[k] >> \in R
        BY <2>4, <3>1 DEF Chain
      <4>2. \A j, k \in 1 .. n : j < k => << u[j], u[k] >> \in R
        BY <2>1, <4>1
      <4>3. \A i \in 1 .. n : << u[i], e >> \in R
        BY <2>1, <4>1
      <4> QED
        BY <3>1, <4>2, <4>3 DEF Chain
    <3>3. Chain(o, R)
      BY <1>2, <3>2 DEF o
    <3>4. ASSUME NEW i \in 1 .. Len(o)
          PROVE  << o[i], e >> \in R
      <4>1. o[i] \in Members(u)
        BY <2>2, ElementOfSeq
      <4> QED
        BY <3>1, <3>2, <4>1 DEF Members
    <3>5. Chain(Append(o, e), R)
      <4> DEFINE a == Append(o, e)
                 m == Len(o)
      <4>1. /\ m \in Nat /\ DOMAIN a = 1 .. m + 1 /\ DOMAIN o = 1 .. m
            /\ a[m + 1] = e /\ \A i \in 1 .. m : a[i] = o[i]
        BY <2>2, AppendProperties
      <4> HIDE DEF a, m
      <4> SUFFICES ASSUME NEW j \in 1 .. m + 1, NEW k \in 1 .. m + 1, j < k
                   PROVE  << a[j], a[k] >> \in R
        BY <4>1 DEF Chain, a
      <4>2. j \in 1 .. m /\ a[j] = o[j]
        BY <4>1
      <4>3. CASE k = m + 1
        BY <3>4, <4>1, <4>2, <4>3 DEF m
      <4>4. CASE k \in 1 .. m
        BY <3>3, <4>1, <4>2, <4>4 DEF Chain
      <4> QED
        BY <4>1, <4>3, <4>4
    <3> QED
      BY <2>3, <3>3, <3>5
  <2> QED
    BY <2>1, <2>4 DEF v
<1>3. Seq(X) \subseteq T
  <2> HIDE DEF T
  <2> QED BY <1>1, <1>2, SeqInduction
<1> QED
  BY <1>3

(* A chain that goes on in another one.                                     *)
LEMMA ChainConcat ==
  ASSUME NEW X, NEW s \in Seq(X), NEW t \in Seq(X), NEW R,
         Chain(s, R), Chain(t, R),
         \A j \in DOMAIN s, k \in DOMAIN t : << s[j], t[k] >> \in R
  PROVE  Chain(s \o t, R)
<1> DEFINE u == s \o t
           m == Len(s)
           n == Len(t)
<1>1. /\ m \in Nat /\ n \in Nat /\ DOMAIN s = 1 .. m /\ DOMAIN t = 1 .. n
      /\ DOMAIN u = 1 .. m + n
      /\ \A i \in 1 .. m : u[i] = s[i]
      /\ \A i \in m + 1 .. m + n : u[i] = t[i - m] /\ i - m \in 1 .. n
  BY ConcatProperties
<1> HIDE DEF u, m, n
<1> SUFFICES ASSUME NEW j \in 1 .. m + n, NEW k \in 1 .. m + n, j < k
             PROVE  << u[j], u[k] >> \in R
  BY <1>1 DEF Chain, u
<1>2. CASE k \in 1 .. m
  <2>1. j \in 1 .. m
    BY <1>1, <1>2
  <2> QED
    BY <1>1, <1>2, <2>1 DEF Chain
<1>3. CASE k \in m + 1 .. m + n /\ j \in 1 .. m
  BY <1>1, <1>3
<1>4. CASE k \in m + 1 .. m + n /\ j \in m + 1 .. m + n
  <2>1. j - m < k - m
    BY <1>1, <1>4
  <2> QED
    BY <1>1, <1>4, <2>1 DEF Chain
<1> QED
  BY <1>1, <1>2, <1>3, <1>4

(* The beginning of a chain.                                                *)
LEMMA ChainPrefix ==
  ASSUME NEW X, NEW s \in Seq(X), NEW n \in 0 .. Len(s), NEW R, Chain(s, R)
  PROVE  Chain(SubSeq(s, 1, n), R)
<1> DEFINE p == SubSeq(s, 1, n)
<1>1. p \in Seq(X) /\ Len(p) = n /\ \A i \in 1 .. n : p[i] = s[i]
  BY Prefix
<1>2. DOMAIN p = 1 .. n /\ 1 .. n \subseteq DOMAIN s
  BY <1>1
<1> HIDE DEF p
<1> QED
  BY <1>1, <1>2 DEF Chain, p

(* Division with a remainder is unique.                                    *)
LEMMA Division ==
  ASSUME NEW S \in Nat \ {0}, NEW q \in Nat, NEW r \in 0 .. S - 1
  PROVE  (q * S + r) \div S = q /\ (q * S + r) % S = r
OBVIOUS

(* Of two multiples the greater is a whole step ahead.                     *)
LEMMA Product ==
  ASSUME NEW a \in Nat, NEW b \in Nat, NEW w \in Nat, a < b
  PROVE  a * w + w <= b * w
OBVIOUS

(* u follows g: what primitive recursion up to N makes of a and g, as an   *)
(* equation of u gives it before u is known to have values in D.           *)
Follows(u, N, D, a, g) ==
  /\ u = [n \in 0 .. N |-> u[n]]
  /\ u[0] = a
  /\ \A n \in 1 .. N : u[n - 1] \in D => u[n] = g[<< u[n - 1], n >>]

(* Then it has.                                                            *)
LEMMA RecursionTyped ==
  ASSUME NEW N \in Nat, NEW D, NEW a \in D, NEW g \in [D \X (1 .. N) -> D],
         NEW u, Follows(u, N, D, a, g)
  PROVE  u \in [0 .. N -> D] /\ IsRecursive(u, N, a, g)
<1> DEFINE T == {n \in 0 .. N : u[n] \in D}
<1>1. 0 \in T
  BY DEF Follows
<1>2. ASSUME NEW n \in 0 .. N - 1, n \in T PROVE n + 1 \in T
  <2>1. n + 1 \in 1 .. N /\ (n + 1) - 1 = n /\ n + 1 \in 0 .. N
    OBVIOUS
  <2>2. u[n] \in D
    BY <1>2
  <2>3. u[n + 1] = g[<< u[n], n + 1 >>]
    <3>1. u[(n + 1) - 1] \in D => u[n + 1] = g[<< u[(n + 1) - 1], n + 1 >>]
      BY <2>1 DEF Follows
    <3> QED BY <2>1, <2>2, <3>1
  <2>4. << u[n], n + 1 >> \in D \X (1 .. N)
    BY <2>1, <2>2
  <2> QED
    BY <2>1, <2>3, <2>4
<1>3. 0 .. N \subseteq T
  <2> HIDE DEF T
  <2> QED BY <1>1, <1>2, Upto
<1>4. u \in [0 .. N -> D]
  <2>1. \A n \in 0 .. N : u[n] \in D
    BY <1>3
  <2>2. u = [n \in 0 .. N |-> u[n]]
    BY DEF Follows
  <2> QED BY <2>1, <2>2
<1>5. \A n \in 0 .. N : n # 0 => n - 1 \in 0 .. N /\ n \in 1 .. N
  OBVIOUS
<1> QED
  BY <1>4, <1>5 DEF Follows, IsRecursive

(* f is the concatenation of more and more of the sequences of ss.         *)
IsJoining(f, ss) ==
  \A n \in 0 .. Len(ss) : f[n] = IF n = 0 THEN << >> ELSE f[n - 1] \o ss[n]

(* Joined is what the equation of its recursion says.                      *)
LEMMA JoiningExists ==
  ASSUME NEW X, NEW ss \in Seq(Seq(X))
  PROVE  \E f \in [0 .. Len(ss) -> Seq(X)] :
           IsJoining(f, ss) /\ Joined(ss) = f[Len(ss)]
<1> DEFINE N == Len(ss)
           D == Seq(X)
           g == [y \in D \X (1 .. N) |-> y[1] \o ss[y[2]]]
           Is(f) == f = [n \in 0 .. N |-> IF n = 0 THEN << >> ELSE f[n - 1] \o ss[n]]
           u == CHOOSE f : Is(f)
<1>1. N \in Nat /\ << >> \in D /\ \A n \in 1 .. N : ss[n] \in D
  OBVIOUS
<1>2. g \in [D \X (1 .. N) -> D]
  <2>1. ASSUME NEW y \in D \X (1 .. N)
        PROVE  y[1] \o ss[y[2]] \in D
    <3>1. y[1] \in D /\ ss[y[2]] \in D
      BY <1>1
    <3> QED BY <3>1, ConcatProperties
  <2> QED BY <2>1
<1>3. \A y \in D, n \in 1 .. N : g[<< y, n >>] = y \o ss[n]
  OBVIOUS
<1>4. Joined(ss) = u[N]
  BY DEF Joined
<1>5. Is(u)
  <2>1. PICK f \in [0 .. N -> D] : IsRecursive(f, N, << >>, g)
    <3> HIDE DEF g, N, D
    <3> QED BY <1>1, <1>2, Recursion
  <2> HIDE DEF g, D, N
  <2>2. \A n \in 0 .. N : n # 0 => n - 1 \in 0 .. N /\ n \in 1 .. N
    BY <1>1
  <2>3. \A n \in 0 .. N : f[n] = IF n = 0 THEN << >> ELSE f[n - 1] \o ss[n]
    BY <1>3, <2>1, <2>2 DEF IsRecursive
  <2>4. Is(f)
    BY <2>1, <2>3
  <2> HIDE DEF Is
  <2> QED BY <2>4
<1>6. Follows(u, N, D, << >>, g) /\ IsJoining(u, ss)
  <2> HIDE DEF g, u, D
  <2>1. \A n \in 1 .. N : n # 0 /\ n \in 0 .. N
    BY <1>1
  <2>2. u = [n \in 0 .. N |-> IF n = 0 THEN << >> ELSE u[n - 1] \o ss[n]]
    BY <1>5
  <2>3. u[0] = << >> /\ \A n \in 1 .. N : u[n] = u[n - 1] \o ss[n]
    BY <1>1, <2>1, <2>2
  <2>4. u = [n \in 0 .. N |-> u[n]]
    BY <2>2
  <2>5. IsJoining(u, ss)
    BY <2>2 DEF IsJoining
  <2> HIDE DEF N
  <2> QED BY <1>3, <2>3, <2>4, <2>5 DEF Follows
<1>7. u \in [0 .. N -> D]
  <2> HIDE DEF g, u, D, N
  <2> QED BY <1>1, <1>2, <1>6, RecursionTyped
<1> QED
  <2> HIDE DEF u
  <2> QED BY <1>4, <1>6, <1>7

(* The sequences put together are a sequence.                               *)
LEMMA JoinedTyped ==
  ASSUME NEW X, NEW ss \in Seq(Seq(X))
  PROVE  Joined(ss) \in Seq(X)
<1>1. Len(ss) \in 0 .. Len(ss)
  OBVIOUS
<1> QED BY <1>1, JoiningExists

(* Without sequences there is nothing to put together.                      *)
LEMMA JoinedEmpty == Joined(<< >>) = << >>
<1> DEFINE s == << >>
<1>1. s \in Seq(Seq({})) /\ Len(s) = 0
  OBVIOUS
<1> HIDE DEF s
<1>2. PICK f \in [0 .. Len(s) -> Seq({})] : IsJoining(f, s) /\ Joined(s) = f[Len(s)]
  BY <1>1, JoiningExists
<1>3. f[0] = << >>
  BY <1>1, <1>2 DEF IsJoining
<1> QED BY <1>1, <1>2, <1>3 DEF s

(* One more sequence stands behind the others.                              *)
LEMMA JoinedAppend ==
  ASSUME NEW X, NEW s \in Seq(Seq(X)), NEW e \in Seq(X)
  PROVE  Joined(Append(s, e)) = Joined(s) \o e
<1> DEFINE z == Append(s, e)
<1>1. /\ z \in Seq(Seq(X)) /\ Len(z) = Len(s) + 1 /\ Len(s) \in Nat
      /\ \A i \in 1 .. Len(s) : z[i] = s[i]
      /\ z[Len(s) + 1] = e
  BY AppendProperties
<1> HIDE DEF z
<1>2. PICK f \in [0 .. Len(s) -> Seq(X)] : IsJoining(f, s) /\ Joined(s) = f[Len(s)]
  BY JoiningExists
<1>3. PICK h \in [0 .. Len(z) -> Seq(X)] : IsJoining(h, z) /\ Joined(z) = h[Len(z)]
  BY <1>1, JoiningExists
<1>4. 0 .. Len(s) \subseteq {n \in 0 .. Len(s) : h[n] = f[n]}
  <2> DEFINE T == {n \in 0 .. Len(s) : h[n] = f[n]}
  <2>1. 0 \in T
    <3>1. 0 \in 0 .. Len(s) /\ 0 \in 0 .. Len(z)
      BY <1>1
    <3>2. f[0] = << >> /\ h[0] = << >>
      BY <1>2, <1>3, <3>1 DEF IsJoining
    <3> QED BY <3>1, <3>2
  <2>2. ASSUME NEW n \in 0 .. Len(s) - 1, n \in T PROVE n + 1 \in T
    <3>1. /\ n + 1 \in 0 .. Len(s) /\ n + 1 \in 0 .. Len(z) /\ n + 1 # 0 /\ (n + 1) - 1 = n
          /\ z[n + 1] = s[n + 1] /\ h[n] = f[n]
      BY <1>1, <2>2
    <3>2. f[n + 1] = f[n] \o s[n + 1] /\ h[n + 1] = h[n] \o z[n + 1]
      BY <1>2, <1>3, <3>1 DEF IsJoining
    <3> QED BY <3>1, <3>2
  <2> HIDE DEF T
  <2> QED BY <1>1, <2>1, <2>2, Upto DEF T
<1>5. h[Len(s)] = f[Len(s)]
  <2>1. Len(s) \in 0 .. Len(s)
    BY <1>1
  <2> QED BY <1>4, <2>1
<1>6. h[Len(s) + 1] = h[Len(s)] \o e
  <2>1. Len(s) + 1 \in 0 .. Len(z) /\ Len(s) + 1 # 0 /\ (Len(s) + 1) - 1 = Len(s)
    BY <1>1
  <2> QED BY <1>1, <1>3, <2>1 DEF IsJoining
<1> QED BY <1>1, <1>2, <1>3, <1>5, <1>6 DEF z

(* f is the values of more and more of the options.                         *)
IsFilling(f, options) ==
  \A n \in 0 .. Len(options) :
    f[n] = IF n = 0 THEN << >>
           ELSE IF options[n] = {} THEN f[n - 1]
           ELSE Append(f[n - 1], CHOOSE v \in options[n] : TRUE)

(* Present is what the equation of its recursion says.                     *)
LEMMA FillingExists ==
  ASSUME NEW X, NEW options \in Seq(SUBSET X)
  PROVE  \E f \in [0 .. Len(options) -> Seq(X)] :
           IsFilling(f, options) /\ Present(options) = f[Len(options)]
<1> DEFINE N == Len(options)
           D == Seq(X)
           some(n) == CHOOSE v \in options[n] : TRUE
           more(d, n) == IF options[n] = {} THEN d ELSE Append(d, some(n))
           g == [y \in D \X (1 .. N) |-> more(y[1], y[2])]
           Is(f) == f = [n \in 0 .. N |->
                           IF n = 0 THEN << >>
                           ELSE IF options[n] = {} THEN f[n - 1]
                           ELSE Append(f[n - 1], CHOOSE v \in options[n] : TRUE)]
           u == CHOOSE f : Is(f)
<1>1. N \in Nat /\ << >> \in D /\ \A n \in 1 .. N : options[n] \in SUBSET X
  OBVIOUS
<1>2. ASSUME NEW d \in D, NEW n \in 1 .. N
      PROVE  more(d, n) \in D
  <2>1. CASE options[n] = {}
    BY <2>1
  <2>2. CASE options[n] # {}
    <3>1. some(n) \in X
      BY <1>1, <2>2
    <3> HIDE DEF some
    <3>2. Append(d, some(n)) \in D
      BY <3>1, AppendProperties
    <3> QED BY <2>2, <3>2
  <2> QED BY <2>1, <2>2
<1>3. /\ g \in [D \X (1 .. N) -> D]
      /\ \A y \in D, n \in 1 .. N : g[<< y, n >>] = more(y, n)
  <2> HIDE DEF more, D, N
  <2> QED BY <1>2
<1>4. Present(options) = u[N]
  BY DEF Present
<1>5. Is(u)
  <2>1. PICK f \in [0 .. N -> D] : IsRecursive(f, N, << >>, g)
    <3> HIDE DEF g, N, D, more
    <3> QED BY <1>1, <1>3, Recursion
  <2>2. Is(f)
    <3>1. \A n \in 0 .. N : n # 0 => n - 1 \in 0 .. N /\ n \in 1 .. N
      BY <1>1
    <3> HIDE DEF g, D, N, more
    <3>2. \A n \in 0 .. N : f[n] = IF n = 0 THEN << >> ELSE more(f[n - 1], n)
      BY <1>3, <2>1, <3>1 DEF IsRecursive
    <3>3. f = [n \in 0 .. N |-> IF n = 0 THEN << >> ELSE more(f[n - 1], n)]
      BY <2>1, <3>2
    <3> QED BY <3>3 DEF more
  <2> HIDE DEF Is
  <2> QED BY <2>2
<1>6. Follows(u, N, D, << >>, g) /\ IsFilling(u, options)
  <2> HIDE DEF g, u, D
  <2>1. \A n \in 1 .. N : n # 0 /\ n \in 0 .. N
    BY <1>1
  <2>2. u = [n \in 0 .. N |-> IF n = 0 THEN << >> ELSE more(u[n - 1], n)]
    BY <1>5
  <2>3. IsFilling(u, options)
    BY <1>5 DEF IsFilling
  <2> HIDE DEF more
  <2>4. u[0] = << >> /\ \A n \in 1 .. N : u[n] = more(u[n - 1], n)
    BY <1>1, <2>1, <2>2
  <2>5. u = [n \in 0 .. N |-> u[n]]
    BY <2>2
  <2> HIDE DEF N
  <2> QED BY <1>3, <2>3, <2>4, <2>5 DEF Follows
<1>7. u \in [0 .. N -> D]
  <2> HIDE DEF g, u, D, N, more
  <2> QED BY <1>1, <1>3, <1>6, RecursionTyped
<1> QED
  <2> HIDE DEF u
  <2> QED BY <1>4, <1>6, <1>7

(* The values that are there are a sequence.                                *)
LEMMA PresentTyped ==
  ASSUME NEW X, NEW options \in Seq(SUBSET X)
  PROVE  Present(options) \in Seq(X)
<1>1. Len(options) \in 0 .. Len(options)
  OBVIOUS
<1> QED BY <1>1, FillingExists
-----------------------------------------------------------------------------
(* The assembler fed with several segments.                                 *)

(* The assemblers that hold segments of S, whose times are in T and whose  *)
(* states are in U; and the display sets they return.                      *)
Assemblers(S, T, U) == [segments : Seq(S), pts : T, state : U]
AssembledSets(S, T, U) == [pts : T, state : U, segments : Seq(S)]
IsFed(S, T, U) == None \in U /\ \A s \in S : s.pts \in T /\ s.comp \in U

(* A push returns an assembler and display sets of their types.             *)
LEMMA AsmPushTyped ==
  ASSUME NEW S, NEW T, NEW U, IsFed(S, T, U), NEW a \in Assemblers(S, T, U), NEW s \in S
  PROVE  /\ AsmPush(a, s) \in Assemblers(S, T, U)
         /\ AsmOut(a, s) \in Seq(AssembledSets(S, T, U))
<1>1. a.segments \in Seq(S) /\ a.pts \in T /\ a.state \in U
      /\ a = [segments |-> a.segments, pts |-> a.pts, state |-> a.state]
  BY DEF Assemblers
<1>2. Append(a.segments, s) \in Seq(S) /\ << s >> \in Seq(S) /\ << >> \in Seq(S)
  BY <1>1, AppendProperties
<1>3. s.pts \in T /\ s.comp \in U /\ None \in U
  BY DEF IsFed
<1>4. AsmPush(a, s) \in Assemblers(S, T, U)
  <2>1. CASE s.type = "PCS"
    BY <2>1, <1>1, <1>2, <1>3 DEF AsmPush, Assemblers
  <2>2. CASE s.type = "END"
    <3>1. AsmPush(a, s) = [segments |-> << >>, pts |-> a.pts, state |-> None]
      BY <2>2, <1>1 DEF AsmPush, AsmReset
    <3> QED BY <3>1, <1>1, <1>2, <1>3 DEF Assemblers
  <2>3. CASE s.type # "PCS" /\ s.type # "END"
    <3>1. AsmPush(a, s) = [segments |-> Append(a.segments, s), pts |-> a.pts, state |-> a.state]
      BY <2>3, <1>1 DEF AsmPush
    <3> QED BY <3>1, <1>1, <1>2 DEF Assemblers
  <2> QED BY <2>1, <2>2, <2>3
<1>5. AsmOut(a, s) \in Seq(AssembledSets(S, T, U))
  <2> DEFINE y == [pts |-> a.pts, state |-> a.state, segments |-> Append(a.segments, s)]
  <2>1. y \in AssembledSets(S, T, U)
    BY <1>1, <1>2 DEF AssembledSets
  <2>2. AsmOut(a, s) = << >> \/ AsmOut(a, s) = << y >>
    BY DEF AsmOut
  <2> HIDE DEF y
  <2>3. << y >> \in Seq(AssembledSets(S, T, U)) /\ << >> \in Seq(AssembledSets(S, T, U))
    BY <2>1
  <2> QED BY <2>2, <2>3
<1> QED BY <1>4, <1>5

(* f is the assembler and r the display sets it has returned after more    *)
(* and more of segs.                                                       *)
IsFeeding(f, r, a, segs) ==
  \A k \in 0 .. Len(segs) :
    /\ f[k] = IF k = 0 THEN a ELSE AsmPush(f[k - 1], segs[k])
    /\ r[k] = IF k = 0 THEN << >> ELSE r[k - 1] \o AsmOut(f[k - 1], segs[k])

(* AsmFeed is what the equations of its recursions say.                     *)
LEMMA FeedingExists ==
  ASSUME NEW S, NEW T, NEW U, IsFed(S, T, U), NEW a \in Assemblers(S, T, U),
         NEW segs \in Seq(S)
  PROVE  \E f \in [0 .. Len(segs) -> Assemblers(S, T, U)],
            r \in [0 .. Len(segs) -> Seq(AssembledSets(S, T, U))] :
           /\ IsFeeding(f, r, a, segs)
           /\ AsmFeed(a, segs) = [asm |-> f[Len(segs)], sets |-> r[Len(segs)]]
<1> DEFINE N == Len(segs)
           D == Assemblers(S, T, U)
           E == Seq(AssembledSets(S, T, U))
           g == [y \in D \X (1 .. N) |-> AsmPush(y[1], segs[y[2]])]
           IsF(f) == f = [k \in 0 .. N |-> IF k = 0 THEN a ELSE AsmPush(f[k - 1], segs[k])]
           u == CHOOSE f : IsF(f)
           h == [y \in E \X (1 .. N) |-> y[1] \o AsmOut(u[y[2] - 1], segs[y[2]])]
           IsR(r) == r = [k \in 0 .. N |-> IF k = 0 THEN << >>
                                           ELSE r[k - 1] \o AsmOut(u[k - 1], segs[k])]
           v == CHOOSE r : IsR(r)
<1>1. N \in Nat /\ << >> \in E /\ a \in D /\ \A k \in 1 .. N : segs[k] \in S
  OBVIOUS
<1>2. \A k \in 0 .. N : k # 0 => k - 1 \in 0 .. N /\ k \in 1 .. N
  BY <1>1
<1>3. \A k \in 1 .. N : k # 0 /\ k \in 0 .. N /\ k - 1 \in 0 .. N
  BY <1>1
<1>4. g \in [D \X (1 .. N) -> D] /\ \A y \in D, k \in 1 .. N : g[<< y, k >>] = AsmPush(y, segs[k])
  <2>1. \A y \in D, k \in 1 .. N : AsmPush(y, segs[k]) \in D
    BY <1>1, AsmPushTyped
  <2> HIDE DEF D, N
  <2> QED BY <2>1
<1>5. IsF(u)
  <2>1. PICK f \in [0 .. N -> D] : IsRecursive(f, N, a, g)
    <3> HIDE DEF g, N, D
    <3> QED BY <1>1, <1>4, Recursion
  <2> HIDE DEF g, D, N
  <2>3. \A k \in 0 .. N : f[k] = IF k = 0 THEN a ELSE AsmPush(f[k - 1], segs[k])
    BY <1>2, <1>4, <2>1 DEF IsRecursive
  <2>4. IsF(f)
    BY <2>1, <2>3
  <2> HIDE DEF IsF
  <2> QED BY <2>4
<1>6. u \in [0 .. N -> D] /\ \A k \in 0 .. N : u[k] = IF k = 0 THEN a ELSE AsmPush(u[k - 1], segs[k])
  <2>1. u = [k \in 0 .. N |-> IF k = 0 THEN a ELSE AsmPush(u[k - 1], segs[k])]
    BY <1>5
  <2> HIDE DEF g, u, D, N
  <2>2. \A k \in 0 .. N : u[k] = IF k = 0 THEN a ELSE AsmPush(u[k - 1], segs[k])
    BY <2>1
  <2>3. u = [k \in 0 .. N |-> u[k]]
    BY <2>1
  <2>4. 0 \in 0 .. N
    BY <1>1
  <2>5. Follows(u, N, D, a, g)
    BY <1>3, <1>4, <2>2, <2>3, <2>4 DEF Follows
  <2>6. u \in [0 .. N -> D]
    BY <1>1, <1>4, <2>5, RecursionTyped
  <2> QED BY <2>2, <2>6
<1> HIDE DEF u
<1>7. /\ h \in [E \X (1 .. N) -> E]
      /\ \A y \in E, k \in 1 .. N : h[<< y, k >>] = y \o AsmOut(u[k - 1], segs[k])
  <2>1. ASSUME NEW y \in E, NEW k \in 1 .. N
        PROVE  y \o AsmOut(u[k - 1], segs[k]) \in E
    <3>1. u[k - 1] \in D /\ segs[k] \in S
      BY <1>1, <1>3, <1>6
    <3> HIDE DEF N
    <3>2. AsmOut(u[k - 1], segs[k]) \in E
      BY <3>1, AsmPushTyped
    <3>3. y \in E
      OBVIOUS
    <3> QED BY <3>2, <3>3, ConcatProperties
  <2> HIDE DEF E, N
  <2> QED BY <2>1
<1>8. IsR(v)
  <2>1. PICK r \in [0 .. N -> E] : IsRecursive(r, N, << >>, h)
    <3> HIDE DEF h, N, E
    <3> QED BY <1>1, <1>7, Recursion
  <2> HIDE DEF h, E, N
  <2>3. \A k \in 0 .. N : r[k] = IF k = 0 THEN << >> ELSE r[k - 1] \o AsmOut(u[k - 1], segs[k])
    BY <1>2, <1>7, <2>1 DEF IsRecursive
  <2>4. IsR(r)
    BY <2>1, <2>3
  <2> HIDE DEF IsR
  <2> QED BY <2>4
<1>9. v \in [0 .. N -> E]
      /\ \A k \in 0 .. N : v[k] = IF k = 0 THEN << >> ELSE v[k - 1] \o AsmOut(u[k - 1], segs[k])
  <2>1. v = [k \in 0 .. N |-> IF k = 0 THEN << >> ELSE v[k - 1] \o AsmOut(u[k - 1], segs[k])]
    BY <1>8
  <2> HIDE DEF h, v, E, N
  <2>2. \A k \in 0 .. N : v[k] = IF k = 0 THEN << >> ELSE v[k - 1] \o AsmOut(u[k - 1], segs[k])
    BY <2>1
  <2>3. v = [k \in 0 .. N |-> v[k]]
    BY <2>1
  <2>4. 0 \in 0 .. N
    BY <1>1
  <2>5. Follows(v, N, E, << >>, h)
    BY <1>3, <1>7, <2>2, <2>3, <2>4 DEF Follows
  <2>6. v \in [0 .. N -> E]
    BY <1>1, <1>7, <2>5, RecursionTyped
  <2> QED BY <2>2, <2>6
<1>10. AsmFeed(a, segs) = [asm |-> u[N], sets |-> v[N]]
  BY DEF AsmFeed, u
<1>11. IsFeeding(u, v, a, segs)
  BY <1>6, <1>9 DEF IsFeeding
<1> HIDE DEF v
<1> QED BY <1>6, <1>9, <1>10, <1>11

(* Fed with segments an assembler keeps to its type.                        *)
LEMMA FeedTyped ==
  ASSUME NEW S, NEW T, NEW U, IsFed(S, T, U), NEW a \in Assemblers(S, T, U),
         NEW segs \in Seq(S)
  PROVE  /\ AsmFeed(a, segs).asm \in Assemblers(S, T, U)
         /\ AsmFeed(a, segs).sets \in Seq(AssembledSets(S, T, U))
<1>1. PICK f \in [0 .. Len(segs) -> Assemblers(S, T, U)],
           r \in [0 .. Len(segs) -> Seq(AssembledSets(S, T, U))] :
        AsmFeed(a, segs) = [asm |-> f[Len(segs)], sets |-> r[Len(segs)]]
  BY FeedingExists
<1>2. Len(segs) \in 0 .. Len(segs)
  OBVIOUS
<1> QED BY <1>1, <1>2

(* Without segments nothing happens.                                        *)
LEMMA FeedEmpty ==
  ASSUME NEW S, NEW T, NEW U, IsFed(S, T, U), NEW a \in Assemblers(S, T, U)
  PROVE  AsmFeed(a, << >>) = [asm |-> a, sets |-> << >>]
<1> DEFINE segs == << >>
<1>0. segs \in Seq(S)
  OBVIOUS
<1>1. Len(segs) = 0
  OBVIOUS
<1> HIDE DEF segs
<1>2. PICK f \in [0 .. Len(segs) -> Assemblers(S, T, U)],
           r \in [0 .. Len(segs) -> Seq(AssembledSets(S, T, U))] :
        /\ IsFeeding(f, r, a, segs)
        /\ AsmFeed(a, segs) = [asm |-> f[Len(segs)], sets |-> r[Len(segs)]]
  BY <1>0, FeedingExists
<1>3. f[0] = a /\ r[0] = << >>
  BY <1>1, <1>2 DEF IsFeeding
<1> QED BY <1>1, <1>2, <1>3 DEF segs

(* after is before with s pushed.                                           *)
IsFedOne(before, after, s) ==
  /\ after.asm = AsmPush(before.asm, s)
  /\ after.sets = before.sets \o AsmOut(before.asm, s)

(* One more segment is one more push.                                       *)
LEMMA FeedAppend ==
  ASSUME NEW S, NEW T, NEW U, IsFed(S, T, U), NEW a \in Assemblers(S, T, U),
         NEW t \in Seq(S), NEW s \in S
  PROVE  IsFedOne(AsmFeed(a, t), AsmFeed(a, Append(t, s)), s)
<1> DEFINE segs == Append(t, s)
           n == Len(t)
<1>1. /\ segs \in Seq(S) /\ Len(segs) = n + 1 /\ n \in Nat /\ segs[n + 1] = s
      /\ \A k \in 1 .. n : segs[k] = t[k]
  BY AppendProperties
<1> HIDE DEF segs
<1>2. PICK f \in [0 .. n -> Assemblers(S, T, U)],
           r \in [0 .. n -> Seq(AssembledSets(S, T, U))] :
        /\ IsFeeding(f, r, a, t)
        /\ AsmFeed(a, t) = [asm |-> f[n], sets |-> r[n]]
  BY FeedingExists
<1>3. PICK g \in [0 .. Len(segs) -> Assemblers(S, T, U)],
           q \in [0 .. Len(segs) -> Seq(AssembledSets(S, T, U))] :
        /\ IsFeeding(g, q, a, segs)
        /\ AsmFeed(a, segs) = [asm |-> g[Len(segs)], sets |-> q[Len(segs)]]
  BY <1>1, FeedingExists
<1>4. \A k \in 0 .. n : f[k] = IF k = 0 THEN a ELSE AsmPush(f[k - 1], t[k])
  BY <1>2 DEF IsFeeding
<1>5. \A k \in 0 .. n : r[k] = IF k = 0 THEN << >> ELSE r[k - 1] \o AsmOut(f[k - 1], t[k])
  BY <1>2 DEF IsFeeding
<1>6. \A k \in 0 .. n + 1 : g[k] = IF k = 0 THEN a ELSE AsmPush(g[k - 1], segs[k])
  BY <1>1, <1>3 DEF IsFeeding
<1>7. \A k \in 0 .. n + 1 : q[k] = IF k = 0 THEN << >> ELSE q[k - 1] \o AsmOut(g[k - 1], segs[k])
  BY <1>1, <1>3 DEF IsFeeding
<1> HIDE DEF n
<1> DEFINE N == {k \in 0 .. n : g[k] = f[k] /\ q[k] = r[k]}
<1>8. 0 \in N
  <2>1. 0 \in 0 .. n /\ 0 \in 0 .. n + 1
    BY <1>1
  <2>2. f[0] = a /\ g[0] = a /\ r[0] = << >> /\ q[0] = << >>
    <3>1. f[0] = a /\ g[0] = a
      BY <2>1, <1>4, <1>6
    <3>2. r[0] = << >> /\ q[0] = << >>
      BY <2>1, <1>5, <1>7
    <3> QED BY <3>1, <3>2
  <2> QED BY <2>1, <2>2
<1>9. ASSUME NEW k \in 0 .. n - 1, k \in N PROVE k + 1 \in N
  <2>0. k \in Nat /\ n \in Nat /\ k + 1 <= n
    BY <1>1
  <2>1. k + 1 \in 0 .. n /\ k + 1 \in 0 .. n + 1 /\ k + 1 # 0 /\ (k + 1) - 1 = k
        /\ k + 1 \in 1 .. n
    BY <2>0
  <2>2. g[k] = f[k] /\ q[k] = r[k] /\ segs[k + 1] = t[k + 1]
    BY <1>1, <1>9, <2>1
  <2>3. g[k + 1] = AsmPush(g[k], segs[k + 1]) /\ f[k + 1] = AsmPush(f[k], t[k + 1])
    BY <1>4, <1>6, <2>1
  <2>4. q[k + 1] = q[k] \o AsmOut(g[k], segs[k + 1]) /\ r[k + 1] = r[k] \o AsmOut(f[k], t[k + 1])
    BY <1>5, <1>7, <2>1
  <2>5. g[k + 1] = f[k + 1] /\ q[k + 1] = r[k + 1]
    BY <2>2, <2>3, <2>4
  <2> QED BY <2>1, <2>5
<1>10. n \in N
  <2> HIDE DEF N
  <2>1. 0 .. n \subseteq N
    BY <1>1, <1>8, <1>9, Upto
  <2> QED BY <1>1, <2>1
<1>11. g[n + 1] = AsmPush(f[n], s) /\ q[n + 1] = r[n] \o AsmOut(f[n], s)
  <2>1. n + 1 \in 0 .. n + 1 /\ n + 1 # 0 /\ (n + 1) - 1 = n
    BY <1>1
  <2>2. g[n + 1] = AsmPush(g[n], segs[n + 1]) /\ q[n + 1] = q[n] \o AsmOut(g[n], segs[n + 1])
    BY <1>6, <1>7, <2>1
  <2> QED BY <1>1, <1>10, <2>2
<1>12. AsmFeed(a, segs).asm = AsmPush(AsmFeed(a, t).asm, s)
       /\ AsmFeed(a, segs).sets = AsmFeed(a, t).sets \o AsmOut(AsmFeed(a, t).asm, s)
  BY <1>1, <1>2, <1>3, <1>11
<1> QED BY <1>12 DEF segs, IsFedOne

-----------------------------------------------------------------------------
(* A run that ended before the last call is the same run in the longer     *)
(* log, with the same segments.                                            *)
LEMMA RunStable ==
  ASSUME NEW S, NEW l \in Seq(S), NEW s \in S,
         NEW j \in 1 .. Len(l), NEW i \in 1 .. j - 1
  PROVE  /\ IsRun(Append(l, s), i, j) <=> IsRun(l, i, j)
         /\ RunSet(Append(l, s), i, j) = RunSet(l, i, j)
<1> DEFINE k == Append(l, s)
<1>1. /\ k \in Seq(S) /\ Len(k) = Len(l) + 1 /\ Len(l) \in Nat
      /\ \A m \in 1 .. Len(l) : k[m] = l[m]
  OBVIOUS
<1>2. i \in 1 .. Len(l) /\ i + 1 \in Int /\ j \in i + 1 .. Len(l)
  OBVIOUS
<1>3. IsRun(k, i, j) <=> IsRun(l, i, j)
  BY <1>1, <1>2 DEF IsRun
<1>4. SubSeq(k, i, j) = SubSeq(l, i, j)
  <2>1. \A m \in i .. j : k[m] \in S /\ l[m] \in S
    BY <1>1, <1>2
  <2>2. /\ SubSeq(k, i, j) \in Seq(S) /\ Len(SubSeq(k, i, j)) = j - i + 1
        /\ \A m \in 1 .. j - i + 1 : SubSeq(k, i, j)[m] = k[i + m - 1]
    BY <2>1, <1>2, SubSeqProperties
  <2>3. /\ SubSeq(l, i, j) \in Seq(S) /\ Len(SubSeq(l, i, j)) = j - i + 1
        /\ \A m \in 1 .. j - i + 1 : SubSeq(l, i, j)[m] = l[i + m - 1]
    BY <2>1, <1>2, SubSeqProperties
  <2>4. \A m \in 1 .. j - i + 1 : k[i + m - 1] = l[i + m - 1]
    BY <1>1, <1>2
  <2>. QED
    BY <2>2, <2>3, <2>4, SeqEqual
<1>. QED
  BY <1>1, <1>2, <1>3, <1>4 DEF RunSet

(* The last entry ends a run exactly when it is an END after an open run.  *)
LEMMA RunCloses ==
  ASSUME NEW S, NEW l \in Seq(S), NEW s \in S, NEW i \in 1 .. Len(l)
  PROVE  IsRun(Append(l, s), i, Len(l) + 1)
           <=> s.type = "END" /\ OpenRun(l, i)
<1>1. /\ Len(Append(l, s)) = Len(l) + 1 /\ Len(l) \in Nat
      /\ Append(l, s)[Len(l) + 1] = s
      /\ \A m \in 1 .. Len(l) : Append(l, s)[m] = l[m]
  OBVIOUS
<1>2. Len(l) + 1 \in i + 1 .. Len(l) + 1 /\ Len(l) + 1 - 1 = Len(l)
      /\ i \in 1 .. Len(l) + 1
  BY <1>1
<1>. QED
  BY <1>1, <1>2 DEF IsRun, OpenRun

(* The run open after a call is the PCS just pushed, or the run open       *)
(* before it when the call pushed a body segment.                          *)
LEMMA OpenExtends ==
  ASSUME NEW S, NEW l \in Seq(S), NEW s \in S,
         NEW i \in 1 .. Len(l) + 1
  PROVE  OpenRun(Append(l, s), i) <=>
           \/ i = Len(l) + 1 /\ s.type = "PCS" /\ s.comp # None
           \/ i # Len(l) + 1 /\ OpenRun(l, i) /\ s.type \in BodyType
<1>1. /\ Len(Append(l, s)) = Len(l) + 1 /\ Len(l) \in Nat
      /\ Append(l, s)[Len(l) + 1] = s
      /\ \A m \in 1 .. Len(l) : Append(l, s)[m] = l[m]
  OBVIOUS
<1>2. CASE i = Len(l) + 1
  <2>1. i + 1 .. Len(l) + 1 = {}
    BY <1>1, <1>2
  <2>. QED
    BY <1>1, <1>2, <2>1 DEF OpenRun
<1>3. CASE i # Len(l) + 1
  <2>1. /\ i \in 1 .. Len(l)
        /\ i + 1 .. Len(l) + 1 = (i + 1 .. Len(l)) \cup {Len(l) + 1}
    BY <1>1, <1>3
  <2>. QED
    BY <1>1, <1>3, <2>1 DEF OpenRun
<1>. QED
  BY <1>2, <1>3

(* Appending to the segments held is extending the stretch of the log.     *)
LEMMA SubSeqExtends ==
  ASSUME NEW S, NEW l \in Seq(S), NEW s \in S, NEW i \in 1 .. Len(l)
  PROVE  SubSeq(Append(l, s), i, Len(l) + 1)
           = Append(SubSeq(l, i, Len(l)), s)
<1> DEFINE k == Append(l, s)
           n == Len(l)
<1>1. /\ k \in Seq(S) /\ Len(k) = n + 1 /\ n \in Nat /\ k[n + 1] = s
      /\ \A m \in 1 .. n : k[m] = l[m]
  OBVIOUS
<1>2. /\ SubSeq(k, i, n + 1) \in Seq(S)
      /\ Len(SubSeq(k, i, n + 1)) = n + 2 - i
      /\ \A m \in 1 .. n + 2 - i : SubSeq(k, i, n + 1)[m] = k[i + m - 1]
  <2>1. \A m \in i .. n + 1 : k[m] \in S
    BY <1>1
  <2>. QED
    BY <1>1, <2>1, SubSeqProperties
<1>3. /\ SubSeq(l, i, n) \in Seq(S)
      /\ Len(SubSeq(l, i, n)) = n + 1 - i
      /\ \A m \in 1 .. n + 1 - i : SubSeq(l, i, n)[m] = l[i + m - 1]
  <2>1. \A m \in i .. n : l[m] \in S
    BY <1>1
  <2>. QED
    BY <1>1, <2>1, SubSeqProperties
<1>4. /\ Append(SubSeq(l, i, n), s) \in Seq(S)
      /\ Len(Append(SubSeq(l, i, n), s)) = n + 2 - i
      /\ \A m \in 1 .. n + 1 - i :
           Append(SubSeq(l, i, n), s)[m] = l[i + m - 1]
      /\ Append(SubSeq(l, i, n), s)[n + 2 - i] = s
  BY <1>1, <1>3
<1>5. \A m \in 1 .. n + 2 - i :
        SubSeq(k, i, n + 1)[m] = Append(SubSeq(l, i, n), s)[m]
  <2> SUFFICES ASSUME NEW m \in 1 .. n + 2 - i
               PROVE  k[i + m - 1] = Append(SubSeq(l, i, n), s)[m]
    BY <1>2
  <2>1. CASE m = n + 2 - i
    BY <2>1, <1>1, <1>4
  <2>2. CASE m # n + 2 - i
    <3>1. m \in 1 .. n + 1 - i /\ i + m - 1 \in 1 .. n
      BY <2>2, <1>1
    <3>. QED
      BY <3>1, <1>1, <1>4
  <2>. QED
    BY <2>1, <2>2
<1>. QED
  BY <1>2, <1>4, <1>5, SeqEqual

(* Putting together the sequences of two lists.                             *)
LEMMA JoinedConcat ==
  ASSUME NEW X, NEW s \in Seq(Seq(X)), NEW t \in Seq(Seq(X))
  PROVE  Joined(s \o t) = Joined(s) \o Joined(t)
<1> DEFINE Y == Seq(X)
           T == {u \in Seq(Y) : Joined(s \o u) = Joined(s) \o Joined(u)}
<1>0. s \in Seq(Y) /\ t \in Seq(Y) /\ Joined(s) \in Y
  BY JoinedTyped
<1>1. << >> \in T
  <2>1. s \o << >> = s /\ << >> \in Seq(Y) /\ Joined(<< >>) = << >>
    BY <1>0, ConcatEmptySeq, JoinedEmpty
  <2>2. Joined(s) \o << >> = Joined(s)
    BY <1>0, ConcatEmptySeq
  <2> QED BY <2>1, <2>2
<1>2. ASSUME NEW u \in Seq(Y), NEW e \in Y, u \in T PROVE Append(u, e) \in T
  <2>1. s \o Append(u, e) = Append(s \o u, e) /\ s \o u \in Seq(Y) /\ Append(u, e) \in Seq(Y)
    <3> HIDE DEF Y
    <3> QED BY <1>0, AppendConcat, ConcatProperties, AppendProperties
  <2>2. Joined(s \o Append(u, e)) = Joined(s \o u) \o e
    BY <2>1, JoinedAppend
  <2>3. Joined(Append(u, e)) = Joined(u) \o e /\ Joined(u) \in Y
    BY JoinedAppend, JoinedTyped
  <2>4. Joined(s \o u) = Joined(s) \o Joined(u)
    BY <1>2
  <2>5. (Joined(s) \o Joined(u)) \o e = Joined(s) \o (Joined(u) \o e)
    <3> DEFINE a == Joined(s)
               b == Joined(u)
    <3>1. a \in Seq(X) /\ b \in Seq(X) /\ e \in Seq(X)
      BY <1>0, <2>3
    <3> HIDE DEF a, b, Y, T
    <3>2. (a \o b) \o e = a \o (b \o e)
      BY <3>1, ConcatAssociative, SMTT(60)
    <3> QED BY <3>2 DEF a, b
  <2> QED BY <2>1, <2>2, <2>3, <2>4, <2>5
<1> HIDE DEF T, Y
<1>3. Seq(Y) \subseteq T
  BY <1>1, <1>2, SeqInduction
<1> QED BY <1>0, <1>3 DEF T

(* Feeding on after some segments.                                          *)
FeedsOn(a, s, t) ==
  /\ AsmFeed(a, s \o t).asm = AsmFeed(AsmFeed(a, s).asm, t).asm
  /\ AsmFeed(a, s \o t).sets = AsmFeed(a, s).sets \o AsmFeed(AsmFeed(a, s).asm, t).sets

LEMMA FeedConcat ==
  ASSUME NEW S, NEW T, NEW U, IsFed(S, T, U), NEW a \in Assemblers(S, T, U),
         NEW s \in Seq(S), NEW t \in Seq(S)
  PROVE  FeedsOn(a, s, t)
<1> DEFINE b == AsmFeed(a, s).asm
           E == AssembledSets(S, T, U)
           W == {u \in Seq(S) : FeedsOn(a, s, u)}
<1>0. b \in Assemblers(S, T, U) /\ AsmFeed(a, s).sets \in Seq(E)
  BY FeedTyped
<1>1. << >> \in W
  <2>1. AsmFeed(b, << >>) = [asm |-> b, sets |-> << >>]
    <3> HIDE DEF b
    <3> QED BY <1>0, FeedEmpty
  <2>2. s \o << >> = s /\ AsmFeed(a, s).sets \o << >> = AsmFeed(a, s).sets
    BY <1>0, ConcatEmptySeq
  <2>3. << >> \in Seq(S)
    OBVIOUS
  <2>4. FeedsOn(a, s, << >>)
    <3> DEFINE none == << >>
               r == AsmFeed(b, none)
               x == AsmFeed(a, s).sets
    <3>1. r.asm = b /\ r.sets = << >>
      BY <2>1
    <3>2. AsmFeed(a, s \o none) = AsmFeed(a, s)
      BY <2>2
    <3>3. x \o r.sets = x
      BY <2>2, <3>1
    <3> HIDE DEF none
    <3>4. FeedsOn(a, s, none)
      BY <3>1, <3>2, <3>3 DEF FeedsOn
    <3> QED BY <3>4 DEF none
  <2> HIDE DEF b
  <2> QED BY <2>3, <2>4
<1>2. ASSUME NEW u \in Seq(S), NEW e \in S, u \in W PROVE Append(u, e) \in W
  <2>1. s \o Append(u, e) = Append(s \o u, e) /\ s \o u \in Seq(S) /\ Append(u, e) \in Seq(S)
    BY AppendConcat, ConcatProperties, AppendProperties
  <2>2. IsFedOne(AsmFeed(a, s \o u), AsmFeed(a, Append(s \o u, e)), e)
    BY <2>1, FeedAppend
  <2>3. IsFedOne(AsmFeed(b, u), AsmFeed(b, Append(u, e)), e)
    <3> HIDE DEF b
    <3> QED BY <1>0, FeedAppend
  <2>4. FeedsOn(a, s, u)
    BY <1>2
  <2> DEFINE c == AsmFeed(b, u)
             x == AsmFeed(a, s).sets
             y == AsmOut(c.asm, e)
  <2>5. c.asm \in Assemblers(S, T, U) /\ c.sets \in Seq(E)
    <3> HIDE DEF b
    <3> QED BY <1>0, FeedTyped
  <2>6. y \in Seq(E)
    <3> HIDE DEF c
    <3> QED BY <2>5, AsmPushTyped
  <2>7. (x \o c.sets) \o y = x \o (c.sets \o y)
    <3> DEFINE cs == c.sets
    <3>1. x \in Seq(E) /\ cs \in Seq(E) /\ y \in Seq(E)
      BY <1>0, <2>5, <2>6
    <3> HIDE DEF x, cs, y, E
    <3>2. (x \o cs) \o y = x \o (cs \o y)
      BY <3>1, ConcatAssociative
    <3> QED BY <3>2 DEF cs
  <2>8. FeedsOn(a, s, Append(u, e))
    BY <2>1, <2>2, <2>3, <2>4, <2>7 DEF FeedsOn, IsFedOne
  <2> QED BY <2>1, <2>8
<1> HIDE DEF W
<1>3. Seq(S) \subseteq W
  BY <1>1, <1>2, SeqInduction
<1> QED BY <1>3 DEF W

(* What a fresh assembler returns is the end of what another one returns    *)
(* for the same segments: they agree from the first PCS on.                 *)
Agree(p, q) == p.asm = q.asm \/ (q.asm.state = None /\ q.sets = << >>)
EndsWith(E, p, q) == \E x \in Seq(E) : p.sets = x \o q.sets

LEMMA FeedSuffix ==
  ASSUME NEW S, NEW T, NEW U, IsFed(S, T, U), 0 \in T, NEW a \in Assemblers(S, T, U),
         NEW t \in Seq(S)
  PROVE  EndsWith(AssembledSets(S, T, U), AsmFeed(a, t), AsmFeed(AsmNew, t))
<1> DEFINE b == AsmNew
           E == AssembledSets(S, T, U)
           W == {u \in Seq(S) : /\ EndsWith(E, AsmFeed(a, u), AsmFeed(b, u))
                                /\ Agree(AsmFeed(a, u), AsmFeed(b, u))}
<1>0. b \in Assemblers(S, T, U)
  BY DEF AsmNew, Assemblers, IsFed
<1>9. b.state = None
  BY DEF AsmNew
<1> HIDE DEF b
<1>1. << >> \in W
  <2>1. /\ AsmFeed(a, << >>) = [asm |-> a, sets |-> << >>]
        /\ AsmFeed(b, << >>) = [asm |-> b, sets |-> << >>]
    BY <1>0, FeedEmpty
  <2>2. << >> \in Seq(E) /\ << >> \in Seq(S)
    OBVIOUS
  <2>3. << >> = << >> \o << >>
    BY <2>2, ConcatEmptySeq
  <2> DEFINE p == AsmFeed(a, << >>)
             q == AsmFeed(b, << >>)
  <2>4. p.sets = << >> /\ q.sets = << >> /\ q.asm = b
    BY <2>1
  <2> HIDE DEF p, q, E
  <2>5. EndsWith(E, p, q) /\ Agree(p, q)
    BY <2>2, <2>3, <2>4, <1>9 DEF EndsWith, Agree
  <2> QED BY <2>2, <2>5 DEF p, q
<1>2. ASSUME NEW u \in Seq(S), NEW e \in S, u \in W PROVE Append(u, e) \in W
  <2> DEFINE p == AsmFeed(a, u)
             q == AsmFeed(b, u)
             pp == AsmFeed(a, Append(u, e))
             qq == AsmFeed(b, Append(u, e))
  <2>1. IsFedOne(p, pp, e) /\ IsFedOne(q, qq, e) /\ Append(u, e) \in Seq(S)
    BY <1>0, FeedAppend, AppendProperties
  <2>2. /\ p.asm \in Assemblers(S, T, U) /\ p.sets \in Seq(E) /\ pp.sets \in Seq(E)
        /\ q.asm \in Assemblers(S, T, U) /\ q.sets \in Seq(E) /\ qq.sets \in Seq(E)
    BY <1>0, <2>1, FeedTyped
  <2>3. EndsWith(E, p, q) /\ Agree(p, q)
    BY <1>2
  <2>4. AsmOut(p.asm, e) \in Seq(E) /\ AsmOut(q.asm, e) \in Seq(E)
    <3> HIDE DEF p, q, E
    <3> QED BY <2>2, AsmPushTyped DEF E
  <2> HIDE DEF p, q, pp, qq, E
  <2>5. CASE p.asm = q.asm
    <3>1. PICK x \in Seq(E) : p.sets = x \o q.sets
      BY <2>3 DEF EndsWith
    <3> DEFINE o == AsmOut(q.asm, e)
    <3>2. pp.sets = p.sets \o o /\ qq.sets = q.sets \o o /\ pp.asm = qq.asm
      BY <2>1, <2>5 DEF IsFedOne
    <3>3. o \in Seq(E)
      BY <2>4
    <3> HIDE DEF o
    <3>4. (x \o q.sets) \o o = x \o (q.sets \o o)
      <4> DEFINE y == q.sets
      <4>1. y \in Seq(E)
        BY <2>2
      <4> HIDE DEF y
      <4>2. (x \o y) \o o = x \o (y \o o)
        BY <3>3, <4>1, ConcatAssociative
      <4> QED BY <4>2 DEF y
    <3>5. pp.sets = x \o qq.sets
      BY <3>1, <3>2, <3>4
    <3> QED BY <2>1, <3>2, <3>5 DEF EndsWith, Agree, E, pp, qq
  <2>6. CASE q.asm.state = None /\ q.sets = << >>
    <3>1. AsmOut(q.asm, e) = << >>
      BY <2>6 DEF AsmOut
    <3>2. qq.sets = << >>
      BY <2>1, <2>6, <3>1 DEF IsFedOne
    <3>3. EndsWith(E, pp, qq)
      <4>1. pp.sets = pp.sets \o << >>
        BY <2>2, ConcatEmptySeq
      <4> QED BY <2>2, <3>2, <4>1 DEF EndsWith
    <3>4. Agree(pp, qq)
      <4>1. CASE e.type = "PCS"
        BY <2>1, <4>1 DEF IsFedOne, AsmPush, Agree
      <4>2. CASE e.type # "PCS"
        <5>1. q.asm = [segments |-> q.asm.segments, pts |-> q.asm.pts, state |-> q.asm.state]
          BY <2>2 DEF Assemblers
        <5>2. AsmPush(q.asm, e).state = None
          BY <2>6, <4>2, <5>1 DEF AsmPush, AsmReset
        <5> QED BY <2>1, <3>2, <5>2 DEF IsFedOne, Agree
      <4> QED BY <4>1, <4>2
    <3> QED BY <2>1, <3>3, <3>4 DEF E, pp, qq
  <2> QED BY <2>3, <2>5, <2>6 DEF Agree
<1> HIDE DEF W
<1>3. Seq(S) \subseteq W
  BY <1>1, <1>2, SeqInduction
<1> QED BY <1>3 DEF W, b

(* A log, whose segments have one of the types of the format.               *)
IsLog(S, T, U) == IsFed(S, T, U) /\ 0 \in T /\ \A s \in S : s.type \in SegmentType

(* What SetsIn adds for entry j of the log.                                 *)
Ending(log, j) ==
  IF \E i \in 1 .. j - 1 : IsRun(log, i, j)
  THEN << RunSet(log, CHOOSE i \in 1 .. j - 1 : IsRun(log, i, j), j) >>
  ELSE << >>

(* A display set has one beginning.                                         *)
LEMMA RunUnique ==
  ASSUME NEW l, Len(l) \in Nat, NEW i, NEW k, NEW j, IsRun(l, i, j), IsRun(l, k, j)
  PROVE  i = k
<1>1. i \in Nat /\ k \in Nat /\ j \in Nat /\ i < j /\ k < j
  BY DEF IsRun
<1>2. "PCS" \notin BodyType
  BY DEF BodyType
<1>3. ~ (i < k) /\ ~ (k < i)
  BY <1>1, <1>2 DEF IsRun
<1> QED BY <1>1, <1>3

LEMMA EndingIs ==
  ASSUME NEW l, Len(l) \in Nat, NEW j \in Nat, NEW i \in 1 .. j - 1, IsRun(l, i, j)
  PROVE  Ending(l, j) = << RunSet(l, i, j) >>
<1> DEFINE k == CHOOSE k \in 1 .. j - 1 : IsRun(l, k, j)
<1>1. k \in 1 .. j - 1 /\ IsRun(l, k, j)
  OBVIOUS
<1>2. Ending(l, j) = << RunSet(l, k, j) >>
  BY DEF Ending
<1> HIDE DEF k
<1>3. k = i
  BY <1>1, RunUnique
<1> QED BY <1>2, <1>3

LEMMA EndingIsNot ==
  ASSUME NEW l, NEW j, \A i \in 1 .. j - 1 : ~ IsRun(l, i, j)
  PROVE  Ending(l, j) = << >>
BY DEF Ending

LEMMA EndingTyped ==
  ASSUME NEW S, NEW T, NEW U, IsFed(S, T, U), NEW l \in Seq(S), NEW j \in 1 .. Len(l)
  PROVE  Ending(l, j) \in Seq(AssembledSets(S, T, U))
<1>0. << >> \in Seq(AssembledSets(S, T, U))
  OBVIOUS
<1>1. CASE \E i \in 1 .. j - 1 : IsRun(l, i, j)
  <2>1. PICK i \in 1 .. j - 1 : IsRun(l, i, j)
    BY <1>1
  <2>2. Ending(l, j) = << RunSet(l, i, j) >>
    BY <2>1, EndingIs
  <2>3. i \in 1 .. Len(l) /\ l[i] \in S
    OBVIOUS
  <2>4. SubSeq(l, i, j) \in Seq(S)
    BY <2>3, SubSeqProperties
  <2>5. RunSet(l, i, j) \in AssembledSets(S, T, U)
    BY <2>3, <2>4 DEF RunSet, AssembledSets, IsFed
  <2> HIDE DEF AssembledSets
  <2> QED BY <2>2, <2>5
<1> QED BY <1>0, <1>1, EndingIsNot

(* An entry further on does not change what ends before it.                 *)
LEMMA EndingStable ==
  ASSUME NEW S, NEW l \in Seq(S), NEW s \in S, NEW j \in 1 .. Len(l)
  PROVE  Ending(Append(l, s), j) = Ending(l, j)
<1> DEFINE m == Append(l, s)
<1>0. Len(m) \in Nat /\ Len(l) \in Nat
  OBVIOUS
<1>1. \A i \in 1 .. j - 1 : /\ IsRun(m, i, j) <=> IsRun(l, i, j)
                            /\ RunSet(m, i, j) = RunSet(l, i, j)
  BY RunStable
<1> HIDE DEF m
<1>2. CASE \E i \in 1 .. j - 1 : IsRun(l, i, j)
  <2>1. PICK i \in 1 .. j - 1 : IsRun(l, i, j)
    BY <1>2
  <2>2. IsRun(m, i, j) /\ RunSet(m, i, j) = RunSet(l, i, j)
    BY <1>1, <2>1
  <2>3. Ending(l, j) = << RunSet(l, i, j) >> /\ Ending(m, j) = << RunSet(m, i, j) >>
    BY <1>0, <2>1, <2>2, EndingIs
  <2> QED BY <2>2, <2>3 DEF m
<1>3. CASE \A i \in 1 .. j - 1 : ~ IsRun(l, i, j)
  BY <1>1, <1>3, EndingIsNot DEF m
<1> QED BY <1>2, <1>3

IsEndings(f, log) ==
  \A j \in 0 .. Len(log) : f[j] = IF j = 0 THEN << >> ELSE f[j - 1] \o Ending(log, j)

(* SetsIn is what the equation of its recursion says.                       *)
LEMMA SetsExist ==
  ASSUME NEW S, NEW T, NEW U, IsFed(S, T, U), NEW log \in Seq(S)
  PROVE  \E f \in [0 .. Len(log) -> Seq(AssembledSets(S, T, U))] :
           IsEndings(f, log) /\ SetsIn(log) = f[Len(log)]
<1> DEFINE N == Len(log)
           D == Seq(AssembledSets(S, T, U))
           g == [y \in D \X (1 .. N) |-> y[1] \o Ending(log, y[2])]
           Is(f) == f = [n \in 0 .. N |-> IF n = 0 THEN << >> ELSE f[n - 1] \o Ending(log, n)]
           u == CHOOSE f : Is(f)
<1>1. N \in Nat /\ << >> \in D /\ \A n \in 1 .. N : Ending(log, n) \in D
  BY EndingTyped
<1>2. g \in [D \X (1 .. N) -> D]
  <2>1. ASSUME NEW y \in D \X (1 .. N)
        PROVE  y[1] \o Ending(log, y[2]) \in D
    <3>1. y[1] \in D /\ Ending(log, y[2]) \in D
      BY <1>1
    <3> QED BY <3>1, ConcatProperties
  <2> QED BY <2>1
<1>3. \A y \in D, n \in 1 .. N : g[<< y, n >>] = y \o Ending(log, n)
  OBVIOUS
<1>4. SetsIn(log) = u[N]
  BY DEF SetsIn, Ending
<1>5. Is(u)
  <2>1. PICK f \in [0 .. N -> D] : IsRecursive(f, N, << >>, g)
    <3> HIDE DEF g, N, D
    <3> QED BY <1>1, <1>2, Recursion
  <2> HIDE DEF g, D, N
  <2>2. \A n \in 0 .. N : n # 0 => n - 1 \in 0 .. N /\ n \in 1 .. N
    BY <1>1
  <2>3. \A n \in 0 .. N : f[n] = IF n = 0 THEN << >> ELSE f[n - 1] \o Ending(log, n)
    BY <1>3, <2>1, <2>2 DEF IsRecursive
  <2>4. Is(f)
    BY <2>1, <2>3
  <2> HIDE DEF Is
  <2> QED BY <2>4
<1>6. Follows(u, N, D, << >>, g) /\ IsEndings(u, log)
  <2> HIDE DEF g, u, D
  <2>1. \A n \in 1 .. N : n # 0 /\ n \in 0 .. N
    BY <1>1
  <2>2. u = [n \in 0 .. N |-> IF n = 0 THEN << >> ELSE u[n - 1] \o Ending(log, n)]
    BY <1>5
  <2>3. u[0] = << >> /\ \A n \in 1 .. N : u[n] = u[n - 1] \o Ending(log, n)
    <3>1. 0 \in 0 .. N
      BY <1>1
    <3> HIDE DEF N
    <3>2. \A n \in 0 .. N : u[n] = IF n = 0 THEN << >> ELSE u[n - 1] \o Ending(log, n)
      BY <2>2
    <3> QED BY <2>1, <3>1, <3>2
  <2>4. u = [n \in 0 .. N |-> u[n]]
    BY <2>2
  <2>5. IsEndings(u, log)
    BY <2>2 DEF IsEndings
  <2> HIDE DEF N
  <2> QED BY <1>3, <2>3, <2>4, <2>5 DEF Follows
<1>7. u \in [0 .. N -> D]
  <2> HIDE DEF g, u, D, N
  <2> QED BY <1>1, <1>2, <1>6, RecursionTyped
<1> QED
  <2> HIDE DEF u
  <2> QED BY <1>4, <1>6, <1>7

(* One more entry adds what ends with it.                                   *)
LEMMA SetsInAppend ==
  ASSUME NEW S, NEW T, NEW U, IsFed(S, T, U), NEW l \in Seq(S), NEW e \in S
  PROVE  SetsIn(Append(l, e)) = SetsIn(l) \o Ending(Append(l, e), Len(l) + 1)
<1> DEFINE z == Append(l, e)
           D == Seq(AssembledSets(S, T, U))
<1>1. z \in Seq(S) /\ Len(z) = Len(l) + 1 /\ Len(l) \in Nat
      /\ \A j \in 1 .. Len(l) : Ending(z, j) = Ending(l, j)
  BY AppendProperties, EndingStable
<1>2. PICK f \in [0 .. Len(l) -> D] : IsEndings(f, l) /\ SetsIn(l) = f[Len(l)]
  BY SetsExist
<1> HIDE DEF z
<1>3. PICK h \in [0 .. Len(z) -> D] : IsEndings(h, z) /\ SetsIn(z) = h[Len(z)]
  BY <1>1, SetsExist
<1>4. 0 .. Len(l) \subseteq {n \in 0 .. Len(l) : h[n] = f[n]}
  <2> DEFINE W == {n \in 0 .. Len(l) : h[n] = f[n]}
  <2>1. 0 \in W
    <3>1. 0 \in 0 .. Len(l) /\ 0 \in 0 .. Len(z)
      BY <1>1
    <3>2. f[0] = << >> /\ h[0] = << >>
      BY <1>2, <1>3, <3>1 DEF IsEndings
    <3> QED BY <3>1, <3>2
  <2>2. ASSUME NEW n \in 0 .. Len(l) - 1, n \in W PROVE n + 1 \in W
    <3>1. /\ n + 1 \in 0 .. Len(l) /\ n + 1 \in 0 .. Len(z) /\ n + 1 # 0 /\ (n + 1) - 1 = n
          /\ Ending(z, n + 1) = Ending(l, n + 1) /\ h[n] = f[n]
      BY <1>1, <2>2
    <3>2. f[n + 1] = f[n] \o Ending(l, n + 1) /\ h[n + 1] = h[n] \o Ending(z, n + 1)
      BY <1>2, <1>3, <3>1 DEF IsEndings
    <3> QED BY <3>1, <3>2
  <2> HIDE DEF W
  <2> QED BY <1>1, <2>1, <2>2, Upto DEF W
<1>5. h[Len(l)] = f[Len(l)]
  <2>1. Len(l) \in 0 .. Len(l)
    BY <1>1
  <2> QED BY <1>4, <2>1
<1>6. h[Len(l) + 1] = h[Len(l)] \o Ending(z, Len(l) + 1)
  <2>1. Len(l) + 1 \in 0 .. Len(z) /\ Len(l) + 1 # 0 /\ (Len(l) + 1) - 1 = Len(l)
    BY <1>1
  <2> QED BY <1>3, <2>1 DEF IsEndings
<1> QED BY <1>1, <1>2, <1>3, <1>5, <1>6 DEF z

LEMMA SetsInEmpty == SetsIn(<< >>) = << >>
<1> DEFINE s == << >>
           S == {}
           T == {}
           U == {None}
<1>1. Len(s) = 0
  OBVIOUS
<1>5. s \in Seq(S)
  OBVIOUS
<1>4. IsFed(S, T, U)
  BY DEF IsFed
<1> HIDE DEF s, S, T, U
<1>2. PICK f \in [0 .. Len(s) -> Seq(AssembledSets(S, T, U))] :
        IsEndings(f, s) /\ SetsIn(s) = f[Len(s)]
  BY <1>4, <1>5, SetsExist
<1>3. f[0] = << >>
  BY <1>1, <1>2 DEF IsEndings
<1> QED BY <1>1, <1>2, <1>3 DEF s

(* The assembler holds the display set that the log leaves open.            *)
HoldsOpen(a, l, i) ==
  /\ OpenRun(l, i)
  /\ a.pts = l[i].pts /\ a.state = l[i].comp
  /\ a.segments = SubSeq(l, i, Len(l))
Holds(a, l) ==
  /\ a.state # None => \E i \in 1 .. Len(l) : HoldsOpen(a, l, i)
  /\ a.state = None => \A i \in 1 .. Len(l) : ~ OpenRun(l, i)

LEMMA HoldsPush ==
  ASSUME NEW S, NEW T, NEW U, IsLog(S, T, U), NEW a \in Assemblers(S, T, U),
         NEW l \in Seq(S), NEW s \in S, Holds(a, l)
  PROVE  /\ Holds(AsmPush(a, s), Append(l, s))
         /\ AsmOut(a, s) = Ending(Append(l, s), Len(l) + 1)
<1> DEFINE m == Append(l, s)
           n == Len(l)
           b == AsmPush(a, s)
<1>1. /\ m \in Seq(S) /\ Len(m) = n + 1 /\ n \in Nat /\ m[n + 1] = s
      /\ \A k \in 1 .. n : m[k] = l[k]
  BY AppendProperties
<1>2. \A i \in 1 .. n + 1 : OpenRun(m, i) <=>
           \/ i = n + 1 /\ s.type = "PCS" /\ s.comp # None
           \/ i # n + 1 /\ OpenRun(l, i) /\ s.type \in BodyType
  BY OpenExtends
<1>3. \A i \in 1 .. n : IsRun(m, i, n + 1) <=> s.type = "END" /\ OpenRun(l, i)
  BY RunCloses
<1>4. \A i \in 1 .. n : SubSeq(m, i, n + 1) = Append(SubSeq(l, i, n), s)
  BY SubSeqExtends
<1>5. a = [segments |-> a.segments, pts |-> a.pts, state |-> a.state]
  BY DEF Assemblers
<1>6. s.type \in SegmentType
  BY DEF IsLog
<1> HIDE DEF m
<1>7. CASE s.type = "PCS"
  <2>1. b = [segments |-> << s >>, pts |-> s.pts, state |-> s.comp]
    BY <1>7 DEF AsmPush
  <2>2. AsmOut(a, s) = << >>
    BY <1>7 DEF AsmOut
  <2>3. Ending(m, n + 1) = << >>
    <3>1. \A i \in 1 .. (n + 1) - 1 : ~ IsRun(m, i, n + 1)
      BY <1>1, <1>3, <1>7
    <3> QED BY <3>1, EndingIsNot
  <2>4. SubSeq(m, n + 1, n + 1) = << s >>
    <3> DEFINE o == SubSeq(m, n + 1, n + 1)
    <3>1. \A k \in n + 1 .. n + 1 : m[k] \in S
      BY <1>1
    <3>2. o \in Seq(S) /\ Len(o) = 1 /\ o[1] = s
      BY <1>1, <3>1, SubSeqProperties
    <3>3. << s >> \in Seq(S) /\ Len(<< s >>) = 1 /\ << s >>[1] = s
      OBVIOUS
    <3> HIDE DEF o
    <3>4. o = << s >>
      BY <3>2, <3>3, SeqEqual
    <3> QED BY <3>4 DEF o
  <2>5. s.comp # None => HoldsOpen(b, m, n + 1)
    BY <1>1, <1>2, <1>7, <2>1, <2>4 DEF HoldsOpen
  <2>6. \A i \in 1 .. n + 1 : OpenRun(m, i) => s.comp # None
    <3>1. "PCS" \notin BodyType
      BY DEF BodyType
    <3> QED BY <1>2, <1>7, <3>1
  <2>7. n + 1 \in 1 .. n + 1
    BY <1>1
  <2>8. b.state = s.comp
    BY <2>1
  <2> HIDE DEF n, b
  <2> QED BY <1>1, <2>2, <2>3, <2>5, <2>6, <2>7, <2>8 DEF Holds, m, n, b
<1>8. CASE s.type = "END"
  <2>1. b.state = None
    BY <1>8, <1>5 DEF AsmPush, AsmReset
  <2>2. \A i \in 1 .. n + 1 : ~ OpenRun(m, i)
    <3>1. "END" \notin BodyType
      BY DEF BodyType
    <3> QED BY <1>2, <1>8, <3>1
  <2>3. Holds(b, m)
    BY <1>1, <2>1, <2>2 DEF Holds
  <2>4. AsmOut(a, s) = Ending(m, n + 1)
    <3>1. CASE a.state = None
      <4>1. \A i \in 1 .. (n + 1) - 1 : ~ IsRun(m, i, n + 1)
        BY <1>1, <1>3, <3>1 DEF Holds
      <4>2. Ending(m, n + 1) = << >>
        BY <4>1, EndingIsNot
      <4> QED BY <3>1, <4>2 DEF AsmOut
    <3>2. CASE a.state # None
      <4>1. PICK i \in 1 .. n : HoldsOpen(a, l, i)
        BY <3>2 DEF Holds
      <4>2. IsRun(m, i, n + 1) /\ i \in 1 .. (n + 1) - 1
        BY <1>1, <1>3, <1>8, <4>1 DEF HoldsOpen
      <4>3. Ending(m, n + 1) = << RunSet(m, i, n + 1) >>
        BY <1>1, <4>2, EndingIs
      <4>4. RunSet(m, i, n + 1) = [pts |-> a.pts, state |-> a.state,
                                   segments |-> Append(a.segments, s)]
        BY <1>1, <1>4, <4>1 DEF RunSet, HoldsOpen
      <4> QED BY <1>8, <3>2, <4>3, <4>4 DEF AsmOut
    <3> QED BY <3>1, <3>2
  <2> QED BY <2>3, <2>4 DEF m
<1>9. CASE s.type \in BodyType
  <2>0. s.type # "PCS" /\ s.type # "END"
    BY <1>9 DEF BodyType
  <2>1. b = [segments |-> Append(a.segments, s), pts |-> a.pts, state |-> a.state]
    BY <2>0, <1>5 DEF AsmPush
  <2>2. AsmOut(a, s) = << >>
    BY <2>0 DEF AsmOut
  <2>3. Ending(m, n + 1) = << >>
    <3>1. \A i \in 1 .. (n + 1) - 1 : ~ IsRun(m, i, n + 1)
      BY <1>1, <1>3, <2>0
    <3> QED BY <3>1, EndingIsNot
  <2>4. Holds(b, m)
    <3>1. CASE a.state # None
      <4>1. PICK i \in 1 .. n : HoldsOpen(a, l, i)
        BY <3>1 DEF Holds
      <4>2. i \in 1 .. n + 1 /\ i # n + 1
        BY <1>1
      <4>3. OpenRun(m, i)
        BY <1>2, <1>9, <4>1, <4>2 DEF HoldsOpen
      <4>4. HoldsOpen(b, m, i)
        <5>1. SubSeq(m, i, n + 1) = Append(a.segments, s)
          BY <1>4, <4>1 DEF HoldsOpen
        <5>2. b.pts = m[i].pts /\ b.state = m[i].comp
          BY <1>1, <2>1, <4>1 DEF HoldsOpen
        <5>3. b.segments = Append(a.segments, s)
          BY <2>1
        <5> HIDE DEF b
        <5> QED BY <1>1, <4>3, <5>1, <5>2, <5>3 DEF HoldsOpen
      <4> QED BY <1>1, <2>1, <3>1, <4>2, <4>4 DEF Holds
    <3>2. CASE a.state = None
      <4>1. \A i \in 1 .. n + 1 : ~ OpenRun(m, i)
        BY <1>1, <1>2, <2>0, <3>2 DEF Holds
      <4> QED BY <1>1, <2>1, <3>2, <4>1 DEF Holds
    <3> QED BY <3>1, <3>2
  <2> QED BY <2>2, <2>3, <2>4 DEF m
<1> QED BY <1>6, <1>7, <1>8, <1>9 DEF BodyType

(* A fresh assembler fed with a log returns the display sets in it.         *)
LEMMA FeedIsSetsIn ==
  ASSUME NEW S, NEW T, NEW U, IsLog(S, T, U), NEW log \in Seq(S)
  PROVE  AsmFeed(AsmNew, log).sets = SetsIn(log)
<1> DEFINE b == AsmNew
           W == {u \in Seq(S) : /\ AsmFeed(b, u).sets = SetsIn(u)
                                /\ Holds(AsmFeed(b, u).asm, u)}
<1>0. b \in Assemblers(S, T, U) /\ IsFed(S, T, U)
  BY DEF AsmNew, Assemblers, IsFed, IsLog
<1>9. b.state = None
  BY DEF AsmNew
<1> HIDE DEF b
<1>1. << >> \in W
  <2> DEFINE n == << >>
  <2>1. AsmFeed(b, n) = [asm |-> b, sets |-> n]
    BY <1>0, FeedEmpty
  <2>2. SetsIn(n) = n /\ Len(n) = 0 /\ n \in Seq(S)
    BY SetsInEmpty
  <2> HIDE DEF n
  <2>3. Holds(b, n)
    BY <1>9, <2>2 DEF Holds
  <2> QED BY <2>1, <2>2, <2>3 DEF n
<1>2. ASSUME NEW u \in Seq(S), NEW e \in S, u \in W PROVE Append(u, e) \in W
  <2> DEFINE p == AsmFeed(b, u)
             q == AsmFeed(b, Append(u, e))
  <2>1. IsFedOne(p, q, e) /\ Append(u, e) \in Seq(S)
    BY <1>0, FeedAppend, AppendProperties
  <2>2. p.asm \in Assemblers(S, T, U)
    BY <1>0, FeedTyped
  <2>3. p.sets = SetsIn(u) /\ Holds(p.asm, u)
    BY <1>2
  <2> HIDE DEF p, q
  <2>4. /\ Holds(AsmPush(p.asm, e), Append(u, e))
        /\ AsmOut(p.asm, e) = Ending(Append(u, e), Len(u) + 1)
    BY <2>2, <2>3, HoldsPush
  <2>5. SetsIn(Append(u, e)) = SetsIn(u) \o Ending(Append(u, e), Len(u) + 1)
    BY <1>0, SetsInAppend
  <2>6. q.sets = SetsIn(Append(u, e)) /\ Holds(q.asm, Append(u, e))
    BY <2>1, <2>3, <2>4, <2>5 DEF IsFedOne
  <2> QED BY <2>1, <2>6 DEF q
<1> HIDE DEF W
<1>3. Seq(S) \subseteq W
  BY <1>1, <1>2, SeqInduction
<1> QED BY <1>3 DEF W, b

(* Conditions that agree on a list select the same.                         *)
LEMMA OnlySame ==
  ASSUME NEW X, NEW s \in Seq(X), NEW S, NEW R,
         \A k \in DOMAIN s : s[k] \in S <=> s[k] \in R
  PROVE  Only(s, S) = Only(s, R)
<1> DEFINE Y == {x \in X : x \in S <=> x \in R}
           T == {u \in Seq(Y) : Only(u, S) = Only(u, R)}
<1>1. << >> \in T
  <2>1. << >> \in Seq(Y)
    OBVIOUS
  <2> QED BY <2>1, OnlyEmpty
<1>2. ASSUME NEW u \in Seq(Y), NEW e \in Y, u \in T PROVE Append(u, e) \in T
  <2>1. /\ Only(Append(u, e), S) = IF e \in S THEN Append(Only(u, S), e) ELSE Only(u, S)
        /\ Only(Append(u, e), R) = IF e \in R THEN Append(Only(u, R), e) ELSE Only(u, R)
    <3> HIDE DEF Y
    <3> QED BY OnlyAppend
  <2>2. Append(u, e) \in Seq(Y) /\ (e \in S <=> e \in R) /\ Only(u, S) = Only(u, R)
    BY <1>2, AppendProperties
  <2> QED BY <2>1, <2>2
<1>3. s \in Seq(Y)
  <2>1. \A k \in 1 .. Len(s) : s[k] \in Y
    OBVIOUS
  <2> HIDE DEF Y
  <2> QED BY <2>1
<1> HIDE DEF T, Y
<1>4. Seq(Y) \subseteq T
  BY <1>1, <1>2, SeqInduction
<1> QED BY <1>3, <1>4 DEF T

(* Selecting twice.                                                         *)
LEMMA OnlyOnly ==
  ASSUME NEW X, NEW s \in Seq(X), NEW S, NEW R
  PROVE  Only(Only(s, S), R) = Only(s, S \cap R)
<1> DEFINE T == {u \in Seq(X) : Only(Only(u, S), R) = Only(u, S \cap R)}
<1>1. << >> \in T
  <2>1. << >> \in Seq(X)
    OBVIOUS
  <2> QED BY <2>1, OnlyEmpty
<1>2. ASSUME NEW u \in Seq(X), NEW e \in X, u \in T PROVE Append(u, e) \in T
  <2> DEFINE o == Only(u, S)
  <2>0. o \in Seq(X) /\ Append(u, e) \in Seq(X)
    BY OnlyTyped, AppendProperties
  <2>1. /\ Only(Append(u, e), S) = IF e \in S THEN Append(o, e) ELSE o
        /\ Only(Append(u, e), S \cap R) =
             IF e \in S \cap R THEN Append(Only(u, S \cap R), e) ELSE Only(u, S \cap R)
    BY OnlyAppend
  <2>2. Only(o, R) = Only(u, S \cap R)
    BY <1>2
  <2> HIDE DEF o
  <2>3. Only(Append(o, e), R) = IF e \in R THEN Append(Only(o, R), e) ELSE Only(o, R)
    BY <2>0, OnlyAppend
  <2>4. Only(Only(Append(u, e), S), R) = Only(Append(u, e), S \cap R)
    <3>1. CASE e \in S /\ e \in R
      <4>1. e \in S \cap R
        BY <3>1
      <4> HIDE DEF T
      <4> QED BY <2>1, <2>2, <2>3, <3>1, <4>1
    <3>2. CASE ~ (e \in S /\ e \in R)
      <4>1. e \notin S \cap R
        BY <3>2
      <4> HIDE DEF T
      <4> QED BY <2>1, <2>2, <2>3, <3>2, <4>1
    <3> QED BY <3>1, <3>2
  <2> QED BY <2>0, <2>4
<1> HIDE DEF T
<1>3. Seq(X) \subseteq T
  BY <1>1, <1>2, SeqInduction
<1> QED BY <1>3 DEF T

(* A list with something done to each of its values.                        *)
Image(s, g) == [k \in DOMAIN s |-> g[s[k]]]

IsImage(i, s, g, Y) ==
  /\ i \in Seq(Y) /\ Len(i) = Len(s)
  /\ \A k \in 1 .. Len(s) : i[k] = g[s[k]]

LEMMA ImageProperties ==
  ASSUME NEW X, NEW Y, NEW g \in [X -> Y], NEW s \in Seq(X)
  PROVE  IsImage(Image(s, g), s, g, Y)
<1>1. DOMAIN s = 1 .. Len(s) /\ Len(s) \in Nat /\ \A k \in 1 .. Len(s) : s[k] \in X
  OBVIOUS
<1>2. Image(s, g) = [k \in 1 .. Len(s) |-> g[s[k]]]
  BY <1>1 DEF Image
<1> DEFINE n == Len(s)
           i == Image(s, g)
<1> HIDE DEF n, i
<1>3. \A k \in 1 .. n : g[s[k]] \in Y
  BY <1>1 DEF n
<1>4. n \in Nat /\ i = [k \in 1 .. n |-> g[s[k]]]
  BY <1>1, <1>2 DEF n, i
<1>5. i \in Seq(Y) /\ Len(i) = n /\ \A k \in 1 .. n : i[k] = g[s[k]]
  BY <1>3, <1>4
<1> QED BY <1>5 DEF n, i, IsImage

LEMMA ImageConcat ==
  ASSUME NEW X, NEW Y, NEW g \in [X -> Y], NEW s \in Seq(X), NEW t \in Seq(X)
  PROVE  Image(s \o t, g) = Image(s, g) \o Image(t, g)
<1> DEFINE u == s \o t
           a == Image(s, g)
           b == Image(t, g)
           c == Image(u, g)
           d == a \o b
<1>1. u \in Seq(X)
  BY ConcatProperties
<1>2. /\ Len(u) = Len(s) + Len(t) /\ Len(s) \in Nat /\ Len(t) \in Nat
      /\ \A k \in 1 .. Len(s) : u[k] = s[k]
      /\ \A k \in Len(s) + 1 .. Len(s) + Len(t) : u[k] = t[k - Len(s)]
  BY ConcatProperties
<1> HIDE DEF u
<1>3. IsImage(a, s, g, Y) /\ IsImage(b, t, g, Y) /\ IsImage(c, u, g, Y)
  BY <1>1, ImageProperties
<1> HIDE DEF a, b, c
<1>4. a \in Seq(Y) /\ b \in Seq(Y) /\ c \in Seq(Y)
  BY <1>3 DEF IsImage
<1>5. d \in Seq(Y)
  BY <1>4, ConcatProperties
<1>6. Len(a) = Len(s) /\ Len(b) = Len(t) /\ Len(c) = Len(u)
  BY <1>3 DEF IsImage
<1>7. /\ Len(d) = Len(a) + Len(b)
      /\ \A k \in 1 .. Len(a) : d[k] = a[k]
      /\ \A k \in Len(a) + 1 .. Len(a) + Len(b) : d[k] = b[k - Len(a)]
  BY <1>4, ConcatProperties
<1> HIDE DEF d
<1>8. ASSUME NEW k \in 1 .. Len(c) PROVE c[k] = d[k]
  <2>1. CASE k \in 1 .. Len(s)
    <3>1. c[k] = g[u[k]] /\ a[k] = g[s[k]]
      BY <1>3, <1>6, <2>1 DEF IsImage
    <3> QED BY <1>2, <1>6, <1>7, <2>1, <3>1
  <2>2. CASE k \in Len(s) + 1 .. Len(s) + Len(t)
    <3>1. k - Len(s) \in 1 .. Len(t)
      BY <1>2, <2>2
    <3>2. b[k - Len(s)] = g[t[k - Len(s)]] /\ c[k] = g[u[k]]
      BY <1>3, <1>6, <3>1 DEF IsImage
    <3> QED BY <1>2, <1>6, <1>7, <2>2, <3>2
  <2> QED BY <1>2, <1>6, <2>1, <2>2
<1>9. c = d
  BY <1>2, <1>4, <1>5, <1>6, <1>7, <1>8, SeqEqual
<1> QED BY <1>9 DEF a, b, c, d, u

LEMMA ImageAppend ==
  ASSUME NEW X, NEW Y, NEW g \in [X -> Y], NEW s \in Seq(X), NEW e \in X
  PROVE  Image(Append(s, e), g) = Append(Image(s, g), g[e])
<1> DEFINE one == << e >>
<1>1. one \in Seq(X) /\ Len(one) = 1 /\ one[1] = e /\ g[e] \in Y
  OBVIOUS
<1>2. Append(s, e) = s \o one
  BY AppendIsConcat
<1>3. Image(one, g) = << g[e] >>
  <2> HIDE DEF one
  <2>0. IsImage(Image(one, g), one, g, Y)
    BY <1>1, ImageProperties
  <2>1. Image(one, g) \in Seq(Y) /\ Len(Image(one, g)) = 1 /\ Image(one, g)[1] = g[e]
    BY <1>1, <2>0 DEF IsImage
  <2> DEFINE i == Image(one, g)
             j == << g[e] >>
  <2>2. j \in Seq(Y) /\ Len(j) = 1 /\ j[1] = g[e]
    BY <1>1
  <2> HIDE DEF i, j
  <2>3. i = j
    BY <2>1, <2>2, SeqEqual DEF i
  <2> QED BY <2>3 DEF i, j
<1>4. Image(s, g) \in Seq(Y)
  BY ImageProperties DEF IsImage
<1>5. Image(s \o one, g) = Image(s, g) \o Image(one, g)
  <2> HIDE DEF one
  <2> QED BY <1>1, ImageConcat
<1> DEFINE i == Image(s, g)
           y == g[e]
<1>6. Append(i, y) = i \o << y >>
  <2>1. i \in Seq(Y) /\ y \in Y
    BY <1>1, <1>4
  <2> HIDE DEF i, y
  <2> QED BY <2>1, AppendIsConcat
<1> QED BY <1>2, <1>3, <1>5, <1>6

(* Selecting from several sequences put together.                           *)
LEMMA OnlyJoined ==
  ASSUME NEW X, NEW ss \in Seq(Seq(X)), NEW S
  PROVE  Only(Joined(ss), S) = Joined([k \in DOMAIN ss |-> Only(ss[k], S)])
<1> DEFINE Y == Seq(X)
           g == [y \in Y |-> Only(y, S)]
           T == {u \in Seq(Y) : Only(Joined(u), S) = Joined(Image(u, g))}
<1>0. g \in [Y -> Y] /\ \A y \in Y : g[y] = Only(y, S)
  <2>1. \A y \in Y : Only(y, S) \in Y
    BY OnlyTyped
  <2> HIDE DEF Y
  <2> QED BY <2>1
<1> HIDE DEF g
<1>1. << >> \in T
  <2>1. << >> \in Seq(Y) /\ Image(<< >>, g) = << >>
    BY DEF Image
  <2> QED BY <2>1, OnlyEmpty, JoinedEmpty
<1>2. ASSUME NEW u \in Seq(Y), NEW e \in Y, u \in T PROVE Append(u, e) \in T
  <2>1. Joined(Append(u, e)) = Joined(u) \o e /\ Joined(u) \in Y
    BY JoinedAppend, JoinedTyped
  <2>2. Only(Joined(u) \o e, S) = Only(Joined(u), S) \o Only(e, S)
    BY <2>1, OnlyConcat DEF Splits
  <2>3. Image(Append(u, e), g) = Append(Image(u, g), g[e]) /\ Image(u, g) \in Seq(Y)
    <3> HIDE DEF Y
    <3>1. u \in Seq(Y) /\ e \in Y
      OBVIOUS
    <3>2. Image(Append(u, e), g) = Append(Image(u, g), g[e])
      BY <1>0, <3>1, ImageAppend
    <3>3. Image(u, g) \in Seq(Y)
      BY <1>0, <3>1, ImageProperties DEF IsImage
    <3> QED BY <3>2, <3>3
  <2>4. Joined(Append(Image(u, g), g[e])) = Joined(Image(u, g)) \o g[e]
    <3>1. g[e] \in Y
      BY <1>0
    <3> QED BY <2>3, <3>1, JoinedAppend
  <2>5. Append(u, e) \in Seq(Y)
    <3> HIDE DEF Y
    <3> QED BY AppendProperties
  <2> HIDE DEF Y
  <2> QED BY <1>0, <1>2, <2>1, <2>2, <2>3, <2>4, <2>5
<1> HIDE DEF T
<1>3. ss \in T
  <2> HIDE DEF Y
  <2>1. Seq(Y) \subseteq T
    BY <1>1, <1>2, SeqInduction
  <2> QED BY <2>1 DEF Y
<1>4. Image(ss, g) = [k \in DOMAIN ss |-> Only(ss[k], S)]
  <2>1. \A k \in DOMAIN ss : ss[k] \in Y
    OBVIOUS
  <2> QED BY <1>0, <2>1 DEF Image
<1> QED BY <1>3, <1>4 DEF T

(* The values of several sequences put together.                            *)
LEMMA JoinedMembers ==
  ASSUME NEW X, NEW ss \in Seq(Seq(X)), NEW x
  PROVE  x \in Members(Joined(ss)) <=> \E k \in DOMAIN ss : x \in Members(ss[k])
<1> DEFINE Y == Seq(X)
           T == {u \in Seq(Y) : x \in Members(Joined(u)) <=> \E k \in DOMAIN u : x \in Members(u[k])}
<1>1. << >> \in T
  <2>1. << >> \in Seq(Y) /\ DOMAIN << >> = {} /\ Members(<< >>) = {}
    BY DEF Members
  <2> QED BY <2>1, JoinedEmpty
<1>2. ASSUME NEW u \in Seq(Y), NEW e \in Y, u \in T PROVE Append(u, e) \in T
  <2> DEFINE v == Append(u, e)
  <2>1. Joined(v) = Joined(u) \o e /\ Joined(u) \in Y
    BY JoinedAppend, JoinedTyped
  <2>2. Members(Joined(v)) = Members(Joined(u)) \cup Members(e)
    BY <2>1, MembersConcat
  <2>3. /\ v \in Seq(Y) /\ Len(v) = Len(u) + 1 /\ Len(u) \in Nat
        /\ \A k \in 1 .. Len(u) : v[k] = u[k]
        /\ v[Len(u) + 1] = e /\ DOMAIN u = 1 .. Len(u) /\ DOMAIN v = 1 .. Len(u) + 1
    <3> HIDE DEF Y
    <3>1. v \in Seq(Y)
      BY AppendProperties
    <3>2. Len(v) = Len(u) + 1 /\ Len(u) \in Nat
      BY AppendProperties
    <3>3. (\A k \in 1 .. Len(u) : v[k] = u[k]) /\ v[Len(u) + 1] = e
      BY AppendProperties
    <3> HIDE DEF v
    <3> QED BY <3>1, <3>2, <3>3, LenProperties
  <2> HIDE DEF v, Y
  <2>4. (\E k \in DOMAIN v : x \in Members(v[k]))
          <=> (\E k \in DOMAIN u : x \in Members(u[k])) \/ x \in Members(e)
    <3>1. DOMAIN v = DOMAIN u \cup {Len(u) + 1}
      BY <2>3
    <3>2. \A k \in DOMAIN u : v[k] = u[k]
      BY <2>3
    <3> QED BY <2>3, <3>1, <3>2
  <2>5. x \in Members(Joined(u)) <=> \E k \in DOMAIN u : x \in Members(u[k])
    BY <1>2
  <2> QED BY <2>2, <2>3, <2>4, <2>5 DEF v
<1> HIDE DEF T
<1>3. ss \in T
  <2> HIDE DEF Y
  <2>1. Seq(Y) \subseteq T
    BY <1>1, <1>2, SeqInduction
  <2> QED BY <2>1 DEF Y
<1> QED BY <1>3 DEF T

(* Chains one behind the other are a chain.                                 *)
LEMMA JoinedChain ==
  ASSUME NEW X, NEW ss \in Seq(Seq(X)), NEW R,
         \A k \in DOMAIN ss : Chain(ss[k], R),
         \A j, k \in DOMAIN ss : j < k =>
           \A x \in Members(ss[j]), y \in Members(ss[k]) : << x, y >> \in R
  PROVE  Chain(Joined(ss), R)
<1> DEFINE Y == Seq(X)
           Fit(u) == /\ \A k \in DOMAIN u : Chain(u[k], R)
                     /\ \A j, k \in DOMAIN u : j < k =>
                          \A x \in Members(u[j]), y \in Members(u[k]) : << x, y >> \in R
           T == {u \in Seq(Y) : Fit(u) => Chain(Joined(u), R)}
<1>1. << >> \in T
  <2>1. << >> \in Seq(Y) /\ Chain(<< >>, R)
    BY DEF Chain
  <2> QED BY <2>1, JoinedEmpty
<1>2. ASSUME NEW u \in Seq(Y), NEW e \in Y, u \in T PROVE Append(u, e) \in T
  <2> DEFINE v == Append(u, e)
             o == Joined(u)
  <2>1. Joined(v) = o \o e /\ o \in Y
    BY JoinedAppend, JoinedTyped
  <2>3. /\ v \in Seq(Y) /\ Len(v) = Len(u) + 1 /\ Len(u) \in Nat
        /\ \A k \in 1 .. Len(u) : v[k] = u[k]
        /\ v[Len(u) + 1] = e /\ DOMAIN u = 1 .. Len(u) /\ DOMAIN v = 1 .. Len(u) + 1
    <3> HIDE DEF Y
    <3>1. v \in Seq(Y)
      BY AppendProperties
    <3>2. Len(v) = Len(u) + 1 /\ Len(u) \in Nat
      BY AppendProperties
    <3>3. (\A k \in 1 .. Len(u) : v[k] = u[k]) /\ v[Len(u) + 1] = e
      BY AppendProperties
    <3> HIDE DEF v
    <3> QED BY <3>1, <3>2, <3>3, LenProperties
  <2>2. \A x : x \in Members(o) <=> \E k \in DOMAIN u : x \in Members(u[k])
    BY JoinedMembers
  <2>8. u \in T
    BY <1>2
  <2> HIDE DEF v, o
  <2>4. ASSUME Fit(v) PROVE Chain(Joined(v), R)
    <3>1. \A k \in DOMAIN u : k \in DOMAIN v /\ v[k] = u[k] /\ k < Len(u) + 1
      BY <2>3
    <3>2. Len(u) + 1 \in DOMAIN v
      BY <2>3
    <3>3. Fit(u)
      BY <2>4, <3>1
    <3>4. Chain(o, R)
      BY <2>8, <3>3 DEF o
    <3>5. Chain(e, R)
      BY <2>3, <2>4, <3>2
    <3>6. \A x \in Members(o), y \in Members(e) : << x, y >> \in R
      <4> SUFFICES ASSUME NEW x \in Members(o), NEW y \in Members(e) PROVE << x, y >> \in R
        OBVIOUS
      <4>1. PICK k \in DOMAIN u : x \in Members(u[k])
        BY <2>2
      <4>2. x \in Members(v[k]) /\ y \in Members(v[Len(u) + 1]) /\ k < Len(u) + 1
        BY <2>3, <3>1, <4>1
      <4> QED BY <2>4, <3>1, <3>2, <4>2
    <3>7. \A j \in DOMAIN o, k \in DOMAIN e : << o[j], e[k] >> \in R
      BY <3>6 DEF Members
    <3> QED BY <2>1, <3>4, <3>5, <3>7, ChainConcat
  <2> HIDE DEF Fit
  <2> QED BY <2>3, <2>4 DEF v
<1>3. ss \in T
  <2> HIDE DEF Y, T
  <2>1. Seq(Y) \subseteq T
    BY <1>1, <1>2, SeqInduction
  <2> QED BY <2>1 DEF Y
<1>4. Fit(ss)
  OBVIOUS
<1> QED BY <1>3, <1>4

(* An order that can be the order of a list without repetitions.            *)
Strict(R, X) ==
  /\ \A x \in X : << x, x >> \notin R
  /\ \A x, y, z \in X : << x, y >> \in R /\ << y, z >> \in R => << x, z >> \in R

(* Lists in one order, of which the one holds values of the other without a *)
(* gap: it is a stretch of the other, and its beginning if nothing in front *)
(* is missing.                                                              *)
NoGap(s, a) ==
  \A i, j, k \in DOMAIN a :
    i < j /\ j < k /\ a[i] \in Members(s) /\ a[k] \in Members(s) => a[j] \in Members(s)
NoneInFront(s, a) ==
  \A j, k \in DOMAIN a : j < k /\ a[k] \in Members(s) => a[j] \in Members(s)
IsStretch(s, a, i) ==
  i \in Nat /\ i + Len(s) <= Len(a) /\ s = SubSeq(a, i + 1, i + Len(s))

LEMMA SortedSlice ==
  ASSUME NEW X, NEW a \in Seq(X), NEW s \in Seq(X), NEW R, Strict(R, X),
         Chain(a, R), Chain(s, R), Members(s) \subseteq Members(a), NoGap(s, a)
  PROVE  \E i : IsStretch(s, a, i) /\ (NoneInFront(s, a) => i = 0)
<1> DEFINE m == Len(s)
           n == Len(a)
<1>0. m \in Nat /\ n \in Nat /\ DOMAIN s = 1 .. m /\ DOMAIN a = 1 .. n
      /\ (\A k \in 1 .. m : s[k] \in X) /\ (\A k \in 1 .. n : a[k] \in X)
  OBVIOUS
<1> HIDE DEF m, n
<1>1. CASE m = 0
  <2>1. s = << >>
    BY <1>1 DEF m
  <2>2. SubSeq(a, 1, 0) = << >>
    OBVIOUS
  <2>3. 0 + Len(s) = 0 /\ 0 + 1 = 1 /\ 0 <= Len(a)
    BY <1>0, <1>1 DEF m, n
  <2>4. IsStretch(s, a, 0)
    BY <2>1, <2>2, <2>3 DEF IsStretch
  <2> QED BY <2>4
<1>2. CASE m # 0
  <2> DEFINE p == [k \in 1 .. m |-> CHOOSE j \in 1 .. n : a[j] = s[k]]
  <2>1. \A k \in 1 .. m : p[k] \in 1 .. n /\ a[p[k]] = s[k]
    <3> SUFFICES ASSUME NEW k \in 1 .. m PROVE p[k] \in 1 .. n /\ a[p[k]] = s[k]
      OBVIOUS
    <3>1. s[k] \in Members(a)
      BY <1>0 DEF Members
    <3>2. \E j \in 1 .. n : a[j] = s[k]
      BY <1>0, <3>1 DEF Members
    <3> QED BY <3>2
  <2> HIDE DEF p
  <2>2. \A i, j \in 1 .. n : i < j => << a[i], a[j] >> \in R
    BY <1>0 DEF Chain
  <2>3. \A i, j \in 1 .. n : a[i] = a[j] => i = j
    <3> SUFFICES ASSUME NEW i \in 1 .. n, NEW j \in 1 .. n, a[i] = a[j], i # j
                 PROVE  FALSE
      OBVIOUS
    <3>1. i < j \/ j < i
      OBVIOUS
    <3>2. << a[i], a[i] >> \in R
      BY <2>2, <3>1
    <3> QED BY <1>0, <3>2 DEF Strict
  <2>4. \A j, k \in 1 .. m : j < k => p[j] < p[k]
    <3> SUFFICES ASSUME NEW j \in 1 .. m, NEW k \in 1 .. m, j < k, ~ (p[j] < p[k])
                 PROVE  FALSE
      OBVIOUS
    <3>1. << s[j], s[k] >> \in R
      BY <1>0 DEF Chain
    <3>2. CASE p[j] = p[k]
      BY <1>0, <2>1, <3>1, <3>2 DEF Strict
    <3>3. CASE p[k] < p[j]
      <4>1. << s[k], s[j] >> \in R
        BY <2>1, <2>2, <3>3
      <4> QED BY <1>0, <3>1, <4>1 DEF Strict
    <3>4. p[j] \in Nat /\ p[k] \in Nat
      BY <2>1
    <3> QED BY <3>2, <3>3, <3>4
  <2>5. \A j \in 1 .. n : a[j] \in Members(s) => \E k \in 1 .. m : p[k] = j
    BY <1>0, <2>1, <2>3 DEF Members
  <2>6. \A k \in 1 .. m - 1 : p[k + 1] = p[k] + 1
    <3> SUFFICES ASSUME NEW k \in 1 .. m - 1, p[k + 1] # p[k] + 1 PROVE FALSE
      OBVIOUS
    <3>1. k \in 1 .. m /\ k + 1 \in 1 .. m /\ k < k + 1
      BY <1>0
    <3>2. p[k] < p[k + 1] /\ p[k] \in 1 .. n /\ p[k + 1] \in 1 .. n
      BY <2>1, <2>4, <3>1
    <3>3. p[k] + 1 \in 1 .. n /\ p[k] < p[k] + 1 /\ p[k] + 1 < p[k + 1]
      BY <1>0, <3>2
    <3>4. a[p[k]] \in Members(s) /\ a[p[k + 1]] \in Members(s)
      BY <1>0, <2>1, <3>1 DEF Members
    <3>5. a[p[k] + 1] \in Members(s)
      BY <1>0, <3>2, <3>3, <3>4 DEF NoGap
    <3>6. PICK q \in 1 .. m : p[q] = p[k] + 1
      BY <2>5, <3>3, <3>5
    <3>7. p[k] < p[q] /\ p[q] < p[k + 1]
      BY <3>3, <3>6
    <3>8. ~ (q < k) /\ q # k /\ q # k + 1 /\ ~ (k + 1 < q)
      <4>1. q < k => p[q] < p[k]
        BY <2>4, <3>1
      <4>2. k + 1 < q => p[k + 1] < p[q]
        BY <2>4, <3>1
      <4> QED BY <3>2, <3>6, <3>7, <4>1, <4>2
    <3> QED BY <3>1, <3>8
  <2> DEFINE i == p[1] - 1
  <2>7. 1 \in 1 .. m /\ p[1] \in 1 .. n /\ i \in Nat /\ p[1] = i + 1
    BY <1>0, <1>2, <2>1
  <2> HIDE DEF i
  <2>8. \A k \in 1 .. m : p[k] = i + k
    <3> DEFINE T == {k \in 0 .. m - 1 : p[k + 1] = i + (k + 1)}
    <3>1. 0 \in T
      BY <1>0, <1>2, <2>7
    <3>2. ASSUME NEW k \in 0 .. (m - 1) - 1, k \in T PROVE k + 1 \in T
      <4>1. k + 1 \in 1 .. m - 1 /\ k + 1 \in 0 .. m - 1
        BY <1>0
      <4>2. p[(k + 1) + 1] = p[k + 1] + 1 /\ p[k + 1] = i + (k + 1)
        BY <2>6, <3>2, <4>1
      <4> QED BY <2>7, <4>1, <4>2
    <3>3. m - 1 \in Nat
      BY <1>0, <1>2
    <3> HIDE DEF T
    <3>4. 0 .. m - 1 \subseteq T
      BY <3>1, <3>2, <3>3, Upto
    <3> SUFFICES ASSUME NEW k \in 1 .. m PROVE p[k] = i + k
      OBVIOUS
    <3>5. k - 1 \in T /\ (k - 1) + 1 = k
      BY <1>0, <3>4
    <3> QED BY <3>5 DEF T
  <2>9. i + m <= n
    <3>1. m \in 1 .. m
      BY <1>0, <1>2
    <3>2. p[m] = i + m /\ p[m] \in 1 .. n
      BY <2>1, <2>8, <3>1
    <3> QED BY <3>2
  <2>10. s = SubSeq(a, i + 1, i + m)
    <3> DEFINE b == SubSeq(a, i + 1, i + m)
    <3>1. \A k \in i + 1 .. i + m : a[k] \in X
      BY <1>0, <2>7, <2>9
    <3>2. /\ b \in Seq(X) /\ Len(b) = (i + m) - (i + 1) + 1
          /\ \A k \in 1 .. (i + m) - (i + 1) + 1 : b[k] = a[(i + 1) + k - 1]
      <4>1. i + 1 \in Int /\ i + m \in Int /\ i + 1 <= (i + m) + 1
        BY <1>0, <2>7
      <4> QED BY <3>1, <4>1, SubSeqProperties
    <3>3. (i + m) - (i + 1) + 1 = m /\ \A k \in 1 .. m : (i + 1) + k - 1 = i + k
      BY <1>0, <2>7
    <3> HIDE DEF b
    <3>4. Len(b) = m /\ \A k \in 1 .. m : b[k] = a[i + k]
      BY <3>2, <3>3
    <3>5. \A k \in 1 .. m : s[k] = b[k]
      BY <2>1, <2>8, <3>4
    <3>6. s = b
      BY <3>2, <3>4, <3>5, SeqEqual DEF m
    <3> QED BY <3>6 DEF b
  <2>11. ASSUME NoneInFront(s, a) PROVE i = 0
    <3> SUFFICES ASSUME i # 0 PROVE FALSE
      OBVIOUS
    <3>1. 1 \in 1 .. n /\ 1 < p[1]
      BY <1>0, <2>7
    <3>2. a[p[1]] \in Members(s)
      BY <1>0, <2>1, <2>7 DEF Members
    <3>3. a[1] \in Members(s)
      BY <1>0, <2>7, <2>11, <3>1, <3>2 DEF NoneInFront
    <3>4. PICK k \in 1 .. m : p[k] = 1
      BY <2>5, <3>1, <3>3
    <3> QED BY <2>7, <2>8, <3>4
  <2>12. IsStretch(s, a, i)
    BY <2>7, <2>9, <2>10 DEF IsStretch, m, n
  <2> QED BY <2>11, <2>12
<1> QED BY <1>1, <1>2

(* Lists of the same values in one order are the same.                      *)
LEMMA SortedSame ==
  ASSUME NEW X, NEW a \in Seq(X), NEW s \in Seq(X), NEW R, Strict(R, X),
         Chain(a, R), Chain(s, R), Members(s) = Members(a)
  PROVE  s = a
<1>1. NoGap(s, a) /\ NoneInFront(s, a) /\ NoGap(a, s) /\ NoneInFront(a, s)
  BY DEF NoGap, NoneInFront, Members
<1>2. IsStretch(s, a, 0)
  BY <1>1, SortedSlice
<1>3. IsStretch(a, s, 0)
  BY <1>1, SortedSlice
<1>4. Len(s) \in Nat /\ Len(a) \in Nat /\ Len(s) <= Len(a) /\ Len(a) <= Len(s)
  BY <1>2, <1>3 DEF IsStretch
<1>5. Len(s) = Len(a)
  BY <1>4
<1>6. /\ Len(a) \in 0 .. Len(a) /\ s = SubSeq(a, 1, Len(a))
  BY <1>2, <1>4, <1>5 DEF IsStretch
<1>7. \A i \in 1 .. Len(a) : s[i] = a[i]
  BY <1>6, Prefix
<1> QED
  BY <1>5, <1>7

(* Sets of V with their tracks, of K, and those of track t as Image and     *)
(* Only give them.                                                          *)
TrackedSets(K, V) == [trk : K, set : V]
WithTrack(D, t) == {y \in D : y.trk = t}

LEMMA SetsOfTrackIs ==
  ASSUME NEW K, NEW V, NEW s \in Seq(TrackedSets(K, V)), NEW t
  PROVE  LET D == TrackedSets(K, V)
         IN  SetsOfTrack(s, t) = Image(Only(s, WithTrack(D, t)), [y \in D |-> y.set])
<1> DEFINE D == TrackedSets(K, V)
           M == {y \in Members(s) : y.trk = t}
           g == [y \in D |-> y.set]
           o == Only(s, WithTrack(D, t))
<1>1. \A k \in DOMAIN s : s[k] \in D /\ s[k] \in Members(s)
  BY DEF Members
<1>2. \A k \in DOMAIN s : s[k] \in M <=> s[k] \in WithTrack(D, t)
  BY <1>1 DEF WithTrack
<1> HIDE DEF M
<1>3. s \in Seq(D)
  OBVIOUS
<1> HIDE DEF D
<1>4. Only(s, M) = o
  BY <1>2, <1>3, OnlySame
<1>5. \A k \in DOMAIN o : o[k] \in D
  <2>1. o \in Seq(D)
    BY <1>3, OnlyTyped
  <2> HIDE DEF o
  <2> QED BY <2>1, ElementOfSeq
<1>6. SetsOfTrack(s, t) = [k \in DOMAIN o |-> o[k].set]
  BY <1>4 DEF SetsOfTrack, M
<1> HIDE DEF o
<1>7. SetsOfTrack(s, t) = Image(o, g)
  BY <1>5, <1>6 DEF Image
<1> QED BY <1>7 DEF o, D

(* Those of two lists one behind the other, and that they are sets of V.    *)
LEMMA SetsOfTrackConcat ==
  ASSUME NEW K, NEW V, NEW s \in Seq(TrackedSets(K, V)), NEW u \in Seq(TrackedSets(K, V)),
         NEW t
  PROVE  /\ SetsOfTrack(s \o u, t) = SetsOfTrack(s, t) \o SetsOfTrack(u, t)
         /\ SetsOfTrack(s, t) \in Seq(V)
<1> DEFINE D == TrackedSets(K, V)
           g == [y \in D |-> y.set]
           S == WithTrack(D, t)
<1>0. s \in Seq(D) /\ u \in Seq(D)
  OBVIOUS
<1>9. g \in [D -> V]
  BY DEF TrackedSets
<1>1. \A r \in Seq(D) : SetsOfTrack(r, t) = Image(Only(r, S), g)
  BY SetsOfTrackIs
<1> HIDE DEF D, g, S
<1>2. s \o u \in Seq(D) /\ Only(s, S) \in Seq(D) /\ Only(u, S) \in Seq(D)
  BY <1>0, ConcatProperties, OnlyTyped
<1>3. Only(s \o u, S) = Only(s, S) \o Only(u, S)
  BY <1>0, OnlyConcat DEF Splits
<1>4. Image(Only(s, S) \o Only(u, S), g) = Image(Only(s, S), g) \o Image(Only(u, S), g)
  BY <1>2, <1>9, ImageConcat
<1>5. Image(Only(s, S), g) \in Seq(V)
  BY <1>2, <1>9, ImageProperties DEF IsImage
<1> QED BY <1>0, <1>1, <1>2, <1>3, <1>4, <1>5

(* The sets that one track returned.                                        *)
LEMMA SetsOfTracked ==
  ASSUME NEW K, NEW V, NEW sets \in Seq(V), NEW u \in K, NEW t
  PROVE  /\ Tracked(u, sets) \in Seq(TrackedSets(K, V))
         /\ SetsOfTrack(Tracked(u, sets), t) = IF u = t THEN sets ELSE << >>
<1> DEFINE D == TrackedSets(K, V)
           s == Tracked(u, sets)
           n == Len(sets)
           g == [y \in D |-> y.set]
<1>1. n \in Nat /\ DOMAIN sets = 1 .. n /\ \A k \in 1 .. n : sets[k] \in V
  OBVIOUS
<1> HIDE DEF n
<1>2. s = [k \in 1 .. n |-> [trk |-> u, set |-> sets[k]]]
  BY <1>1 DEF Tracked
<1>3. \A k \in 1 .. n : [trk |-> u, set |-> sets[k]] \in D
  BY <1>1 DEF TrackedSets
<1> HIDE DEF s
<1>4. /\ s \in Seq(D) /\ Len(s) = n /\ DOMAIN s = 1 .. n
      /\ \A k \in 1 .. n : s[k] = [trk |-> u, set |-> sets[k]]
  <2> HIDE DEF D
  <2> QED BY <1>1, <1>2, <1>3
<1>5. SetsOfTrack(s, t) = Image(Only(s, WithTrack(D, t)), g)
  BY <1>4, SetsOfTrackIs
<1>6. \A k \in 1 .. n : s[k] \in D /\ s[k].trk = u /\ s[k].set = sets[k]
  <2>1. \A k \in 1 .. n : s[k] \in D
    <3> HIDE DEF D
    <3> QED BY <1>4, ElementOfSeq
  <2> HIDE DEF D
  <2> QED BY <1>4, <2>1
<1> HIDE DEF D
<1>7. CASE u = t
  <2>1. \A k \in 1 .. n : s[k] \in WithTrack(D, t)
    BY <1>6, <1>7 DEF WithTrack
  <2>2. s \in Seq(WithTrack(D, t))
    BY <1>4, <2>1
  <2>3. Only(s, WithTrack(D, t)) = s
    BY <2>2, OnlyAll
  <2>4. Image(s, g) = [k \in 1 .. n |-> sets[k]]
    BY <1>4, <1>6 DEF Image
  <2>5. sets = [k \in 1 .. n |-> sets[k]]
    BY <1>1 DEF n
  <2> QED BY <1>4, <1>5, <1>7, <2>3, <2>4, <2>5 DEF s, D
<1>8. CASE u # t
  <2>1. \A k \in 1 .. Len(s) : s[k] \notin WithTrack(D, t)
    BY <1>4, <1>6, <1>8 DEF WithTrack
  <2>2. Only(s, WithTrack(D, t)) = << >>
    BY <1>4, <2>1, OnlyNone
  <2>3. Image(<< >>, g) = << >>
    BY DEF Image
  <2> QED BY <1>4, <1>5, <1>8, <2>2, <2>3 DEF s, D
<1> QED BY <1>7, <1>8

-----------------------------------------------------------------------------
(* What assemblers of tracks K are fed, and what comes of it.               *)
TrackItems(S, K) == [trk : K, segments : Seq(S)]
Feedings(S, T, U, K) ==
  [asms : [K -> Assemblers(S, T, U)], sets : Seq(TrackedSets(K, AssembledSets(S, T, U)))]

LEMMA FeedTrackTyped ==
  ASSUME NEW S, NEW T, NEW U, IsFed(S, T, U), NEW K,
         NEW f \in Feedings(S, T, U, K), NEW i \in TrackItems(S, K)
  PROVE  FeedTrack(f, i) \in Feedings(S, T, U, K)
<1> DEFINE A == Assemblers(S, T, U)
           V == AssembledSets(S, T, U)
           D == TrackedSets(K, V)
           one == AsmFeed(f.asms[i.trk], i.segments)
<1>1. f.asms \in [K -> A] /\ f.sets \in Seq(D) /\ i.trk \in K /\ i.segments \in Seq(S)
  BY DEF Feedings, TrackItems
<1>2. f.asms[i.trk] \in A
  BY <1>1
<1>3. one.asm \in A /\ one.sets \in Seq(V)
  BY <1>1, <1>2, FeedTyped
<1> HIDE DEF A, V, one, D
<1>4. Tracked(i.trk, one.sets) \in Seq(D)
  BY <1>1, <1>3, SetsOfTracked DEF D
<1>5. f.sets \o Tracked(i.trk, one.sets) \in Seq(D)
  BY <1>1, <1>4, ConcatProperties
<1>6. [f.asms EXCEPT ![i.trk] = one.asm] \in [K -> A]
  BY <1>1, <1>3
<1>7. FeedTrack(f, i) = [asms |-> [f.asms EXCEPT ![i.trk] = one.asm],
                         sets |-> f.sets \o Tracked(i.trk, one.sets)]
  BY DEF FeedTrack, one
<1> QED BY <1>5, <1>6, <1>7 DEF Feedings, A, V, D

IsFeedings(f, asms, items) ==
  \A k \in 0 .. Len(items) :
    f[k] = IF k = 0 THEN [asms |-> asms, sets |-> << >>] ELSE FeedTrack(f[k - 1], items[k])

(* FeedTracks is what the equation of its recursion says.                   *)
LEMMA FeedingsExist ==
  ASSUME NEW S, NEW T, NEW U, IsFed(S, T, U), NEW K,
         NEW asms \in [K -> Assemblers(S, T, U)], NEW items \in Seq(TrackItems(S, K))
  PROVE  \E f \in [0 .. Len(items) -> Feedings(S, T, U, K)] :
           IsFeedings(f, asms, items) /\ FeedTracks(asms, items) = f[Len(items)]
<1> DEFINE N == Len(items)
           D == Feedings(S, T, U, K)
           a == [asms |-> asms, sets |-> << >>]
           g == [y \in D \X (1 .. N) |-> FeedTrack(y[1], items[y[2]])]
           Is(f) == f = [n \in 0 .. N |->
                           IF n = 0 THEN a
                           ELSE CHOOSE r \in {FeedTrack(h, items[n]) : h \in {f[n - 1]}} : TRUE]
           u == CHOOSE f : Is(f)
<1>1. N \in Nat /\ a \in D /\ \A n \in 1 .. N : items[n] \in TrackItems(S, K)
  <2>1. << >> \in Seq(TrackedSets(K, AssembledSets(S, T, U)))
    OBVIOUS
  <2>2. a \in D
    BY <2>1 DEF Feedings
  <2>3. N \in Nat /\ \A n \in 1 .. N : items[n] \in TrackItems(S, K)
    OBVIOUS
  <2> QED BY <2>2, <2>3
<1>2. g \in [D \X (1 .. N) -> D]
  <2>1. ASSUME NEW y \in D \X (1 .. N)
        PROVE  FeedTrack(y[1], items[y[2]]) \in D
    <3>1. y[1] \in D /\ items[y[2]] \in TrackItems(S, K)
      BY <1>1
    <3> QED BY <3>1, FeedTrackTyped
  <2> HIDE DEF D, N
  <2> QED BY <2>1
<1>3. \A y \in D, n \in 1 .. N : g[<< y, n >>] = FeedTrack(y, items[n])
  OBVIOUS
<1>4. FeedTracks(asms, items) = u[N]
  BY DEF FeedTracks
<1>8. \A f, n : (CHOOSE r \in {FeedTrack(h, items[n]) : h \in {f[n - 1]}} : TRUE)
                  = FeedTrack(f[n - 1], items[n])
  <2> SUFFICES ASSUME NEW f, NEW n
               PROVE  (CHOOSE r \in {FeedTrack(h, items[n]) : h \in {f[n - 1]}} : TRUE)
                        = FeedTrack(f[n - 1], items[n])
    OBVIOUS
  <2>1. {FeedTrack(h, items[n]) : h \in {f[n - 1]}} = {FeedTrack(f[n - 1], items[n])}
    OBVIOUS
  <2> QED BY <2>1
<1>5. Is(u)
  <2>1. PICK f \in [0 .. N -> D] : IsRecursive(f, N, a, g)
    <3> HIDE DEF g, N, D, a
    <3> QED BY <1>1, <1>2, Recursion
  <2> HIDE DEF g, D, N, a
  <2>2. \A n \in 0 .. N : n # 0 => n - 1 \in 0 .. N /\ n \in 1 .. N
    BY <1>1
  <2>3. \A n \in 0 .. N : f[n] = IF n = 0 THEN a ELSE FeedTrack(f[n - 1], items[n])
    BY <1>3, <2>1, <2>2 DEF IsRecursive
  <2>4. Is(f)
    BY <1>8, <2>1, <2>3
  <2> HIDE DEF Is
  <2> QED BY <2>4
<1>6. Follows(u, N, D, a, g) /\ IsFeedings(u, asms, items)
  <2> HIDE DEF g, u, D
  <2>1. \A n \in 1 .. N : n # 0 /\ n \in 0 .. N
    BY <1>1
  <2>2. \A n \in 0 .. N : u[n] = IF n = 0 THEN a ELSE FeedTrack(u[n - 1], items[n])
    <3>1. u = [n \in 0 .. N |->
                 IF n = 0 THEN a
                 ELSE CHOOSE r \in {FeedTrack(h, items[n]) : h \in {u[n - 1]}} : TRUE]
      BY <1>5
    <3> QED BY <1>8, <3>1
  <2>3. u[0] = a /\ \A n \in 1 .. N : u[n] = FeedTrack(u[n - 1], items[n])
    <3>1. 0 \in 0 .. N
      BY <1>1
    <3> HIDE DEF N, a
    <3> QED BY <2>1, <2>2, <3>1
  <2>4. u = [n \in 0 .. N |-> u[n]]
    BY <1>5
  <2>5. IsFeedings(u, asms, items)
    BY <2>2 DEF IsFeedings
  <2> HIDE DEF N, a
  <2> QED BY <1>3, <2>3, <2>4, <2>5 DEF Follows
<1>7. u \in [0 .. N -> D]
  <2> HIDE DEF g, u, D, N, a
  <2> QED BY <1>1, <1>2, <1>6, RecursionTyped
<1> QED
  <2> HIDE DEF u
  <2> QED BY <1>4, <1>6, <1>7

LEMMA FeedTracksTyped ==
  ASSUME NEW S, NEW T, NEW U, IsFed(S, T, U), NEW K,
         NEW asms \in [K -> Assemblers(S, T, U)], NEW items \in Seq(TrackItems(S, K))
  PROVE  FeedTracks(asms, items) \in Feedings(S, T, U, K)
<1>1. Len(items) \in 0 .. Len(items)
  OBVIOUS
<1> QED BY <1>1, FeedingsExist

LEMMA FeedTracksEmpty ==
  ASSUME NEW S, NEW T, NEW U, IsFed(S, T, U), NEW K, NEW asms \in [K -> Assemblers(S, T, U)]
  PROVE  FeedTracks(asms, << >>) = [asms |-> asms, sets |-> << >>]
<1> DEFINE s == << >>
<1>1. Len(s) = 0
  OBVIOUS
<1>2. s \in Seq(TrackItems(S, K))
  OBVIOUS
<1> HIDE DEF s
<1>3. PICK f \in [0 .. Len(s) -> Feedings(S, T, U, K)] :
        IsFeedings(f, asms, s) /\ FeedTracks(asms, s) = f[Len(s)]
  BY <1>2, FeedingsExist
<1>4. f[0] = [asms |-> asms, sets |-> << >>]
  BY <1>1, <1>3 DEF IsFeedings
<1> QED BY <1>1, <1>3, <1>4 DEF s

LEMMA FeedTracksAppend ==
  ASSUME NEW S, NEW T, NEW U, IsFed(S, T, U), NEW K,
         NEW asms \in [K -> Assemblers(S, T, U)], NEW items \in Seq(TrackItems(S, K)),
         NEW i \in TrackItems(S, K)
  PROVE  FeedTracks(asms, Append(items, i)) = FeedTrack(FeedTracks(asms, items), i)
<1> DEFINE z == Append(items, i)
           l == items
           D == Feedings(S, T, U, K)
           I == TrackItems(S, K)
           a == [asms |-> asms, sets |-> << >>]
<1>1. z \in Seq(I) /\ Len(z) = Len(l) + 1 /\ Len(l) \in Nat /\ z[Len(l) + 1] = i
      /\ \A j \in 1 .. Len(l) : z[j] = l[j]
  <2>1. i \in I /\ l \in Seq(I)
    OBVIOUS
  <2> HIDE DEF I
  <2> QED BY <2>1, AppendProperties
<1>2. PICK f \in [0 .. Len(l) -> D] : IsFeedings(f, asms, l) /\ FeedTracks(asms, l) = f[Len(l)]
  BY FeedingsExist
<1> HIDE DEF z
<1>3. PICK h \in [0 .. Len(z) -> D] : IsFeedings(h, asms, z) /\ FeedTracks(asms, z) = h[Len(z)]
  BY <1>1, FeedingsExist
<1>7. \A n \in 0 .. Len(l) : f[n] = IF n = 0 THEN a ELSE FeedTrack(f[n - 1], l[n])
  BY <1>2 DEF IsFeedings
<1>8. \A n \in 0 .. Len(z) : h[n] = IF n = 0 THEN a ELSE FeedTrack(h[n - 1], z[n])
  BY <1>3 DEF IsFeedings
<1> HIDE DEF a, D
<1>4. 0 .. Len(l) \subseteq {n \in 0 .. Len(l) : h[n] = f[n]}
  <2> DEFINE W == {n \in 0 .. Len(l) : h[n] = f[n]}
  <2>1. 0 \in W
    <3>1. 0 \in 0 .. Len(l) /\ 0 \in 0 .. Len(z)
      BY <1>1
    <3>2. f[0] = a /\ h[0] = a
      BY <1>7, <1>8, <3>1
    <3> QED BY <3>1, <3>2
  <2>2. ASSUME NEW n \in 0 .. Len(l) - 1, n \in W PROVE n + 1 \in W
    <3>1. /\ n + 1 \in 0 .. Len(l) /\ n + 1 \in 0 .. Len(z) /\ n + 1 # 0 /\ (n + 1) - 1 = n
          /\ z[n + 1] = l[n + 1] /\ h[n] = f[n]
      BY <1>1, <2>2
    <3>2. f[n + 1] = FeedTrack(f[n], l[n + 1]) /\ h[n + 1] = FeedTrack(h[n], z[n + 1])
      BY <1>7, <1>8, <3>1
    <3> QED BY <3>1, <3>2
  <2> HIDE DEF W
  <2> QED BY <1>1, <2>1, <2>2, Upto DEF W
<1>5. h[Len(l)] = f[Len(l)]
  <2>1. Len(l) \in 0 .. Len(l)
    BY <1>1
  <2> QED BY <1>4, <2>1
<1>6. h[Len(l) + 1] = FeedTrack(h[Len(l)], i)
  <2>1. Len(l) + 1 \in 0 .. Len(z) /\ Len(l) + 1 # 0 /\ (Len(l) + 1) - 1 = Len(l)
    BY <1>1
  <2> QED BY <1>1, <1>8, <2>1
<1> QED BY <1>1, <1>2, <1>3, <1>5, <1>6 DEF z

(* An item reaches the assembler of its track and no other.                 *)
Goes(f, h, i, t) ==
  /\ i.trk # t => h.asms[t] = f.asms[t] /\ SetsOfTrack(h.sets, t) = SetsOfTrack(f.sets, t)
  /\ i.trk = t =>
       /\ h.asms[t] = AsmFeed(f.asms[t], i.segments).asm
       /\ SetsOfTrack(h.sets, t) =
            SetsOfTrack(f.sets, t) \o AsmFeed(f.asms[t], i.segments).sets

LEMMA FeedTrackGoes ==
  ASSUME NEW S, NEW T, NEW U, IsFed(S, T, U), NEW K,
         NEW f \in Feedings(S, T, U, K), NEW i \in TrackItems(S, K), NEW t \in K
  PROVE  Goes(f, FeedTrack(f, i), i, t)
<1> DEFINE A == Assemblers(S, T, U)
           V == AssembledSets(S, T, U)
           D == TrackedSets(K, V)
           u == i.trk
           one == AsmFeed(f.asms[u], i.segments)
           more == Tracked(u, one.sets)
           h == FeedTrack(f, i)
<1>1. f.asms \in [K -> A] /\ f.sets \in Seq(D) /\ u \in K /\ i.segments \in Seq(S)
  BY DEF Feedings, TrackItems
<1>2. f.asms[u] \in A
  BY <1>1
<1>3. one.sets \in Seq(V)
  BY <1>1, <1>2, FeedTyped
<1>4. h.asms = [f.asms EXCEPT ![u] = one.asm] /\ h.sets = f.sets \o more
  BY DEF FeedTrack
<1> HIDE DEF A, V, h
<1>5. more \in Seq(D) /\ SetsOfTrack(more, t) = IF u = t THEN one.sets ELSE << >>
  <2> DEFINE o == one.sets
  <2>1. o \in Seq(V) /\ u \in K
    BY <1>1, <1>3
  <2> HIDE DEF o, u
  <2> HIDE DEF D, more
  <2>2. /\ Tracked(u, o) \in Seq(TrackedSets(K, V))
        /\ SetsOfTrack(Tracked(u, o), t) = IF u = t THEN o ELSE << >>
    BY <2>1, SetsOfTracked
  <2> QED BY <2>2 DEF o, D, more
<1>6. /\ SetsOfTrack(f.sets \o more, t) = SetsOfTrack(f.sets, t) \o SetsOfTrack(more, t)
      /\ SetsOfTrack(f.sets, t) \in Seq(V)
  <2> DEFINE x == f.sets
  <2> HIDE DEF more, x
  <2>1. x \in Seq(D)
    BY <1>1 DEF x
  <2> QED BY <1>5, <2>1, SetsOfTrackConcat DEF x
<1> HIDE DEF more
<1>7. CASE u = t
  <2>1. h.asms[t] = one.asm
    <3> HIDE DEF one
    <3> QED BY <1>1, <1>4, <1>7
  <2>2. SetsOfTrack(h.sets, t) = SetsOfTrack(f.sets, t) \o one.sets
    <3> HIDE DEF one
    <3> QED BY <1>4, <1>5, <1>6, <1>7
  <2> QED BY <1>7, <2>1, <2>2 DEF Goes, h
<1>8. CASE u # t
  <2>1. h.asms[t] = f.asms[t]
    <3> HIDE DEF one
    <3> QED BY <1>1, <1>4, <1>8
  <2>2. SetsOfTrack(h.sets, t) = SetsOfTrack(f.sets, t)
    <3> HIDE DEF one
    <3>1. SetsOfTrack(f.sets, t) \o << >> = SetsOfTrack(f.sets, t)
      BY <1>6, ConcatEmptySeq
    <3> QED BY <1>4, <1>5, <1>6, <1>8, <3>1
  <2> QED BY <1>8, <2>1, <2>2 DEF Goes, h
<1> QED BY <1>7, <1>8

(* g gives the items of the values in X.                                    *)
Itemizes(g, X, S, K) == g \in [X -> TrackItems(S, K)]

(* The segments of values, whose items are given by g, one value behind the *)
(* other; and the values of track t.                                        *)
Log(s, g) == Joined(Image(s, [x \in DOMAIN g |-> g[x].segments]))
OfItem(g, t) == {x \in DOMAIN g : g[x].trk = t}

LEMMA LogTyped ==
  ASSUME NEW S, NEW K, NEW X, NEW g, Itemizes(g, X, S, K), NEW s \in Seq(X)
  PROVE  Log(s, g) \in Seq(S)
<1> DEFINE h == [x \in DOMAIN g |-> g[x].segments]
           Y == Seq(S)
<1>1. h \in [X -> Y]
  BY DEF TrackItems, Itemizes
<1> HIDE DEF h, Y
<1>2. Image(s, h) \in Seq(Y)
  BY <1>1, ImageProperties DEF IsImage
<1>4. Joined(Image(s, h)) \in Seq(S)
  BY <1>2, JoinedTyped DEF Y
<1> QED BY <1>4 DEF h, Log

LEMMA LogConcat ==
  ASSUME NEW S, NEW K, NEW X, NEW g, Itemizes(g, X, S, K), NEW s \in Seq(X), NEW t \in Seq(X)
  PROVE  Log(s \o t, g) = Log(s, g) \o Log(t, g)
<1> DEFINE h == [x \in DOMAIN g |-> g[x].segments]
           Y == Seq(S)
<1>1. h \in [X -> Y]
  BY DEF TrackItems, Itemizes
<1> HIDE DEF h, Y
<1>2. Image(s, h) \in Seq(Y) /\ Image(t, h) \in Seq(Y)
  BY <1>1, ImageProperties DEF IsImage
<1>3. Image(s \o t, h) = Image(s, h) \o Image(t, h)
  BY <1>1, ImageConcat
<1>5. Joined(Image(s, h) \o Image(t, h)) = Joined(Image(s, h)) \o Joined(Image(t, h))
  <2> DEFINE a == Image(s, h)
             b == Image(t, h)
  <2>1. a \in Seq(Seq(S)) /\ b \in Seq(Seq(S))
    BY <1>2 DEF Y
  <2> HIDE DEF a, b
  <2>2. Joined(a \o b) = Joined(a) \o Joined(b)
    BY <2>1, JoinedConcat
  <2> QED BY <2>2 DEF a, b
<1> QED BY <1>3, <1>5 DEF h, Log

LEMMA LogOne ==
  ASSUME NEW S, NEW K, NEW X, NEW g \in [X -> TrackItems(S, K)], NEW e \in X
  PROVE  Log(<< e >>, g) = g[e].segments
<1> DEFINE h == [x \in DOMAIN g |-> g[x].segments]
           Y == Seq(S)
           s == << e >>
           a == Image(s, h)
           y == h[e]
<1>1. h \in [X -> Y] /\ y = g[e].segments
  BY DEF TrackItems
<1>2. s \in Seq(X) /\ Len(s) = 1 /\ s[1] = e
  OBVIOUS
<1> HIDE DEF h, Y, s
<1>3. IsImage(a, s, h, Y) /\ y \in Y
  BY <1>1, <1>2, ImageProperties
<1> HIDE DEF a
<1>4. a \in Seq(Y) /\ Len(a) = 1 /\ a[1] = y
  BY <1>2, <1>3 DEF IsImage
<1> HIDE DEF y
<1>5. << y >> \in Seq(Y) /\ Len(<< y >>) = 1 /\ << y >>[1] = y
  BY <1>3
<1>6. a = << y >>
  <2> DEFINE z == << y >>
  <2>1. z \in Seq(Y) /\ Len(z) = 1 /\ z[1] = y
    BY <1>5
  <2> HIDE DEF z
  <2>2. a = z
    BY <1>4, <2>1, SeqEqual
  <2> QED BY <2>2 DEF z
<1>7. << y >> = Append(<< >>, y) /\ << >> \in Seq(Y)
  BY <1>3
<1>8. Joined(Append(<< >>, y)) = Joined(<< >>) \o y
  BY <1>3, <1>7, JoinedAppend DEF Y
<1>9. << >> \o y = y
  BY <1>3, ConcatEmptySeq DEF Y
<1>10. Joined(a) = y
  BY <1>6, <1>7, <1>8, <1>9, JoinedEmpty
<1> QED BY <1>1, <1>10 DEF Log, a, h, s

LEMMA LogEmpty ==
  ASSUME NEW g
  PROVE  Log(<< >>, g) = << >>
<1>1. Image(<< >>, [x \in DOMAIN g |-> g[x].segments]) = << >>
  BY DEF Image
<1> QED BY <1>1, JoinedEmpty DEF Log

(* Every track has its segments assembled as if it were alone.              *)
EachApart(asms, s, g, t) ==
  LET fed == FeedTracks(asms, Image(s, g))
      one == AsmFeed(asms[t], Log(Only(s, OfItem(g, t)), g))
  IN  fed.asms[t] = one.asm /\ SetsOfTrack(fed.sets, t) = one.sets

LEMMA FeedsApart ==
  ASSUME NEW S, NEW T, NEW U, IsFed(S, T, U), NEW K,
         NEW asms \in [K -> Assemblers(S, T, U)],
         NEW X, NEW g \in [X -> TrackItems(S, K)], NEW s \in Seq(X), NEW t \in K
  PROVE  EachApart(asms, s, g, t)
<1> DEFINE A == Assemblers(S, T, U)
           V == AssembledSets(S, T, U)
           I == TrackItems(S, K)
           O == OfItem(g, t)
           own(u) == Only(u, O)
           fed(u) == FeedTracks(asms, Image(u, g))
           one(u) == AsmFeed(asms[t], Log(own(u), g))
           W == {u \in Seq(X) : EachApart(asms, u, g, t)}
<1>0. asms[t] \in A
  OBVIOUS
<1>1. << >> \in W
  <2> DEFINE n == << >>
  <2>1. Image(n, g) = n
    BY DEF Image
  <2>2. FeedTracks(asms, n) = [asms |-> asms, sets |-> n]
    BY FeedTracksEmpty
  <2>3. own(n) = n /\ Log(n, g) = n /\ n \in Seq(X)
    BY OnlyEmpty, LogEmpty
  <2>4. AsmFeed(asms[t], n) = [asm |-> asms[t], sets |-> n]
    BY <1>0, FeedEmpty
  <2>5. SetsOfTrack(n, t) = n
    <3>1. \A R : Only(n, R) = n
      BY OnlyEmpty
    <3>2. DOMAIN n = {}
      OBVIOUS
    <3> DEFINE M == {y \in Members(n) : y.trk = t}
    <3> HIDE DEF n, M
    <3>3. Only(n, M) = n
      BY <3>1
    <3>4. SetsOfTrack(n, t) = [k \in DOMAIN n |-> n[k].set]
      BY <3>3 DEF SetsOfTrack, M
    <3>5. [k \in DOMAIN n |-> n[k].set] = << >>
      BY <3>2
    <3> QED BY <3>4, <3>5 DEF n
  <2> HIDE DEF n
  <2>6. EachApart(asms, n, g, t)
    BY <2>1, <2>2, <2>3, <2>4, <2>5 DEF EachApart
  <2> QED BY <2>3, <2>6 DEF n
<1>2. ASSUME NEW u \in Seq(X), NEW e \in X, u \in W PROVE Append(u, e) \in W
  <2> DEFINE v == Append(u, e)
             i == g[e]
             x == Image(u, g)
             f == FeedTracks(asms, x)
             h == FeedTracks(asms, Append(x, i))
             l == Log(own(u), g)
  <2>0. v \in Seq(X) /\ i \in I
    BY AppendProperties
  <2>1. Image(v, g) = Append(x, i)
    BY ImageAppend
  <2>2. x \in Seq(I)
    BY ImageProperties DEF IsImage
  <2> HIDE DEF x, I
  <2>3. h = FeedTrack(f, i) /\ f \in Feedings(S, T, U, K)
    BY <2>0, <2>2, FeedTracksAppend, FeedTracksTyped DEF I
  <2> HIDE DEF h, f
  <2>4. Goes(f, h, i, t)
    BY <2>0, <2>3, FeedTrackGoes DEF I
  <2>5. f.asms[t] = AsmFeed(asms[t], l).asm /\ SetsOfTrack(f.sets, t) = AsmFeed(asms[t], l).sets
    BY <1>2 DEF EachApart, f, x
  <2>6. own(u) \in Seq(X) /\ own(v) = IF e \in O THEN Append(own(u), e) ELSE own(u)
    BY OnlyTyped, OnlyAppend
  <2>7. e \in O <=> i.trk = t
    BY DEF OfItem
  <2>8. CASE i.trk = t
    <3> DEFINE o == own(u)
    <3>1. own(v) = o \o << e >> /\ << e >> \in Seq(X)
      <4>1. Append(o, e) = o \o << e >>
        <5> HIDE DEF own
        <5> QED BY <2>6, AppendIsConcat
      <4> QED BY <2>6, <2>7, <2>8, <4>1
    <3>2. l \in Seq(S) /\ Log(o \o << e >>, g) = l \o Log(<< e >>, g)
      <4> DEFINE p == << e >>
      <4>1. o \in Seq(X) /\ p \in Seq(X)
        BY <2>6, <3>1
      <4> HIDE DEF o, p
      <4>0. Itemizes(g, X, S, K)
        BY DEF Itemizes
      <4>2. Log(o, g) \in Seq(S)
        BY <4>0, <4>1, LogTyped
      <4>3. Log(o \o p, g) = Log(o, g) \o Log(p, g)
        BY <4>0, <4>1, LogConcat
      <4> QED BY <4>2, <4>3 DEF o, p
    <3>3. Log(<< e >>, g) = i.segments /\ i.segments \in Seq(S)
      <4>1. Log(<< e >>, g) = g[e].segments
        BY LogOne
      <4>2. i.segments \in Seq(S)
        BY <2>0 DEF I, TrackItems
      <4> QED BY <4>1, <4>2
    <3> DEFINE y == i.segments
               a == asms[t]
               b == AsmFeed(a, l).asm
    <3> HIDE DEF l, o, a, y
    <3>4. FeedsOn(a, l, y)
      BY <1>0, <3>2, <3>3, FeedConcat DEF a, y
    <3>5. Log(own(v), g) = l \o y
      BY <3>1, <3>2, <3>3 DEF y
    <3>6. h.asms[t] = AsmFeed(b, y).asm
          /\ SetsOfTrack(h.sets, t) = AsmFeed(a, l).sets \o AsmFeed(b, y).sets
      BY <2>4, <2>5, <2>8 DEF Goes, a, y
    <3>7. h.asms[t] = AsmFeed(a, l \o y).asm /\ SetsOfTrack(h.sets, t) = AsmFeed(a, l \o y).sets
      BY <3>4, <3>6 DEF FeedsOn
    <3> QED BY <2>0, <2>1, <3>5, <3>7 DEF EachApart, h, a
  <2>9. CASE i.trk # t
    <3>1. Log(own(v), g) = l
      BY <2>6, <2>7, <2>9
    <3>2. h.asms[t] = f.asms[t] /\ SetsOfTrack(h.sets, t) = SetsOfTrack(f.sets, t)
      BY <2>4, <2>9 DEF Goes
    <3> QED BY <2>0, <2>1, <2>5, <3>1, <3>2 DEF EachApart, h
  <2> QED BY <2>8, <2>9
<1> HIDE DEF W
<1>3. Seq(X) \subseteq W
  BY <1>1, <1>2, SeqInduction
<1> QED BY <1>3 DEF W

(* A stretch of a list.                                                     *)
LEMMA StretchWithin ==
  ASSUME NEW X, NEW x \in Seq(X), NEW s \in Seq(X), NEW y \in Seq(X)
  PROVE  IsStretch(s, (x \o s) \o y, Len(x))
<1> DEFINE p == x \o s
           c == p \o y
           n == Len(x)
           m == Len(s)
           b == SubSeq(c, n + 1, n + m)
<1>1. /\ p \in Seq(X) /\ Len(p) = n + m /\ n \in Nat /\ m \in Nat
      /\ \A k \in n + 1 .. n + m : p[k] = s[k - n]
  BY ConcatProperties
<1> HIDE DEF p
<1>2. /\ c \in Seq(X) /\ Len(c) = Len(p) + Len(y) /\ Len(y) \in Nat
      /\ \A k \in 1 .. Len(p) : c[k] = p[k]
  <2>1. p \in Seq(X)
    BY <1>1
  <2> QED BY <2>1, ConcatProperties
<1> HIDE DEF c, n, m
<1>3. \A k \in 1 .. m : n + k \in n + 1 .. n + m /\ (n + k) - n = k /\ n + k \in 1 .. n + m
  BY <1>1
<1>4. \A k \in 1 .. m : c[n + k] = s[k]
  <2> TAKE k \in 1 .. m
  <2>1. p[n + k] = s[(n + k) - n] /\ c[n + k] = p[n + k]
    BY <1>1, <1>2, <1>3
  <2> QED BY <1>3, <2>1
<1>5. n + m <= Len(c)
  BY <1>1, <1>2
<1>6. /\ b \in Seq(X) /\ Len(b) = (n + m) - (n + 1) + 1
      /\ \A k \in 1 .. (n + m) - (n + 1) + 1 : b[k] = c[(n + 1) + k - 1]
  <2>1. n + 1 \in Int /\ n + m \in Int /\ n + 1 <= (n + m) + 1
    BY <1>1
  <2>2. \A k \in n + 1 .. n + m : c[k] \in X
    BY <1>1, <1>2, <1>5
  <2> QED BY <2>1, <2>2, SubSeqProperties
<1>7. (n + m) - (n + 1) + 1 = m /\ \A k \in 1 .. m : (n + 1) + k - 1 = n + k
  BY <1>1
<1> HIDE DEF b
<1>8. Len(b) = m /\ \A k \in 1 .. m : b[k] = s[k]
  BY <1>4, <1>6, <1>7
<1>9. s = b
  BY <1>6, <1>8, SeqEqual DEF m
<1> QED BY <1>1, <1>5, <1>9 DEF IsStretch, b, c, n, m, p

(* A stretch of values yields a stretch of the display sets that all of     *)
(* them hold, and their first ones when it is their beginning.              *)
Yields(s, a, g, first) ==
  \E from : /\ IsStretch(AsmFeed(AsmNew, Log(s, g)).sets, SetsIn(Log(a, g)), from)
            /\ first => from = 0

LEMMA StretchYields ==
  ASSUME NEW S, NEW T, NEW U, IsLog(S, T, U), NEW K, NEW X, NEW g, Itemizes(g, X, S, K),
         NEW a \in Seq(X), NEW s \in Seq(X), NEW i, IsStretch(s, a, i)
  PROVE  Yields(s, a, g, i = 0)
<1> DEFINE E == AssembledSets(S, T, U)
           n == AsmNew
           j == i + Len(s)
           x == SubSeq(a, 1, i)
           y == SubSeq(a, j + 1, Len(a))
           p == Log(x, g)
           q == Log(s, g)
           r == Log(y, g)
<1>22. Itemizes(g, X, S, K)
  OBVIOUS
<1>0. n \in Assemblers(S, T, U) /\ IsFed(S, T, U) /\ 0 \in T
  BY DEF AsmNew, Assemblers, IsFed, IsLog
<1>1. /\ i \in 0 .. Len(a) /\ j \in i .. Len(a) /\ s = SubSeq(a, i + 1, j)
  BY DEF IsStretch
<1> HIDE DEF j, n
<1>2. /\ x \in Seq(X) /\ y \in Seq(X) /\ x \o s = SubSeq(a, 1, j)
      /\ SubSeq(a, 1, j) \o y = a /\ Len(x) = i
  <2> HIDE DEF x, y
  <2>2. i \in 0 .. Len(a) /\ j \in i .. Len(a)
    BY <1>1
  <2>1. SubSeq(a, 1, i) \in Seq(X) /\ Len(SubSeq(a, 1, i)) = i
    BY <2>2, Slices
  <2>3. SubSeq(a, j + 1, Len(a)) \in Seq(X)
    BY <2>2, Slices
  <2>4. SubSeq(a, 1, i) \o SubSeq(a, i + 1, j) = SubSeq(a, 1, j)
    BY <2>2, Slices
  <2>5. SubSeq(a, 1, j) \o SubSeq(a, j + 1, Len(a)) = a
    BY <2>2, Slices
  <2> QED BY <1>1, <2>1, <2>3, <2>4, <2>5 DEF x, y
<1> HIDE DEF x, y
<1>3. a = (x \o s) \o y
  BY <1>2
<1>4. p \in Seq(S) /\ q \in Seq(S) /\ r \in Seq(S) /\ Log(a, g) = (p \o q) \o r
  <2>1. x \o s \in Seq(X)
    BY <1>2, ConcatProperties
  <2> DEFINE z == x \o s
  <2> HIDE DEF z
  <2>2. z \in Seq(X) /\ y \in Seq(X)
    BY <1>2, <2>1 DEF z
  <2>3. Log(z \o y, g) = Log(z, g) \o r
    BY <1>22, <2>2, LogConcat
  <2>4. Log(x \o s, g) = p \o q
    <3>1. x \in Seq(X) /\ s \in Seq(X)
      BY <1>2
    <3> QED BY <1>22, <3>1, LogConcat
  <2>5. p \in Seq(S) /\ q \in Seq(S) /\ r \in Seq(S)
    BY <1>2, <1>22, LogTyped
  <2> QED BY <1>3, <2>3, <2>4, <2>5 DEF z
<1>5. i = 0 => p = << >>
  <2>1. i = 0 => x = << >>
    BY <1>2
  <2> QED BY <2>1, LogEmpty
<1> HIDE DEF p, q, r
<1> DEFINE A == AsmFeed(n, p)
           B == AsmFeed(A.asm, q)
           C == AsmFeed(B.asm, r)
           out == AsmFeed(n, q).sets
<1>6. A.asm \in Assemblers(S, T, U) /\ A.sets \in Seq(E)
  BY <1>0, <1>4, FeedTyped
<1>7. i = 0 => A = [asm |-> n, sets |-> << >>]
  BY <1>0, <1>5, FeedEmpty
<1> HIDE DEF A
<1>8. B.asm \in Assemblers(S, T, U) /\ B.sets \in Seq(E)
  BY <1>0, <1>4, <1>6, FeedTyped
<1>9. EndsWith(E, B, AsmFeed(n, q))
  BY <1>0, <1>4, <1>6, FeedSuffix DEF n
<1> HIDE DEF B
<1>10. C.sets \in Seq(E) /\ out \in Seq(E)
  BY <1>0, <1>4, <1>8, FeedTyped
<1>11. FeedsOn(n, p, q) /\ p \o q \in Seq(S)
  BY <1>0, <1>4, FeedConcat, ConcatProperties
<1>12. FeedsOn(n, p \o q, r)
  BY <1>0, <1>4, <1>11, FeedConcat
<1>13. AsmFeed(n, p \o q).asm = B.asm /\ AsmFeed(n, p \o q).sets = A.sets \o B.sets
  BY <1>11 DEF FeedsOn, A, B
<1>14. AsmFeed(n, (p \o q) \o r).sets = (A.sets \o B.sets) \o C.sets
  BY <1>12, <1>13 DEF FeedsOn
<1>15. SetsIn(Log(a, g)) = (A.sets \o B.sets) \o C.sets
  <2>1. (p \o q) \o r \in Seq(S)
    BY <1>4, <1>11, ConcatProperties
  <2> DEFINE z == (p \o q) \o r
  <2>2. z \in Seq(S)
    BY <2>1
  <2> HIDE DEF z
  <2>3. AsmFeed(n, z).sets = SetsIn(z)
    BY <2>2, FeedIsSetsIn DEF n
  <2> QED BY <1>4, <1>14, <2>3 DEF z
<1>16. PICK w \in Seq(E) : B.sets = w \o out
  BY <1>9 DEF EndsWith
<1>17. i = 0 => w = << >>
  <2> SUFFICES ASSUME i = 0 PROVE w = << >>
    OBVIOUS
  <2>1. B.sets = out
    BY <1>7 DEF B
  <2>2. Len(w) + Len(out) = Len(out) /\ Len(w) \in Nat /\ Len(out) \in Nat
    <3> HIDE DEF out, E
    <3>1. Len(w \o out) = Len(w) + Len(out) /\ Len(w) \in Nat /\ Len(out) \in Nat
      BY <1>10, ConcatProperties, LenProperties
    <3> QED BY <1>16, <2>1, <3>1
  <2>3. Len(w) = 0
    BY <2>2
  <2> HIDE DEF E
  <2> QED BY <2>3, EmptySeq
<1> DEFINE u == A.sets
           v == C.sets
<1>18. u \in Seq(E) /\ v \in Seq(E) /\ w \in Seq(E) /\ out \in Seq(E)
  BY <1>6, <1>10
<1> HIDE DEF u, v, out, E
<1>19. u \o (w \o out) = (u \o w) \o out /\ u \o w \in Seq(E)
  <2>1. u \o w \in Seq(E)
    BY <1>18, ConcatProperties
  <2>3. u \in Seq(E) /\ w \in Seq(E) /\ out \in Seq(E)
    BY <1>18
  <2>2. (u \o w) \o out = u \o (w \o out)
    BY <2>3, ConcatAssociative
  <2> QED BY <2>1, <2>2
<1>20. SetsIn(Log(a, g)) = ((u \o w) \o out) \o v
  BY <1>15, <1>16, <1>19 DEF u, v
<1>21. IsStretch(out, ((u \o w) \o out) \o v, Len(u \o w))
  BY <1>18, <1>19, StretchWithin
<1>23. i = 0 => Len(u \o w) = 0
  <2> SUFFICES ASSUME i = 0 PROVE Len(u \o w) = 0
    OBVIOUS
  <2>1. u = << >> /\ w = << >>
    BY <1>7, <1>17 DEF u
  <2> QED BY <2>1
<1> QED BY <1>20, <1>21, <1>23 DEF Yields, out, q, n
-----------------------------------------------------------------------------
(* The assemblers are what feeding the values of s that are in D, each in   *)
(* the assembler of its track, has made of them, and out is what it has     *)
(* returned.                                                                *)
FedWith(g, D, asms, out, s) ==
  \A t \in DOMAIN asms :
    AsmFeed(AsmNew, Log(Only(s, OfItem(g, t) \cap D), g))
      = [asm |-> asms[t], sets |-> SetsOfTrack(out, t)]

IsFeedState(S, T, U, K, asms, out) ==
  /\ asms \in [K -> Assemblers(S, T, U)]
  /\ out \in Seq(TrackedSets(K, AssembledSets(S, T, U)))

LEMMA FedFirst ==
  ASSUME NEW S, NEW T, NEW U, IsFed(S, T, U), 0 \in T, NEW K, NEW g, NEW D
  PROVE  /\ IsFeedState(S, T, U, K, [t \in K |-> AsmNew], << >>)
         /\ FedWith(g, D, [t \in K |-> AsmNew], << >>, << >>)
<1>1. AsmNew \in Assemblers(S, T, U)
  BY DEF AsmNew, Assemblers, IsFed
<1>2. AsmFeed(AsmNew, << >>) = [asm |-> AsmNew, sets |-> << >>]
  BY <1>1, FeedEmpty
<1>3. ASSUME NEW t PROVE Log(Only(<< >>, OfItem(g, t) \cap D), g) = << >>
  BY OnlyEmpty, LogEmpty
<1>4. ASSUME NEW t PROVE SetsOfTrack(<< >>, t) = << >>
  <2>1. Only(<< >>, {y \in Members(<< >>) : y.trk = t}) = << >>
    BY OnlyEmpty
  <2>2. [k \in DOMAIN << >> |-> << >>[k].set] = << >>
    OBVIOUS
  <2> QED BY <2>1, <2>2 DEF SetsOfTrack
<1>5. FedWith(g, D, [t \in K |-> AsmNew], << >>, << >>)
  <2> SUFFICES ASSUME NEW t \in K
               PROVE  AsmFeed(AsmNew, Log(Only(<< >>, OfItem(g, t) \cap D), g))
                        = [asm |-> AsmNew, sets |-> SetsOfTrack(<< >>, t)]
    BY DEF FedWith
  <2> QED BY <1>2, <1>3, <1>4
<1> HIDE DEF AsmNew
<1>6. [t \in K |-> AsmNew] \in [K -> Assemblers(S, T, U)]
  BY <1>1
<1>7. << >> \in Seq(TrackedSets(K, AssembledSets(S, T, U)))
  OBVIOUS
<1> QED BY <1>5, <1>6, <1>7 DEF IsFeedState

(* Feeding more.                                                            *)
FedMore(S, T, U, K, g, D, asms, out, s, b) ==
  LET fed == FeedTracks(asms, Image(Only(b, D), g))
  IN  /\ IsFeedState(S, T, U, K, fed.asms, out \o fed.sets)
      /\ FedWith(g, D, fed.asms, out \o fed.sets, s \o b)

LEMMA FeedsMore ==
  ASSUME NEW S, NEW T, NEW U, IsFed(S, T, U), 0 \in T, NEW K, NEW X, NEW g,
         Itemizes(g, X, S, K), NEW D, NEW s \in Seq(X), NEW b \in Seq(X),
         NEW asms, NEW out, IsFeedState(S, T, U, K, asms, out), FedWith(g, D, asms, out, s)
  PROVE  FedMore(S, T, U, K, g, D, asms, out, s, b)
<1> DEFINE V == AssembledSets(S, T, U)
           A == Assemblers(S, T, U)
           d == Only(b, D)
           fed == FeedTracks(asms, Image(d, g))
<1>0. /\ asms \in [K -> A] /\ out \in Seq(TrackedSets(K, V)) /\ g \in [X -> TrackItems(S, K)]
  BY DEF IsFeedState, Itemizes
<1>1. d \in Seq(X) /\ Image(d, g) \in Seq(TrackItems(S, K))
  <2>1. d \in Seq(X)
    BY OnlyTyped
  <2> HIDE DEF d
  <2>2. IsImage(Image(d, g), d, g, TrackItems(S, K))
    BY <1>0, <2>1, ImageProperties
  <2> QED BY <2>1, <2>2 DEF IsImage
<1>2. fed \in Feedings(S, T, U, K)
  <2> DEFINE i == Image(d, g)
  <2> HIDE DEF i
  <2>1. FeedTracks(asms, i) \in Feedings(S, T, U, K)
    BY <1>0, <1>1, FeedTracksTyped DEF i
  <2> QED BY <2>1 DEF i
<1> HIDE DEF fed, d
<1>3. fed.asms \in [K -> A] /\ fed.sets \in Seq(TrackedSets(K, V))
  BY <1>2 DEF Feedings
<1> HIDE DEF V, A
<1>4. out \o fed.sets \in Seq(TrackedSets(K, V))
  BY <1>0, <1>3, ConcatProperties
<1>5. ASSUME NEW t \in K
      PROVE  AsmFeed(AsmNew, Log(Only(s \o b, OfItem(g, t) \cap D), g))
               = [asm |-> fed.asms[t], sets |-> SetsOfTrack(out \o fed.sets, t)]
  <2> DEFINE O == OfItem(g, t) \cap D
             s1 == Only(s, O)
             b1 == Only(b, O)
             l == Log(s1, g)
             m == Log(b1, g)
             one == AsmFeed(AsmNew, l)
             two == AsmFeed(asms[t], m)
  <2>1. s1 \in Seq(X) /\ b1 \in Seq(X) /\ Only(s \o b, O) = s1 \o b1
    <3> HIDE DEF O
    <3>1. s1 \in Seq(X) /\ b1 \in Seq(X)
      BY OnlyTyped
    <3>2. Splits(s, b, O)
      BY OnlyConcat
    <3> QED BY <3>1, <3>2 DEF Splits
  <2>2. Only(d, OfItem(g, t)) = b1
    <3>1. Only(d, OfItem(g, t)) = Only(b, D \cap OfItem(g, t))
      BY OnlyOnly DEF d
    <3>2. D \cap OfItem(g, t) = O
      OBVIOUS
    <3> QED BY <3>1, <3>2
  <2>3. fed.asms[t] = two.asm /\ SetsOfTrack(fed.sets, t) = two.sets
    <3>1. EachApart(asms, d, g, t)
      BY <1>0, <1>1, FeedsApart DEF A
    <3> QED BY <2>2, <3>1 DEF EachApart, fed
  <2>4. one = [asm |-> asms[t], sets |-> SetsOfTrack(out, t)]
    <3>1. DOMAIN asms = K
      BY <1>0
    <3> QED BY <3>1 DEF FedWith
  <2> HIDE DEF O, s1, b1
  <2>5. l \in Seq(S) /\ m \in Seq(S) /\ Log(s1 \o b1, g) = l \o m
    <3>1. l \in Seq(S) /\ m \in Seq(S)
      BY <2>1, LogTyped
    <3>2. \A x, y \in Seq(X) : Log(x \o y, g) = Log(x, g) \o Log(y, g)
      BY LogConcat
    <3>3. Log(s1 \o b1, g) = l \o m
      BY <2>1, <3>2, Zenon
    <3> QED BY <3>1, <3>3
  <2> HIDE DEF l, m
  <2>6. AsmNew \in Assemblers(S, T, U)
    BY DEF AsmNew, Assemblers, IsFed
  <2>7. FeedsOn(AsmNew, l, m)
    BY <2>5, <2>6, FeedConcat
  <2>8. AsmFeed(AsmNew, l \o m) = [asm |-> two.asm, sets |-> SetsOfTrack(out, t) \o two.sets]
    <3>1. /\ AsmFeed(AsmNew, l \o m).asm = AsmFeed(one.asm, m).asm
          /\ AsmFeed(AsmNew, l \o m).sets = one.sets \o AsmFeed(one.asm, m).sets
      BY <2>7 DEF FeedsOn
    <3>2. AsmFeed(AsmNew, l \o m) = [asm  |-> AsmFeed(AsmNew, l \o m).asm,
                                     sets |-> AsmFeed(AsmNew, l \o m).sets]
      <4> DEFINE x == l \o m
      <4>1. x \in Seq(S)
        BY <2>5, ConcatProperties
      <4> HIDE DEF x
      <4>2. \E f, r : AsmFeed(AsmNew, x) = [asm |-> f[Len(x)], sets |-> r[Len(x)]]
        BY <2>6, <4>1, FeedingExists
      <4> QED BY <4>2 DEF x
    <3>3. one.asm = asms[t] /\ one.sets = SetsOfTrack(out, t)
      BY <2>4
    <3> QED BY <3>1, <3>2, <3>3
  <2>9. SetsOfTrack(out \o fed.sets, t) = SetsOfTrack(out, t) \o SetsOfTrack(fed.sets, t)
    <3> DEFINE more == fed.sets
    <3>1. more \in Seq(TrackedSets(K, V))
      BY <1>3
    <3> HIDE DEF more
    <3>2. SetsOfTrack(out \o more, t) = SetsOfTrack(out, t) \o SetsOfTrack(more, t)
      BY <1>0, <3>1, SetsOfTrackConcat
    <3> QED BY <3>2 DEF more
  <2> HIDE DEF two, one
  <2>10. AsmFeed(AsmNew, l \o m) = [asm |-> fed.asms[t], sets |-> SetsOfTrack(out \o fed.sets, t)]
    BY <2>3, <2>8, <2>9
  <2>11. Log(Only(s \o b, OfItem(g, t) \cap D), g) = l \o m
    BY <2>1, <2>5 DEF O
  <2> QED BY <2>10, <2>11
<1>6. DOMAIN fed.asms = K
  BY <1>3
<1>7. FedWith(g, D, fed.asms, out \o fed.sets, s \o b)
  BY <1>5, <1>6 DEF FedWith
<1>8. IsFeedState(S, T, U, K, fed.asms, out \o fed.sets)
  BY <1>3, <1>4 DEF IsFeedState, A, V
<1> QED BY <1>7, <1>8 DEF FedMore, fed, d
-----------------------------------------------------------------------------
(* A function that takes its value from further up, by jumps.               *)

(* Downward induction from N.                                               *)
LEMMA Downto ==
  ASSUME NEW N \in Nat, NEW S,
         \A n \in 0 .. N : (\A m \in n + 1 .. N : m \in S) => n \in S
  PROVE  0 .. N \subseteq S
<1> DEFINE T == {k \in 0 .. N : \A m \in N - k .. N : m \in S}
<1>1. 0 \in T
  <2>1. N \in S
    <3>1. N \in 0 .. N /\ N + 1 .. N = {}
      OBVIOUS
    <3> QED BY <3>1
  <2>2. N - 0 .. N = {N}
    OBVIOUS
  <2> QED BY <2>1, <2>2
<1>2. ASSUME NEW k \in 0 .. N - 1, k \in T PROVE k + 1 \in T
  <2> DEFINE n == N - (k + 1)
  <2>1. n \in 0 .. N /\ n + 1 = N - k /\ k + 1 \in 0 .. N
    OBVIOUS
  <2>2. n \in S
    BY <1>2, <2>1
  <2>3. \A m \in n .. N : m = n \/ m \in N - k .. N
    BY <2>1
  <2> QED BY <1>2, <2>1, <2>2, <2>3
<1>3. 0 .. N \subseteq T
  <2> HIDE DEF T
  <2> QED BY <1>1, <1>2, Upto
<1>4. N \in T /\ N - N = 0
  BY <1>3
<1> QED BY <1>4

(* f is a off S; on S it is what g makes of its value further up.           *)
IsJumping(f, N, S, to, a, g) ==
  \A n \in 0 .. N : f[n] = IF n \in S THEN g[<< f[to[n]], n >>] ELSE a[n]
Jumps(N, D, S, to, a, g) ==
  /\ S \subseteq 0 .. N
  /\ \A n \in S : to[n] \in n + 1 .. N
  /\ \A n \in 0 .. N : n \notin S => a[n] \in D
  /\ g \in [D \X S -> D]

(* Such an f exists.                                                        *)
LEMMA Jumping ==
  ASSUME NEW N \in Nat, NEW D, NEW S, NEW to, NEW a, NEW g, Jumps(N, D, S, to, a, g)
  PROVE  \E f \in [0 .. N -> D] : IsJumping(f, N, S, to, a, g)
<1> DEFINE Val(f, n) == IF n \in S THEN g[<< f[to[n]], n >>] ELSE a[n]
           Ok(f, k) == \A n \in N - k .. N : f[n] = Val(f, n)
           T == {k \in 0 .. N : \E f \in [N - k .. N -> D] : Ok(f, k)}
<1>0. ASSUME NEW k \in 0 .. N, NEW f \in [N - k + 1 .. N -> D]
      PROVE  Val(f, N - k) \in D
  <2> DEFINE n == N - k
  <2>1. n \in 0 .. N /\ n + 1 = N - k + 1
    OBVIOUS
  <2>2. CASE n \in S
    <3>1. to[n] \in n + 1 .. N
      BY <2>2 DEF Jumps
    <3>2. f[to[n]] \in D
      BY <2>1, <3>1
    <3>3. << f[to[n]], n >> \in D \X S
      BY <2>2, <3>2
    <3> QED BY <2>2, <3>3 DEF Jumps
  <2>3. CASE n \notin S
    BY <2>1, <2>3 DEF Jumps
  <2> QED BY <2>2, <2>3
<1>1. ASSUME NEW k \in 0 .. N, NEW f \in [N - k + 1 .. N -> D],
             \A n \in N - k + 1 .. N : f[n] = Val(f, n)
      PROVE  k \in T
  <2> DEFINE n == N - k
             e == Val(f, n)
             h == [m \in n .. N |-> IF m = n THEN e ELSE f[m]]
  <2>1. n \in 0 .. N /\ n + 1 = N - k + 1 /\ n \in n .. N
    OBVIOUS
  <2>2. e \in D
    BY <1>0
  <2>3. h \in [n .. N -> D]
    <3> HIDE DEF e
    <3>1. \A m \in n .. N : m # n => m \in n + 1 .. N
      BY <2>1
    <3> QED BY <2>1, <2>2, <3>1
  <2>4. \A m \in n .. N : h[m] = Val(h, m)
    <3> SUFFICES ASSUME NEW m \in n .. N PROVE h[m] = Val(h, m)
      OBVIOUS
    <3>1. m \in S => to[m] \in n + 1 .. N /\ to[m] # n /\ to[m] \in n .. N
      <4>1. m \in S => to[m] \in m + 1 .. N
        BY DEF Jumps
      <4> QED BY <2>1, <4>1
    <3>2. m \in S => h[to[m]] = f[to[m]]
      <4> HIDE DEF e, n
      <4> QED BY <3>1
    <3>3. Val(h, m) = Val(f, m)
      BY <3>2
    <3>4. h[m] = Val(f, m)
      <4>1. CASE m = n
        BY <4>1, <2>1
      <4>2. CASE m # n
        <5>1. m \in n + 1 .. N
          BY <4>2, <2>1
        <5>2. h[m] = f[m]
          BY <4>2
        <5> QED BY <1>1, <2>1, <5>1, <5>2
      <4> QED BY <4>1, <4>2
    <3> QED BY <3>3, <3>4
  <2> HIDE DEF h
  <2> QED BY <2>3, <2>4
<1>2. 0 \in T
  <2> DEFINE f == [m \in N + 1 .. N |-> a[m]]
  <2>1. N + 1 .. N = {} /\ N - 0 + 1 = N + 1 /\ 0 \in 0 .. N
    OBVIOUS
  <2>2. f \in [N - 0 + 1 .. N -> D]
    BY <2>1
  <2>3. \A n \in N - 0 + 1 .. N : f[n] = Val(f, n)
    BY <2>1
  <2> HIDE DEF f, T, Val
  <2> QED BY <1>1, <2>1, <2>2, <2>3
<1>3. ASSUME NEW k \in 0 .. N - 1, k \in T PROVE k + 1 \in T
  <2>1. PICK f \in [N - k .. N -> D] : Ok(f, k)
    BY <1>3
  <2>2. k + 1 \in 0 .. N /\ N - (k + 1) + 1 = N - k
    OBVIOUS
  <2> HIDE DEF T, Val
  <2> QED BY <1>1, <2>1, <2>2
<1>4. 0 .. N \subseteq T
  <2> HIDE DEF T
  <2> QED BY <1>2, <1>3, Upto
<1>5. N \in T /\ N - N = 0
  BY <1>4
<1>6. PICK f \in [0 .. N -> D] : \A n \in 0 .. N : f[n] = Val(f, n)
  BY <1>5
<1> QED BY <1>6 DEF IsJumping

(* What satisfies the equation where it can has its values in D.            *)
LEMMA JumpingTyped ==
  ASSUME NEW N \in Nat, NEW D, NEW S, NEW to, NEW a, NEW g, Jumps(N, D, S, to, a, g),
         NEW u, u = [n \in 0 .. N |-> u[n]],
         \A n \in 0 .. N : n \notin S => u[n] = a[n],
         \A n \in S : u[to[n]] \in D => u[n] = g[<< u[to[n]], n >>]
  PROVE  u \in [0 .. N -> D] /\ IsJumping(u, N, S, to, a, g)
<1> DEFINE T == {n \in 0 .. N : u[n] \in D}
<1>1. ASSUME NEW n \in 0 .. N, \A m \in n + 1 .. N : m \in T PROVE n \in T
  <2>1. CASE n \in S
    <3>1. to[n] \in n + 1 .. N
      BY <2>1 DEF Jumps
    <3>2. u[to[n]] \in D
      BY <1>1, <3>1
    <3>3. << u[to[n]], n >> \in D \X S
      BY <2>1, <3>2
    <3>4. u[n] = g[<< u[to[n]], n >>]
      BY <2>1, <3>2
    <3> QED BY <3>3, <3>4 DEF Jumps
  <2>2. CASE n \notin S
    BY <2>2 DEF Jumps
  <2> QED BY <2>1, <2>2
<1>2. 0 .. N \subseteq T
  <2> HIDE DEF T
  <2> QED BY <1>1, Downto
<1>3. u \in [0 .. N -> D]
  <2>1. \A n \in 0 .. N : u[n] \in D
    BY <1>2
  <2> QED BY <2>1
<1>4. ASSUME NEW n \in S PROVE u[to[n]] \in D
  <2>1. to[n] \in n + 1 .. N /\ n \in 0 .. N
    BY DEF Jumps
  <2>2. to[n] \in 0 .. N
    BY <2>1
  <2> QED BY <1>3, <2>2
<1> QED BY <1>3, <1>4 DEF IsJumping
=============================================================================
