-------------------------- MODULE AllocatorProofs ---------------------------
(***************************************************************************)
(* Theorems about the simple allocator for address ranges of every length, *)
(* with any number of objects and reserved areas: it implements an address *)
(* space, the asserts about its heap hold, an allocation gets the best     *)
(* place there is, and the statistics account for all of the space.        *)
(***************************************************************************)
EXTENDS SimpleAllocator, SequenceTheorems, FiniteSetTheorems, FunctionTheorems, TLAPS

-----------------------------------------------------------------------------
(* Least and greatest elements                                             *)

\* A set of natural numbers has a least element.
LEMMA Least ==
  ASSUME NEW T, T \subseteq Nat, T # {}
  PROVE  \E x \in T : \A y \in T : x <= y
<1> DEFINE R == {ss \in Nat \X Nat : ss[1] < ss[2]}
<1>1. IsWellFoundedOn(R, Nat)
  BY NatLessThanWellFounded, Zenon DEF OpToRel
<1>2. \A x, y \in Nat : <<y, x>> \in R <=> y < x
  OBVIOUS
<1> HIDE DEF R
<1>3. PICK x \in T : \A y \in T : ~(<<y, x>> \in R)
  BY <1>1, WFMin, Zenon
<1>4. ASSUME NEW y \in T PROVE x <= y
  <2>1. ~(y < x) BY <1>2, <1>3
  <2> QED BY <2>1
<1> QED BY <1>4

\* A bounded set of natural numbers has a greatest element.
LEMMA Greatest ==
  ASSUME NEW n \in Nat, NEW T, T \subseteq 1..n, T # {}
  PROVE  \E x \in T : \A y \in T : x >= y
<1> DEFINE U == {n - x : x \in T}
<1>1. PICK z \in U : \A y \in U : z <= y
  <2>1. \A x \in T : x \in 1..n /\ n - x \in Nat OBVIOUS
  <2>2. U \subseteq Nat BY <2>1
  <2>3. U # {} OBVIOUS
  <2> QED BY <2>2, <2>3, Least
<1>2. PICK x \in T : z = n - x OBVIOUS
<1>3. ASSUME NEW y \in T PROVE x >= y
  <2>1. n - y \in U OBVIOUS
  <2>2. n - x <= n - y BY <2>1, <1>1, <1>2, Zenon
  <2> QED BY <2>2
<1> QED BY <1>3

\* Min() of a set of natural numbers is one of them.
LEMMA MinIn == ASSUME NEW T, T \subseteq Nat, T # {} PROVE Min(T) \in T
BY Least DEF Min

\* Max() of a bounded set of natural numbers is one of them.
LEMMA MaxIn == ASSUME NEW n \in Nat, NEW T, T \subseteq 1..n, T # {} PROVE Max(T) \in T
BY Greatest DEF Max

-----------------------------------------------------------------------------
(* A part of a sequence replaced by another sequence                       *)

Splice(q, a, M, b) == SubSeq(q, 1, a) \o M \o SubSeq(q, b, Len(q))

IsSplice(T, r, q, a, M, b) ==
  /\ r \in Seq(T) /\ Len(r) = a + Len(M) + Len(q) - b + 1
  /\ \A i \in 1..Len(r) :
       r[i] = IF i <= a THEN q[i]
              ELSE IF i <= a + Len(M) THEN M[i - a]
              ELSE q[i - a - Len(M) + b - 1]

\* The elements of a splice are those around the part, and those that replace it.
LEMMA SpliceIs ==
  ASSUME NEW T, NEW q \in Seq(T), NEW M \in Seq(T),
         NEW a \in 0..Len(q), NEW b \in a + 1..Len(q) + 1
  PROVE  IsSplice(T, Splice(q, a, M, b), q, a, M, b)
<1> DEFINE u == SubSeq(q, 1, a)
           v == SubSeq(q, b, Len(q))
           w == u \o M
<1>0. Len(q) \in Nat /\ Len(M) \in Nat /\ a \in Nat /\ b \in Nat /\ a <= Len(q) /\ b <= Len(q) + 1 /\ 1 <= b
  OBVIOUS
<1>1. u \in Seq(T) /\ Len(u) = a /\ \A i \in 1..a : u[i] = q[i]
  <2>1. \A i \in 1..a : q[i] \in T BY <1>0
  <2> QED BY <2>1, <1>0, SubSeqProperties
<1>2. v \in Seq(T) /\ Len(v) = Len(q) - b + 1 /\ \A i \in 1..Len(q) - b + 1 : v[i] = q[b + i - 1]
  <2>1. \A i \in b..Len(q) : q[i] \in T BY <1>0
  <2> QED BY <2>1, <1>0, SubSeqProperties
<1> HIDE DEF u, v
<1>3. /\ w \in Seq(T) /\ Len(w) = a + Len(M)
      /\ \A i \in 1..a + Len(M) : w[i] = IF i <= a THEN u[i] ELSE M[i - a]
  BY <1>1, ConcatProperties
<1> HIDE DEF w
<1>4. /\ w \o v \in Seq(T) /\ Len(w \o v) = Len(w) + Len(v)
      /\ \A i \in 1..Len(w) + Len(v) : (w \o v)[i] = IF i <= Len(w) THEN w[i] ELSE v[i - Len(w)]
  BY <1>2, <1>3, ConcatProperties
<1>5. Splice(q, a, M, b) = w \o v BY DEF Splice, u, v, w
<1>6. Len(w \o v) = a + Len(M) + Len(q) - b + 1 BY <1>0, <1>2, <1>3, <1>4
<1>7. ASSUME NEW i \in 1..Len(w \o v)
      PROVE  (w \o v)[i] = IF i <= a THEN q[i]
                           ELSE IF i <= a + Len(M) THEN M[i - a]
                           ELSE q[i - a - Len(M) + b - 1]
  <2>1. CASE i <= a BY <2>1, <1>0, <1>1, <1>3, <1>4, <1>6
  <2>2. CASE ~(i <= a) /\ i <= a + Len(M) BY <2>2, <1>0, <1>3, <1>4, <1>6
  <2>3. CASE ~(i <= a + Len(M))
    <3>1. i - Len(w) \in 1..Len(q) - b + 1 BY <2>3, <1>0, <1>3, <1>6
    <3>2. (w \o v)[i] = v[i - Len(w)] BY <2>3, <1>0, <1>2, <1>3, <1>4, <1>6
    <3>3. v[i - Len(w)] = q[b + (i - Len(w)) - 1] BY <3>1, <1>2
    <3>4. b + (i - Len(w)) - 1 = i - a - Len(M) + b - 1 BY <1>0, <1>3, <1>6
    <3> QED BY <3>2, <3>3, <3>4, <2>3, <1>0
  <2> QED BY <2>1, <2>2, <2>3
<1>8. IsSplice(T, w \o v, q, a, M, b) BY <1>4, <1>6, <1>7 DEF IsSplice
<1> QED BY <1>5, <1>8
-----------------------------------------------------------------------------
(* Lists of holes                                                          *)

HoleT == [offset : Offsets, size : 1..End - Start]

\* Holes go from high to low, any two of them, with something in between.
Sorted(q) == \A i, j \in 1..Len(q) : i < j => HoleEnd(q[j]) < q[i].offset

Within(q) == \A i \in 1..Len(q) : HoleEnd(q[i]) <= End

WellFormed(q) == q \in Seq(HoleT) /\ Within(q) /\ Sorted(q)

Covers(q) == UNION {HoleArea(q[i]) : i \in DOMAIN q}

\* A hole is an interval of numbers that is not empty.
LEMMA HoleNumbers ==
  ASSUME NEW h \in HoleT
  PROVE  /\ h.offset \in Nat /\ h.size \in Nat /\ h.size > 0 /\ HoleEnd(h) \in Nat
         /\ Start <= h.offset /\ h.offset < HoleEnd(h) /\ HoleEnd(h) = h.offset + h.size
         /\ \A x : x \in HoleArea(h) <=> x \in Int /\ h.offset <= x /\ x < HoleEnd(h)
BY SimpleAllocatorAssumption DEF HoleT, Offsets, HoleEnd, HoleArea, SimpleAllocatorAssumption

\* Addresses in a list are those in one of its holes.
LEMMA CoversIs ==
  ASSUME NEW q \in Seq(HoleT), NEW x
  PROVE  x \in Covers(q) <=> \E i \in 1..Len(q) : x \in HoleArea(q[i])
BY DEF Covers

\* What a splice covers, in terms of what its parts cover.
LEMMA SpliceCovers ==
  ASSUME NEW q \in Seq(HoleT), NEW M \in Seq(HoleT),
         NEW a \in 0..Len(q), NEW b \in a + 1..Len(q) + 1, NEW x
  PROVE  x \in Covers(Splice(q, a, M, b)) <=>
           \/ \E i \in 1..a : x \in HoleArea(q[i])
           \/ \E i \in b..Len(q) : x \in HoleArea(q[i])
           \/ x \in Covers(M)
<1> DEFINE r == Splice(q, a, M, b)
<1>0. Len(q) \in Nat /\ Len(M) \in Nat /\ a \in Nat /\ b \in Nat /\ a <= Len(q) /\ 1 <= b
  OBVIOUS
<1>s. IsSplice(HoleT, r, q, a, M, b) BY SpliceIs, Zenon
<1> HIDE DEF r
<1>1. /\ r \in Seq(HoleT) /\ Len(r) = a + Len(M) + Len(q) - b + 1
      /\ \A i \in 1..Len(r) :
           r[i] = IF i <= a THEN q[i]
                  ELSE IF i <= a + Len(M) THEN M[i - a]
                  ELSE q[i - a - Len(M) + b - 1]
  BY <1>s DEF IsSplice
<1>2. ASSUME NEW i \in 1..a, x \in HoleArea(q[i]) PROVE x \in Covers(r)
  <2>0. i \in 1..Len(r) /\ i <= a BY <1>0, <1>1
  <2>1. i \in 1..Len(r) /\ r[i] = q[i] BY <2>0, <1>1
  <2> QED BY <2>1, <1>1, <1>2, CoversIs
<1>3. ASSUME NEW i \in b..Len(q), x \in HoleArea(q[i]) PROVE x \in Covers(r)
  <2> DEFINE j == i + a + Len(M) - b + 1
  <2>1. j \in 1..Len(r) /\ ~(j <= a) /\ ~(j <= a + Len(M)) /\ j - a - Len(M) + b - 1 = i
    BY <1>0, <1>1
  <2>2. r[j] = q[i] BY <2>1, <1>1
  <2> QED BY <2>1, <2>2, <1>1, <1>3, CoversIs
<1>4. ASSUME x \in Covers(M) PROVE x \in Covers(r)
  <2>1. PICK i \in 1..Len(M) : x \in HoleArea(M[i]) BY <1>4, CoversIs
  <2>2. a + i \in 1..Len(r) /\ ~(a + i <= a) /\ a + i <= a + Len(M) /\ (a + i) - a = i
    BY <1>0, <1>1
  <2>3. r[a + i] = M[i] BY <2>2, <1>1
  <2> QED BY <2>1, <2>2, <2>3, <1>1, CoversIs
<1>5. ASSUME x \in Covers(r)
      PROVE  \/ \E i \in 1..a : x \in HoleArea(q[i])
             \/ \E i \in b..Len(q) : x \in HoleArea(q[i])
             \/ x \in Covers(M)
  <2>1. PICK i \in 1..Len(r) : x \in HoleArea(r[i]) BY <1>5, <1>1, CoversIs
  <2>2. CASE i <= a
    <3>1. i \in 1..a /\ r[i] = q[i] BY <2>2, <1>0, <1>1
    <3> QED BY <3>1, <2>1
  <2>3. CASE ~(i <= a) /\ i <= a + Len(M)
    <3>1. i - a \in 1..Len(M) /\ r[i] = M[i - a] BY <2>3, <1>0, <1>1
    <3> QED BY <3>1, <2>1, CoversIs
  <2>4. CASE ~(i <= a + Len(M))
    <3>1. i - a - Len(M) + b - 1 \in b..Len(q) BY <2>4, <1>0, <1>1
    <3>2. r[i] = q[i - a - Len(M) + b - 1] BY <2>4, <1>0, <1>1
    <3> QED BY <3>1, <3>2, <2>1
  <2> QED BY <2>2, <2>3, <2>4
<1> QED BY <1>2, <1>3, <1>4, <1>5 DEF r

\* A splice is well formed if what is put in keeps its distance to both sides.
LEMMA SpliceWellFormed ==
  ASSUME NEW q, WellFormed(q), NEW M, WellFormed(M),
         NEW a \in 0..Len(q), NEW b \in a + 1..Len(q) + 1,
         \A k \in 1..Len(M) : /\ \A i \in 1..a : HoleEnd(M[k]) < q[i].offset
                              /\ \A i \in b..Len(q) : HoleEnd(q[i]) < M[k].offset
  PROVE  WellFormed(Splice(q, a, M, b))
<1> DEFINE r == Splice(q, a, M, b)
<1>0. /\ q \in Seq(HoleT) /\ M \in Seq(HoleT) /\ Len(q) \in Nat /\ Len(M) \in Nat
      /\ a \in Nat /\ b \in Nat /\ a <= Len(q) /\ 1 <= b /\ a < b
  BY DEF WellFormed
<1>s. IsSplice(HoleT, r, q, a, M, b) BY <1>0, SpliceIs, Zenon
<1> HIDE DEF r
<1>1. /\ r \in Seq(HoleT) /\ Len(r) = a + Len(M) + Len(q) - b + 1
      /\ \A i \in 1..Len(r) :
           r[i] = IF i <= a THEN q[i]
                  ELSE IF i <= a + Len(M) THEN M[i - a]
                  ELSE q[i - a - Len(M) + b - 1]
  BY <1>s DEF IsSplice
<1> DEFINE L(i) == i <= a
           C(i) == ~(i <= a) /\ i <= a + Len(M)
           R(i) == ~(i <= a + Len(M))
           k(i) == i - a
           m(i) == i - a - Len(M) + b - 1
<1>2. \A i \in 1..Len(r) :
        /\ L(i) => i \in 1..a /\ r[i] = q[i]
        /\ C(i) => k(i) \in 1..Len(M) /\ r[i] = M[k(i)]
        /\ R(i) => m(i) \in b..Len(q) /\ r[i] = q[m(i)]
        /\ L(i) \/ C(i) \/ R(i)
  <2> TAKE i \in 1..Len(r)
  <2>1. L(i) => i \in 1..a /\ r[i] = q[i] BY <1>0, <1>1
  <2>2. C(i) => k(i) \in 1..Len(M) /\ r[i] = M[k(i)] BY <1>0, <1>1
  <2>3. R(i) => m(i) \in b..Len(q) /\ r[i] = q[m(i)] BY <1>0, <1>1
  <2> QED BY <2>1, <2>2, <2>3
<1>3. /\ \A i \in 1..Len(q) : HoleEnd(q[i]) <= End
      /\ \A i \in 1..Len(M) : HoleEnd(M[i]) <= End
      /\ \A i, j \in 1..Len(q) : i < j => HoleEnd(q[j]) < q[i].offset
      /\ \A i, j \in 1..Len(M) : i < j => HoleEnd(M[j]) < M[i].offset
  BY DEF WellFormed, Within, Sorted
<1>4. \A i \in b..Len(q) : i \in 1..Len(q) BY <1>0
<1>5. \A i \in 1..a : i \in 1..Len(q) BY <1>0
<1>6. Within(r)
  BY <1>2, <1>3, <1>4, <1>5 DEF Within
<1>7. ASSUME NEW i \in 1..Len(r), NEW j \in 1..Len(r), i < j
      PROVE  HoleEnd(r[j]) < r[i].offset
  <2>1. CASE L(i) /\ L(j) BY <2>1, <1>2, <1>3, <1>5, <1>7
  <2>2. CASE L(i) /\ C(j) BY <2>2, <1>2
  <2>3. CASE L(i) /\ R(j)
    <3>1. i \in 1..Len(q) /\ m(j) \in 1..Len(q) /\ i < m(j) BY <2>3, <1>2, <1>4, <1>5, <1>0
    <3> QED BY <3>1, <2>3, <1>2, <1>3
  <2>4. CASE C(i) /\ C(j)
    <3>1. k(i) < k(j) BY <1>7, <1>0
    <3> QED BY <3>1, <2>4, <1>2, <1>3
  <2>5. CASE C(i) /\ R(j) BY <2>5, <1>2
  <2>6. CASE R(i) /\ R(j)
    <3>1. m(i) < m(j) BY <1>7, <1>0
    <3> QED BY <3>1, <2>6, <1>2, <1>3, <1>4
  <2>7. ~(C(i) /\ L(j)) /\ ~(R(i) /\ L(j)) /\ ~(R(i) /\ C(j)) BY <1>7, <1>0
  <2> QED BY <2>1, <2>2, <2>3, <2>4, <2>5, <2>6, <2>7, <1>2
<1> QED BY <1>1, <1>6, <1>7 DEF WellFormed, Sorted, r

-----------------------------------------------------------------------------
(* What allocating and giving back do to the list                          *)

\* What remains of a hole an area is taken from: what was in it, less the area.
LEMMA RemainsAre ==
  ASSUME NEW h \in HoleT, HoleEnd(h) <= End, NEW o \in Nat, NEW s \in Nat \ {0},
         h.offset <= o, o + s <= HoleEnd(h)
  PROVE  LET M == Above(h, o, s) \o Below(h, o)
         IN /\ WellFormed(M)
            /\ \A k \in 1..Len(M) : h.offset <= M[k].offset /\ HoleEnd(M[k]) <= HoleEnd(h)
            /\ \A x : x \in Covers(M) <=> x \in HoleArea(h) /\ x \notin o..o + s - 1
<1> DEFINE M == Above(h, o, s) \o Below(h, o)
           hi == Hole(o + s, HoleEnd(h) - (o + s))
           lo == Hole(h.offset, o - h.offset)
<1>1. /\ h.offset \in Nat /\ HoleEnd(h) \in Nat /\ Start <= h.offset /\ Start \in Nat /\ End \in Nat
      /\ \A x : x \in HoleArea(h) <=> x \in Int /\ h.offset <= x /\ x < HoleEnd(h)
  BY HoleNumbers, SimpleAllocatorAssumption DEF SimpleAllocatorAssumption
<1>2. ASSUME HoleEnd(h) > o + s
      PROVE  /\ hi \in HoleT /\ hi.offset = o + s /\ HoleEnd(hi) = HoleEnd(h)
             /\ \A x : x \in HoleArea(hi) <=> x \in HoleArea(h) /\ o + s <= x
  <2>1. hi \in HoleT /\ hi.offset = o + s /\ HoleEnd(hi) = HoleEnd(h)
    BY <1>1, <1>2 DEF Hole, HoleT, Offsets, HoleEnd
  <2> QED BY <2>1, <1>1, HoleNumbers
<1>3. ASSUME o > h.offset
      PROVE  /\ lo \in HoleT /\ lo.offset = h.offset /\ HoleEnd(lo) = o
             /\ \A x : x \in HoleArea(lo) <=> x \in HoleArea(h) /\ x < o
  <2>1. lo \in HoleT /\ lo.offset = h.offset /\ HoleEnd(lo) = o
    BY <1>1, <1>3 DEF Hole, HoleT, Offsets, HoleEnd
  <2> QED BY <2>1, <1>1, HoleNumbers
<1> HIDE DEF hi, lo
<1>4. /\ Above(h, o, s) = IF HoleEnd(h) > o + s THEN <<hi>> ELSE <<>>
      /\ Below(h, o) = IF o > h.offset THEN <<lo>> ELSE <<>>
  BY DEF Above, Below, hi, lo
<1>5. \A x \in HoleArea(h) : x \notin o..o + s - 1 <=> x < o \/ o + s <= x
  BY <1>1
<1> DEFINE Result(q) ==
             /\ WellFormed(q)
             /\ \A k \in 1..Len(q) : h.offset <= q[k].offset /\ HoleEnd(q[k]) <= HoleEnd(h)
             /\ \A x : x \in Covers(q) <=> x \in HoleArea(h) /\ x \notin o..o + s - 1
<1>6. CASE HoleEnd(h) > o + s /\ o > h.offset
  <2>1. M = <<hi, lo>>
    <3>1. M = <<hi>> \o <<lo>> BY <1>6, <1>4
    <3>2. <<hi>> \in Seq(HoleT) /\ lo \in HoleT /\ <<lo>> \in Seq(HoleT) BY <1>6, <1>2, <1>3
    <3>3. /\ <<hi>> \o <<lo>> \in Seq(HoleT) /\ Len(<<hi>> \o <<lo>>) = 2
          /\ (<<hi>> \o <<lo>>)[1] = hi /\ (<<hi>> \o <<lo>>)[2] = lo
      BY <3>2, ConcatProperties
    <3>4. <<hi, lo>> \in Seq(HoleT) /\ Len(<<hi, lo>>) = 2 BY <1>6, <1>2, <1>3
    <3>5. \A k \in 1..2 : (<<hi>> \o <<lo>>)[k] = <<hi, lo>>[k] BY <3>3
    <3>6. <<hi>> \o <<lo>> = <<hi, lo>> BY <3>3, <3>4, <3>5, SeqEqual
    <3> QED BY <3>1, <3>6
  <2>2. <<hi, lo>> \in Seq(HoleT) BY <1>6, <1>2, <1>3
  <2>3. \A x : x \in Covers(<<hi, lo>>) <=> x \in HoleArea(hi) \/ x \in HoleArea(lo)
    BY DEF Covers
  <2>4. WellFormed(<<hi, lo>>)
    BY <2>2, <1>6, <1>1, <1>2, <1>3 DEF WellFormed, Within, Sorted
  <2>5. \A k \in 1..2 : h.offset <= <<hi, lo>>[k].offset /\ HoleEnd(<<hi, lo>>[k]) <= HoleEnd(h)
    BY <1>6, <1>1, <1>2, <1>3
  <2>6. \A x : x \in HoleArea(hi) \/ x \in HoleArea(lo) <=> x \in HoleArea(h) /\ x \notin o..o + s - 1
    BY <1>6, <1>2, <1>3, <1>5
  <2>7. Result(<<hi, lo>>) BY <2>3, <2>4, <2>5, <2>6
  <2> QED BY <2>1, <2>7
<1>7. CASE HoleEnd(h) > o + s /\ ~(o > h.offset)
  <2>1. M = <<hi>>
    <3>1. M = <<hi>> \o <<>> BY <1>7, <1>4
    <3>2. <<hi>> \in Seq(HoleT) BY <1>7, <1>2
    <3> QED BY <3>1, <3>2, ConcatEmptySeq
  <2>2. <<hi>> \in Seq(HoleT) BY <1>7, <1>2
  <2>3. \A x : x \in Covers(<<hi>>) <=> x \in HoleArea(hi) BY DEF Covers
  <2>4. WellFormed(<<hi>>) BY <2>2, <1>7, <1>1, <1>2 DEF WellFormed, Within, Sorted
  <2>5. \A k \in 1..1 : h.offset <= <<hi>>[k].offset /\ HoleEnd(<<hi>>[k]) <= HoleEnd(h)
    BY <1>7, <1>1, <1>2
  <2>6. \A x : x \in HoleArea(hi) <=> x \in HoleArea(h) /\ x \notin o..o + s - 1
    BY <1>7, <1>1, <1>2, <1>5
  <2>7. Result(<<hi>>) BY <2>3, <2>4, <2>5, <2>6
  <2> QED BY <2>1, <2>7
<1>8. CASE ~(HoleEnd(h) > o + s) /\ o > h.offset
  <2>1. M = <<lo>> BY <1>8, <1>4
  <2>2. <<lo>> \in Seq(HoleT) BY <1>8, <1>3
  <2>3. \A x : x \in Covers(<<lo>>) <=> x \in HoleArea(lo) BY DEF Covers
  <2>4. WellFormed(<<lo>>) BY <2>2, <1>8, <1>1, <1>3 DEF WellFormed, Within, Sorted
  <2>5. \A k \in 1..1 : h.offset <= <<lo>>[k].offset /\ HoleEnd(<<lo>>[k]) <= HoleEnd(h)
    BY <1>8, <1>1, <1>3
  <2>6. \A x : x \in HoleArea(lo) <=> x \in HoleArea(h) /\ x \notin o..o + s - 1
    BY <1>8, <1>1, <1>3, <1>5
  <2>7. Result(<<lo>>) BY <2>3, <2>4, <2>5, <2>6
  <2> QED BY <2>1, <2>7
<1>9. CASE ~(HoleEnd(h) > o + s) /\ ~(o > h.offset)
  <2>1. M = <<>> BY <1>9, <1>4
  <2>2. \A x : x \in HoleArea(h) => x \in o..o + s - 1 BY <1>9, <1>1
  <2>3. WellFormed(<<>>) BY DEF WellFormed, Within, Sorted
  <2>4. Covers(<<>>) = {} BY DEF Covers
  <2>5. Result(<<>>) BY <2>2, <2>3, <2>4
  <2> QED BY <2>1, <2>5
<1> QED BY <1>6, <1>7, <1>8, <1>9

\* An area inside of a hole is taken out of the free addresses.
LEMMA AllocKeeps ==
  ASSUME WellFormed(holes), NEW i \in 1..Len(holes), NEW o \in Nat, NEW s \in Nat \ {0},
         holes[i].offset <= o, o + s <= HoleEnd(holes[i])
  PROVE  /\ WellFormed(HoleAlloc(i, o, s))
         /\ Covers(HoleAlloc(i, o, s)) = FreeAddresses \ (o..o + s - 1)
         /\ o..o + s - 1 \subseteq FreeAddresses
         /\ o \in Offsets /\ s \in 1..End - Start /\ o + s <= End
<1> DEFINE h == holes[i]
           M == Above(h, o, s) \o Below(h, o)
<1>1. /\ holes \in Seq(HoleT) /\ h \in HoleT /\ HoleEnd(h) <= End /\ Len(holes) \in Nat
      /\ \A j, k \in 1..Len(holes) : j < k => HoleEnd(holes[k]) < holes[j].offset
      /\ \A j \in 1..Len(holes) : holes[j] \in HoleT
  BY DEF WellFormed, Within, Sorted
<1>2. /\ WellFormed(M)
      /\ \A k \in 1..Len(M) : h.offset <= M[k].offset /\ HoleEnd(M[k]) <= HoleEnd(h)
      /\ \A x : x \in Covers(M) <=> x \in HoleArea(h) /\ x \notin o..o + s - 1
  BY <1>1, RemainsAre
<1>3. HoleAlloc(i, o, s) = Splice(holes, i - 1, M, i + 1)
  BY DEF HoleAlloc, Splice
<1> HIDE DEF M
<1>4. i - 1 \in 0..Len(holes) /\ i + 1 \in (i - 1) + 1..Len(holes) + 1 /\ i \in Nat
  BY <1>1
<1>5. \A k \in 1..Len(M) : HoleEnd(M[k]) \in Nat /\ M[k].offset \in Nat
  BY <1>2, HoleNumbers DEF WellFormed
<1>6. \A k \in 1..Len(M) : /\ \A j \in 1..i - 1 : HoleEnd(M[k]) < holes[j].offset
                           /\ \A j \in i + 1..Len(holes) : HoleEnd(holes[j]) < M[k].offset
  <2> TAKE k \in 1..Len(M)
  <2>1. ASSUME NEW j \in 1..i - 1 PROVE HoleEnd(M[k]) < holes[j].offset
    <3>1. j \in 1..Len(holes) /\ j < i BY <1>4
    <3>2. HoleEnd(h) < holes[j].offset /\ HoleEnd(h) \in Nat /\ holes[j].offset \in Nat
      BY <3>1, <1>1, HoleNumbers
    <3> QED BY <3>2, <1>2, <1>5
  <2>2. ASSUME NEW j \in i + 1..Len(holes) PROVE HoleEnd(holes[j]) < M[k].offset
    <3>1. j \in 1..Len(holes) /\ i < j BY <1>4
    <3>2. HoleEnd(holes[j]) < h.offset /\ HoleEnd(holes[j]) \in Nat /\ h.offset \in Nat
      BY <3>1, <1>1, HoleNumbers
    <3> QED BY <3>2, <1>2, <1>5
  <2> QED BY <2>1, <2>2
<1>7. WellFormed(HoleAlloc(i, o, s))
  BY <1>2, <1>3, <1>4, <1>6, SpliceWellFormed
<1>8. \A x : x \in o..o + s - 1 => x \in HoleArea(h)
  <2>1. /\ h.offset \in Nat /\ HoleEnd(h) \in Nat
        /\ \A x : x \in HoleArea(h) <=> x \in Int /\ h.offset <= x /\ x < HoleEnd(h)
    BY <1>1, HoleNumbers
  <2> QED BY <2>1
<1>9. \A j \in 1..Len(holes) : j # i => \A x \in HoleArea(holes[j]) : x \notin HoleArea(h)
  <2> TAKE j \in 1..Len(holes)
  <2> HAVE j # i
  <2>1. HoleEnd(holes[j]) < h.offset \/ HoleEnd(h) < holes[j].offset BY <1>1
  <2> QED BY <2>1, <1>1, HoleNumbers
<1>10. \A x : x \in FreeAddresses <=> \E j \in 1..Len(holes) : x \in HoleArea(holes[j])
  BY <1>1, CoversIs DEF Covers, FreeAddresses
<1>11. ASSUME NEW x
       PROVE  x \in Covers(HoleAlloc(i, o, s)) <=> x \in FreeAddresses /\ x \notin o..o + s - 1
  <2>1. x \in Covers(HoleAlloc(i, o, s)) <=>
           \/ \E j \in 1..i - 1 : x \in HoleArea(holes[j])
           \/ \E j \in i + 1..Len(holes) : x \in HoleArea(holes[j])
           \/ x \in Covers(M)
    BY <1>1, <1>2, <1>3, <1>4, SpliceCovers DEF WellFormed
  <2>2. (\E j \in 1..Len(holes) : x \in HoleArea(holes[j])) <=>
           \/ \E j \in 1..i - 1 : x \in HoleArea(holes[j])
           \/ \E j \in i + 1..Len(holes) : x \in HoleArea(holes[j])
           \/ x \in HoleArea(h)
    <3>1. \A j \in 1..Len(holes) : j \in 1..i - 1 \/ j \in i + 1..Len(holes) \/ j = i
      BY <1>1, <1>4
    <3>2. \A j : j \in 1..i - 1 \/ j \in i + 1..Len(holes) => j \in 1..Len(holes)
      BY <1>1, <1>4
    <3> QED BY <3>1, <3>2
  <2>3. \A j : j \in 1..i - 1 \/ j \in i + 1..Len(holes) => j \in 1..Len(holes) /\ j # i
    BY <1>1, <1>4
  <2>4. (\/ \E j \in 1..i - 1 : x \in HoleArea(holes[j])
         \/ \E j \in i + 1..Len(holes) : x \in HoleArea(holes[j])) => x \notin o..o + s - 1
    BY <2>3, <1>8, <1>9
  <2> QED BY <2>1, <2>2, <2>4, <1>2, <1>10
<1>12. o..o + s - 1 \subseteq FreeAddresses
  BY <1>8, <1>10
<1>13. o \in Offsets /\ s \in 1..End - Start /\ o + s <= End
  BY <1>1, HoleNumbers, SimpleAllocatorAssumption DEF Offsets, SimpleAllocatorAssumption
<1> QED BY <1>7, <1>11, <1>12, <1>13

\* There is a place between the holes above an address and the others.
LEMMA HigherIs ==
  ASSUME WellFormed(holes), NEW o \in Nat
  PROVE  /\ Higher(o) \in 0..Len(holes)
         /\ \A i \in 1..Higher(o) : holes[i].offset > o
         /\ Higher(o) < Len(holes) => holes[Higher(o) + 1].offset <= o
<1> DEFINE S == {i \in 1..Len(holes) : holes[i].offset <= o}
           IsHigher(n) == /\ \A i \in 1..n : holes[i].offset > o
                          /\ n < Len(holes) => holes[n + 1].offset <= o
<1>1. /\ Len(holes) \in Nat
      /\ \A i \in 1..Len(holes) : holes[i].offset \in Nat
  BY HoleNumbers DEF WellFormed
<1>2. CASE S = {}
  <2>1. IsHigher(Len(holes)) /\ Len(holes) \in 0..Len(holes) BY <1>1, <1>2
  <2> QED BY <2>1 DEF Higher
<1>3. CASE S # {}
  <2>1. S \subseteq Nat OBVIOUS
  <2>2. PICK m \in S : \A y \in S : m <= y BY <2>1, <1>3, Least
  <2>3. m - 1 \in 0..Len(holes) /\ (m - 1) + 1 = m /\ holes[m].offset <= o BY <1>1
  <2>4. ASSUME NEW i \in 1..m - 1 PROVE holes[i].offset > o
    <3>1. i \in 1..Len(holes) /\ ~(m <= i) BY <1>1
    <3>2. i \notin S BY <3>1, <2>2
    <3> QED BY <3>1, <3>2, <1>1
  <2>5. IsHigher(m - 1) BY <2>3, <2>4
  <2> QED BY <2>3, <2>5 DEF Higher
<1> QED BY <1>2, <1>3

\* The holes around an area nobody may have in the list: the asserts of
\* simple_vma_heap_free().
LEMMA Around ==
  ASSUME WellFormed(holes), NEW o \in Nat, NEW s \in Nat \ {0},
         \A x \in o..o + s - 1 : x \notin FreeAddresses
  PROVE  /\ \A i \in 1..Higher(o) : o + s <= holes[i].offset
         /\ \A i \in Higher(o) + 1..Len(holes) : HoleEnd(holes[i]) <= o
<1> DEFINE n == Higher(o)
<1>1. /\ Len(holes) \in Nat /\ holes \in Seq(HoleT)
      /\ \A i \in 1..Len(holes) :
           /\ holes[i].offset \in Nat /\ HoleEnd(holes[i]) \in Nat
           /\ holes[i].offset < HoleEnd(holes[i])
           /\ \A x : x \in HoleArea(holes[i]) <=>
                       x \in Int /\ holes[i].offset <= x /\ x < HoleEnd(holes[i])
      /\ \A i, j \in 1..Len(holes) : i < j => HoleEnd(holes[j]) < holes[i].offset
  BY HoleNumbers DEF WellFormed, Sorted
<1>2. \A i \in 1..Len(holes) : \A x \in HoleArea(holes[i]) : x \in FreeAddresses
  BY <1>1, CoversIs DEF Covers, FreeAddresses
<1>3. /\ n \in 0..Len(holes)
      /\ \A i \in 1..n : holes[i].offset > o
      /\ n < Len(holes) => holes[n + 1].offset <= o
  BY HigherIs
<1> HIDE DEF n
<1>4. ASSUME NEW i \in 1..n PROVE o + s <= holes[i].offset
  <2>1. i \in 1..Len(holes) /\ holes[i].offset > o BY <1>3
  <2>2. holes[i].offset \in HoleArea(holes[i]) /\ holes[i].offset \in Nat BY <2>1, <1>1
  <2>3. holes[i].offset \notin o..o + s - 1 BY <2>1, <2>2, <1>2
  <2> QED BY <2>1, <2>2, <2>3
<1>5. ASSUME NEW i \in n + 1..Len(holes) PROVE HoleEnd(holes[i]) <= o
  <2>1. n + 1 \in 1..Len(holes) /\ i \in 1..Len(holes) /\ holes[n + 1].offset <= o /\ n \in Nat
    BY <1>1, <1>3
  <2>2. HoleEnd(holes[n + 1]) <= o
    <3>1. o \in o..o + s - 1 OBVIOUS
    <3>2. o \notin HoleArea(holes[n + 1]) BY <3>1, <2>1, <1>2
    <3> QED BY <3>2, <2>1, <1>1
  <2>3. CASE i = n + 1 BY <2>2, <2>3
  <2>4. CASE i # n + 1
    <3>1. n + 1 < i BY <2>1, <2>4
    <3>2. HoleEnd(holes[i]) < holes[n + 1].offset BY <3>1, <2>1, <1>1
    <3> QED BY <3>2, <2>1, <1>1
  <2> QED BY <2>3, <2>4
<1> QED BY <1>4, <1>5 DEF n

\* The area given back is free again, and one hole with its neighbours.
LEMMA FreeKeeps ==
  ASSUME WellFormed(holes), NEW o \in Offsets, NEW s \in Nat \ {0}, o + s <= End,
         \A x \in o..o + s - 1 : x \notin FreeAddresses
  PROVE  /\ WellFormed(HeapFree(o, s))
         /\ Covers(HeapFree(o, s)) = FreeAddresses \cup (o..o + s - 1)
<1> DEFINE n == Higher(o)
           HA == HighAdjacent(o, s)
           LA == LowAdjacent(o)
           a == IF HA THEN n - 1 ELSE n
           b == IF LA THEN n + 2 ELSE n + 1
           g == Merged(o, s)
<1>0. o \in Nat /\ Start \in Nat /\ End \in Nat /\ Start <= o
  BY SimpleAllocatorAssumption DEF Offsets, SimpleAllocatorAssumption
<1>1. /\ Len(holes) \in Nat /\ holes \in Seq(HoleT)
      /\ \A i \in 1..Len(holes) :
           /\ holes[i].offset \in Nat /\ HoleEnd(holes[i]) \in Nat
           /\ Start <= holes[i].offset /\ HoleEnd(holes[i]) <= End
           /\ holes[i].offset < HoleEnd(holes[i])
           /\ \A x : x \in HoleArea(holes[i]) <=>
                       x \in Int /\ holes[i].offset <= x /\ x < HoleEnd(holes[i])
      /\ \A i, j \in 1..Len(holes) : i < j => HoleEnd(holes[j]) < holes[i].offset
  BY HoleNumbers DEF WellFormed, Sorted, Within
<1>2. n \in 0..Len(holes) BY <1>0, HigherIs
<1>3. /\ \A i \in 1..n : o + s <= holes[i].offset
      /\ \A i \in n + 1..Len(holes) : HoleEnd(holes[i]) <= o
  BY <1>0, Around
<1>4. /\ HA <=> n > 0 /\ o + s = holes[n].offset
      /\ LA <=> n < Len(holes) /\ HoleEnd(holes[n + 1]) = o
      /\ g = Hole(IF LA THEN holes[n + 1].offset ELSE o,
                  (IF HA THEN HoleEnd(holes[n]) ELSE o + s)
                    - (IF LA THEN holes[n + 1].offset ELSE o))
      /\ HeapFree(o, s) = Splice(holes, a, <<g>>, b)
  BY DEF HighAdjacent, LowAdjacent, Merged, HeapFree, Splice
<1> HIDE DEF n, HA, LA, g
<1>5. a \in 0..Len(holes) /\ b \in a + 1..Len(holes) + 1 /\ a \in Nat /\ b \in Nat
  BY <1>1, <1>2, <1>4
<1>6. /\ HA => n \in 1..Len(holes) /\ o + s = holes[n].offset
      /\ LA => n + 1 \in 1..Len(holes) /\ HoleEnd(holes[n + 1]) = o
  BY <1>1, <1>2, <1>4
<1> DEFINE low == IF LA THEN holes[n + 1].offset ELSE o
           high == IF HA THEN HoleEnd(holes[n]) ELSE o + s
<1>7. low \in Nat /\ high \in Nat /\ Start <= low /\ low <= o /\ o + s <= high /\ high <= End
  BY <1>0, <1>1, <1>6
<1>8. /\ g = Hole(low, high - low) BY <1>4
<1> HIDE DEF low, high
<1>9. g \in HoleT /\ g.offset = low /\ HoleEnd(g) = high
  BY <1>0, <1>7, <1>8 DEF Hole, HoleT, Offsets, HoleEnd
<1>10. WellFormed(<<g>>)
  BY <1>7, <1>9 DEF WellFormed, Within, Sorted
<1>11. ASSUME NEW i \in 1..a PROVE i \in 1..Len(holes) /\ high < holes[i].offset
  <2>1. i \in 1..n /\ i \in 1..Len(holes) BY <1>1, <1>2, <1>5
  <2>2. CASE HA
    <3>1. i < n
      <4> HIDE DEF a
      <4>1. a = n - 1 BY <2>2 DEF a
      <4> QED BY <4>1, <1>2
    <3>2. HoleEnd(holes[n]) < holes[i].offset BY <3>1, <2>1, <2>2, <1>1, <1>6
    <3>3. high = HoleEnd(holes[n]) BY <2>2 DEF high
    <3> QED BY <3>2, <3>3, <2>1
  <2>3. CASE ~HA
    <3>1. CASE i = n
      <4>1. n > 0 /\ o + s # holes[n].offset /\ o + s <= holes[n].offset
        BY <3>1, <2>1, <2>3, <1>2, <1>3, <1>4
      <4>2. high = o + s BY <2>3 DEF high
      <4> QED BY <4>1, <4>2, <3>1, <2>1, <1>0, <1>1
    <3>2. CASE i # n
      <4>1. i < n /\ n \in 1..n /\ n \in 1..Len(holes) BY <3>2, <2>1, <1>2
      <4>2. o + s <= holes[n].offset BY <4>1, <1>3
      <4>3. HoleEnd(holes[n]) < holes[i].offset BY <4>1, <2>1, <1>1
      <4> QED BY <4>1, <4>2, <4>3, <2>1, <2>3, <1>0, <1>1 DEF high
    <3> QED BY <3>1, <3>2
  <2> QED BY <2>2, <2>3
<1>12. ASSUME NEW i \in b..Len(holes) PROVE i \in 1..Len(holes) /\ HoleEnd(holes[i]) < low
  <2>1. i \in n + 1..Len(holes) /\ i \in 1..Len(holes) BY <1>1, <1>2, <1>5
  <2>2. CASE LA
    <3>1. n + 1 < i BY <2>2, <1>2
    <3> QED BY <3>1, <2>1, <2>2, <1>1, <1>6 DEF low
  <2>3. CASE ~LA
    <3>1. CASE i = n + 1
      <4>1. n < Len(holes) BY <3>1, <2>1, <1>1, <1>2
      <4> QED BY <4>1, <3>1, <2>1, <2>3, <1>0, <1>1, <1>3, <1>4 DEF low
    <3>2. CASE i # n + 1
      <4>1. n + 1 < i /\ n + 1 \in n + 1..Len(holes) /\ n + 1 \in 1..Len(holes)
        BY <3>2, <2>1, <1>1, <1>2
      <4>2. HoleEnd(holes[n + 1]) <= o BY <4>1, <1>3
      <4>3. HoleEnd(holes[i]) < holes[n + 1].offset BY <4>1, <2>1, <1>1
      <4> QED BY <4>1, <4>2, <4>3, <2>1, <2>3, <1>0, <1>1 DEF low
    <3> QED BY <3>1, <3>2
  <2> QED BY <2>2, <2>3
<1>13. WellFormed(Splice(holes, a, <<g>>, b))
  <2>1. \A k \in 1..Len(<<g>>) :
          /\ \A i \in 1..a : HoleEnd(<<g>>[k]) < holes[i].offset
          /\ \A i \in b..Len(holes) : HoleEnd(holes[i]) < <<g>>[k].offset
    BY <1>9, <1>11, <1>12
  <2> HIDE DEF a, b
  <2> QED BY <2>1, <1>5, <1>10, SpliceWellFormed
<1>14. \A x : x \in FreeAddresses <=> \E j \in 1..Len(holes) : x \in HoleArea(holes[j])
  BY <1>1, CoversIs DEF Covers, FreeAddresses
<1>15. \A x : x \in Covers(<<g>>) <=>
                \/ x \in o..o + s - 1
                \/ LA /\ x \in HoleArea(holes[n + 1])
                \/ HA /\ x \in HoleArea(holes[n])
  <2>1. \A x : x \in Covers(<<g>>) <=> x \in HoleArea(g) BY DEF Covers
  <2>2. \A x : x \in HoleArea(g) <=> x \in Int /\ low <= x /\ x < high BY <1>9, HoleNumbers
  <2>3. \A x : x \in Int /\ low <= x /\ x < high <=>
                \/ x \in o..o + s - 1
                \/ LA /\ x \in HoleArea(holes[n + 1])
                \/ HA /\ x \in HoleArea(holes[n])
    <3>1. LA => \A x : x \in HoleArea(holes[n + 1]) <=> x \in Int /\ low <= x /\ x < o
      BY <1>1, <1>6 DEF low
    <3>2. HA => \A x : x \in HoleArea(holes[n]) <=> x \in Int /\ o + s <= x /\ x < high
      BY <1>1, <1>6 DEF high
    <3>3. (~LA => low = o) /\ (~HA => high = o + s) BY DEF low, high
    <3> QED BY <3>1, <3>2, <3>3, <1>0, <1>7
  <2> QED BY <2>1, <2>2, <2>3
<1>16. ASSUME NEW x
       PROVE  x \in Covers(Splice(holes, a, <<g>>, b)) <=> x \in FreeAddresses \/ x \in o..o + s - 1
  <2>1. x \in Covers(Splice(holes, a, <<g>>, b)) <=>
           \/ \E i \in 1..a : x \in HoleArea(holes[i])
           \/ \E i \in b..Len(holes) : x \in HoleArea(holes[i])
           \/ x \in Covers(<<g>>)
    <3>1. <<g>> \in Seq(HoleT) BY <1>10 DEF WellFormed
    <3> HIDE DEF a, b
    <3> QED BY <3>1, <1>1, <1>5, SpliceCovers
  <2>2. \A i \in 1..Len(holes) :
           i \in 1..a \/ i \in b..Len(holes) \/ (LA /\ i = n + 1) \/ (HA /\ i = n)
    BY <1>1, <1>2, <1>5
  <2>3. \A i : i \in 1..a \/ i \in b..Len(holes) \/ (LA /\ i = n + 1) \/ (HA /\ i = n)
                 => i \in 1..Len(holes)
    BY <1>6, <1>11, <1>12
  <2> HIDE DEF a, b
  <2> QED BY <2>1, <2>2, <2>3, <1>14, <1>15
<1> QED BY <1>4, <1>13, <1>16

-----------------------------------------------------------------------------
(***************************************************************************)
(* The invariant: the list is well formed, no address of a record is in a  *)
(* hole or in another record.                                              *)
(***************************************************************************)
RecordsApart ==
  /\ objects \subseteq Areas /\ reserved \subseteq Areas
  /\ \A t \in Taken : t[2].offset + t[2].size <= End
  /\ \A t \in Taken : \A x \in Space!Area(t) : x \notin FreeAddresses
  /\ \A t, u \in Taken : t # u => \A x \in Space!Area(t) : x \notin Space!Area(u)

AllocatorInv == WellFormed(holes) /\ RecordsApart

\* FreeAddresses is what the list covers.
LEMMA FreeIs == FreeAddresses = Covers(holes) /\ FreeAddresses' = Covers(holes')
BY DEF FreeAddresses, Covers

\* The area of a record, with or without its purpose.
LEMMA AreaIs ==
  ASSUME NEW k, NEW r
  PROVE  Space!Area(<<k, r>>) = r.offset..r.offset + r.size - 1 /\ <<k, r>>[2] = r
BY DEF Space!Area

\* What is taken are the objects and the reserved areas.
LEMMA TakenIs ==
  ASSUME NEW t
  PROVE  /\ t \in Taken <=> \/ \E r \in objects : t = <<"object", r>>
                            \/ \E r \in reserved : t = <<"reserved", r>>
         /\ t \in Taken' <=> \/ \E r \in objects' : t = <<"object", r>>
                             \/ \E r \in reserved' : t = <<"reserved", r>>
BY DEF Taken

\* No address of a record is in a hole.
LEMMA RecordNotFree ==
  ASSUME AllocatorInv, NEW k, NEW r, <<k, r>> \in Taken
  PROVE  \A x \in r.offset..r.offset + r.size - 1 : x \notin FreeAddresses
<1>1. Space!Area(<<k, r>>) = r.offset..r.offset + r.size - 1 BY AreaIs
<1>2. \A x \in Space!Area(<<k, r>>) : x \notin FreeAddresses BY DEF AllocatorInv, RecordsApart
<1> QED BY <1>1, <1>2

\* Whatever takes an area out of a hole for a record.
LEMMA TakeKeeps ==
  ASSUME AllocatorInv, NEW k, NEW r \in Areas, NEW i \in 1..Len(holes),
         holes[i].offset <= r.offset, r.offset + r.size <= HoleEnd(holes[i]),
         holes' = HoleAlloc(i, r.offset, r.size), Taken' = Taken \cup {<<k, r>>},
         objects' \subseteq Areas, reserved' \subseteq Areas
  PROVE  AllocatorInv' /\ Space!Next
<1> DEFINE t == <<k, r>>
           A == r.offset..r.offset + r.size - 1
<1>1. /\ WellFormed(holes) /\ r.offset \in Nat /\ r.size \in Nat \ {0}
  BY SimpleAllocatorAssumption DEF AllocatorInv, Areas, Offsets, SimpleAllocatorAssumption
<1>2. /\ WellFormed(holes')
      /\ FreeAddresses' = FreeAddresses \ A
      /\ A \subseteq FreeAddresses
      /\ r.offset + r.size <= End
  BY <1>1, AllocKeeps, FreeIs
<1>3. Space!Area(t) = A /\ t[2] = r /\ r.offset \in A
  BY <1>1, AreaIs
<1> HIDE DEF t, A
<1>4. t \notin Taken
  BY <1>2, <1>3 DEF AllocatorInv, RecordsApart
<1>5. RecordsApart'
  <2>1. \A u \in Taken' : u[2].offset + u[2].size <= End
    BY <1>2, <1>3 DEF AllocatorInv, RecordsApart, t
  <2>2. \A u \in Taken' : \A x \in Space!Area(u) : x \notin FreeAddresses'
    BY <1>2, <1>3 DEF AllocatorInv, RecordsApart, t
  <2>3. \A u, v \in Taken' : u # v => \A x \in Space!Area(u) : x \notin Space!Area(v)
    BY <1>2, <1>3 DEF AllocatorInv, RecordsApart, t
  <2> QED BY <2>1, <2>2, <2>3 DEF RecordsApart
<1>6. Space!Next
  <2>1. Space!Take(t) BY <1>2, <1>3 DEF Space!Take, t
  <2>2. t \in Taken' \ Taken BY <1>4 DEF t
  <2> QED BY <2>1, <2>2 DEF Space!Next
<1> QED BY <1>2, <1>5, <1>6 DEF AllocatorInv

\* Whatever gives the area of a record back.
LEMMA ReleaseKeeps ==
  ASSUME AllocatorInv, NEW k, NEW r, <<k, r>> \in Taken, r \in Areas,
         holes' = HeapFree(r.offset, r.size), Taken' = Taken \ {<<k, r>>},
         objects' \subseteq Areas, reserved' \subseteq Areas
  PROVE  AllocatorInv' /\ Space!Next
<1> DEFINE t == <<k, r>>
           A == r.offset..r.offset + r.size - 1
<1>1. /\ WellFormed(holes) /\ r.offset \in Offsets /\ r.size \in Nat \ {0}
  BY DEF AllocatorInv, Areas
<1>2. Space!Area(t) = A /\ t[2] = r
  BY AreaIs
<1>3. /\ r.offset + r.size <= End
      /\ \A x \in A : x \notin FreeAddresses
      /\ \A u \in Taken \ {t} : \A x \in A : x \notin Space!Area(u)
  BY <1>2 DEF AllocatorInv, RecordsApart
<1>4. WellFormed(holes') /\ FreeAddresses' = FreeAddresses \cup A
  BY <1>1, <1>3, FreeKeeps, FreeIs
<1> HIDE DEF t, A
<1>5. RecordsApart'
  <2>1. \A u \in Taken' : u[2].offset + u[2].size <= End
    BY DEF AllocatorInv, RecordsApart
  <2>2. \A u \in Taken' : \A x \in Space!Area(u) : x \notin FreeAddresses'
    BY <1>3, <1>4 DEF AllocatorInv, RecordsApart, t
  <2>3. \A u, v \in Taken' : u # v => \A x \in Space!Area(u) : x \notin Space!Area(v)
    BY DEF AllocatorInv, RecordsApart
  <2> QED BY <2>1, <2>2, <2>3 DEF RecordsApart
<1>6. Space!Next
  <2>1. Space!Release(t) BY <1>2, <1>4 DEF Space!Release, t
  <2> QED BY <2>1 DEF Space!Next, t
<1> QED BY <1>4, <1>5, <1>6 DEF AllocatorInv

-----------------------------------------------------------------------------
(* The actions                                                             *)

\* Rounding down to a multiple does not go up.
LEMMA DivBelow == ASSUME NEW x \in Nat, NEW a \in Nat \ {0} PROVE (x \div a) * a \in Nat /\ (x \div a) * a <= x
OBVIOUS

\* A place in a hole that fits is inside of it.
LEMMA PlaceInside ==
  ASSUME NEW h \in HoleT, NEW s \in Nat \ {0}, NEW a \in Nat \ {0}, NEW strategy,
         Fits(h, s, a, strategy)
  PROVE  LET o == Place(h, s, a, strategy)
         IN o \in Nat /\ h.offset <= o /\ o + s <= HoleEnd(h)
<1>1. /\ h.offset \in Nat /\ h.size \in Nat /\ HoleEnd(h) \in Nat
      /\ HoleEnd(h) = h.offset + h.size /\ s <= h.size
  BY HoleNumbers DEF Fits
<1>2. CASE strategy = "HIGH_TO_LOW"
  <2>1. PlaceFromAbove(h, s, a) \in Nat /\ PlaceFromAbove(h, s, a) <= HoleEnd(h) - s
    <3> DEFINE x == HoleEnd(h) - s
    <3>1. x \in Nat BY <1>1
    <3>2. PlaceFromAbove(h, s, a) = (x \div a) * a BY DEF PlaceFromAbove
    <3> HIDE DEF x
    <3>3. PlaceFromAbove(h, s, a) \in Nat /\ PlaceFromAbove(h, s, a) <= x
      BY <3>1, <3>2, DivBelow
    <3> QED BY <3>3 DEF x
  <2>2. PlaceFromAbove(h, s, a) >= h.offset BY <1>2 DEF Fits
  <2> QED BY <1>1, <1>2, <2>1, <2>2 DEF Place
<1>3. CASE strategy # "HIGH_TO_LOW"
  <2>1. PadUp(h.offset, a) \in Nat BY <1>1 DEF PadUp
  <2>2. PadUp(h.offset, a) <= h.size - s BY <1>3 DEF Fits
  <2> QED BY <1>1, <1>3, <2>1, <2>2 DEF Place
<1> QED BY <1>2, <1>3

\* The hole chosen is one that the area fits in.
LEMMA ChoiceFits ==
  ASSUME WellFormed(holes), NEW s, NEW a, NEW strategy, Candidates(s, a, strategy) # {}
  PROVE  /\ Choice(s, a, strategy) \in 1..Len(holes)
         /\ Fits(holes[Choice(s, a, strategy)], s, a, strategy)
<1>1. Len(holes) \in Nat /\ DOMAIN holes = 1..Len(holes) BY DEF WellFormed
<1>2. Candidates(s, a, strategy) \subseteq 1..Len(holes) BY <1>1 DEF Candidates
<1>3. Candidates(s, a, strategy) \subseteq Nat BY <1>2
<1>4. Min(Candidates(s, a, strategy)) \in Candidates(s, a, strategy) BY <1>3, MinIn
<1>5. Max(Candidates(s, a, strategy)) \in Candidates(s, a, strategy) BY <1>1, <1>2, MaxIn
<1>6. Choice(s, a, strategy) \in Candidates(s, a, strategy) BY <1>4, <1>5 DEF Choice
<1> QED BY <1>1, <1>6 DEF Candidates

\* intel_allocator_simple_alloc() takes an area for an object.
LEMMA AllocStep ==
  ASSUME AllocatorInv, NEW handle \in Handles, NEW s \in Sizes, NEW a \in Alignments, NEW strategy,
         Alloc(handle, s, a, strategy)
  PROVE  AllocatorInv' /\ Space!Next
<1> DEFINE st == Resolved(strategy)
           i == Choice(s, a, st)
           o == Place(holes[i], s, a, st)
           r == [handle |-> handle, offset |-> o, size |-> s]
<1>1. /\ WellFormed(holes) /\ s \in Nat \ {0} /\ a \in Nat \ {0}
  BY SimpleAllocatorAssumption DEF AllocatorInv, SimpleAllocatorAssumption
<1>2. /\ Candidates(s, a, st) # {} /\ holes' = HoleAlloc(i, o, s)
      /\ objects' = objects \cup {r} /\ reserved' = reserved
  BY DEF Alloc
<1> HIDE DEF st
<1>3. i \in 1..Len(holes) /\ Fits(holes[i], s, a, st)
  BY <1>1, <1>2, ChoiceFits
<1> HIDE DEF i
<1>4. holes[i] \in HoleT BY <1>1, <1>3 DEF WellFormed
<1>5. o \in Nat /\ holes[i].offset <= o /\ o + s <= HoleEnd(holes[i])
  BY <1>1, <1>3, <1>4, PlaceInside
<1> HIDE DEF o
<1>6. o \in Offsets /\ s \in 1..End - Start
  BY <1>1, <1>3, <1>5, AllocKeeps
<1>7. r \in Areas /\ r.offset = o /\ r.size = s BY <1>6 DEF Areas
<1>8. Taken' = Taken \cup {<<"object", r>>} BY <1>2 DEF Taken
<1>9. objects' \subseteq Areas /\ reserved' \subseteq Areas
  BY <1>2, <1>7 DEF AllocatorInv, RecordsApart
<1> HIDE DEF r
<1> QED BY <1>2, <1>3, <1>5, <1>7, <1>8, <1>9, TakeKeeps

\* intel_allocator_simple_free() gives one back.
LEMMA FreeStep ==
  ASSUME AllocatorInv, NEW handle, Free(handle)
  PROVE  AllocatorInv' /\ Space!Next
<1>1. PICK r \in objects : /\ objects' = objects \ {r} /\ reserved' = reserved
                           /\ holes' = HeapFree(r.offset, r.size)
  BY DEF Free, ObjectsOf
<1>2. <<"object", r>> \in Taken BY TakenIs
<1>3. Taken' = Taken \ {<<"object", r>>} BY <1>1 DEF Taken
<1>4. r \in Areas /\ objects' \subseteq Areas /\ reserved' \subseteq Areas
  BY <1>1 DEF AllocatorInv, RecordsApart
<1> QED BY <1>1, <1>2, <1>3, <1>4, ReleaseKeeps

\* A step that changes neither the list nor the records.
LEMMA NoChange ==
  ASSUME AllocatorInv, UNCHANGED <<holes, objects, reserved>>
  PROVE  AllocatorInv' /\ UNCHANGED Space!vars
<1>1. Taken' = Taken BY DEF Taken
<1>2. FreeAddresses' = FreeAddresses BY DEF FreeAddresses
<1> QED BY <1>1, <1>2 DEF AllocatorInv, RecordsApart, Space!vars

\* No area that is reserved starts where one can be reserved.
LEMMA ReservedElsewhere ==
  ASSUME AllocatorInv, NEW o \in Nat, NEW s \in Nat \ {0}, FitsAt(o, s)
  PROVE  \A t \in reserved : t.offset # o
<1> DEFINE i == Higher(o) + 1
<1>1. WellFormed(holes) BY DEF AllocatorInv
<1>2. Higher(o) < Len(holes) /\ o + s <= HoleEnd(holes[i]) /\ Len(holes) \in Nat
  BY <1>1 DEF FitsAt, WellFormed
<1>3. i \in 1..Len(holes) /\ holes[i].offset <= o
  <2>1. Higher(o) \in 0..Len(holes) BY <1>1, HigherIs
  <2>2. holes[Higher(o) + 1].offset <= o BY <1>2, <1>1, HigherIs
  <2> QED BY <2>1, <2>2, <1>2
<1> HIDE DEF i
<1>4. o \in FreeAddresses
  <2>1. o..o + s - 1 \subseteq FreeAddresses BY <1>1, <1>2, <1>3, AllocKeeps
  <2> QED BY <2>1
<1> TAKE t \in reserved
<1>5. <<"reserved", t>> \in Taken /\ t \in Areas
  BY TakenIs DEF AllocatorInv, RecordsApart
<1>6. t.offset \in t.offset..t.offset + t.size - 1
  BY <1>5, SimpleAllocatorAssumption DEF Areas, Offsets, SimpleAllocatorAssumption
<1>7. t.offset \notin FreeAddresses
  BY <1>5, <1>6, RecordNotFree
<1> QED BY <1>4, <1>7

\* intel_allocator_simple_reserve() takes an area, or nothing.
LEMMA ReserveStep ==
  ASSUME AllocatorInv, NEW handle \in Handles, NEW start \in Nat, NEW end \in Nat,
         Reserve(handle, start, end)
  PROVE  AllocatorInv' /\ (Space!Next \/ UNCHANGED Space!vars)
<1> DEFINE o == Decanonical(start)
           s == AreaSize(start, end)
           i == Higher(o) + 1
           r == [handle |-> handle, offset |-> o, size |-> s]
<1>1. WellFormed(holes) /\ o \in Nat /\ s \in Nat \ {0}
  BY SimpleAllocatorAssumption
     DEF AllocatorInv, Reserve, Acceptable, AreaSize, Decanonical, SimpleAllocatorAssumption
<1>2. CASE FitsAt(o, s)
  <2>1. /\ holes' = HoleAlloc(i, o, s)
        /\ reserved' = {t \in reserved : t.offset # o} \cup {r} /\ objects' = objects
    BY <1>2 DEF Reserve
  <2> HIDE DEF o, s
  <2>2. /\ Higher(o) < Len(holes) /\ o + s <= HoleEnd(holes[i])
        /\ Len(holes) \in Nat
    BY <1>1, <1>2 DEF FitsAt, WellFormed
  <2>3. i \in 1..Len(holes) /\ holes[i].offset <= o
    <3>1. Higher(o) \in 0..Len(holes) BY <1>1, HigherIs
    <3>2. holes[Higher(o) + 1].offset <= o BY <2>2, <1>1, HigherIs
    <3> QED BY <3>1, <3>2, <2>2
  <2> HIDE DEF i
  <2>4. o \in Offsets /\ s \in 1..End - Start /\ o..o + s - 1 \subseteq FreeAddresses
    BY <1>1, <2>2, <2>3, AllocKeeps
  <2>5. r \in Areas /\ r.offset = o /\ r.size = s BY <2>4 DEF Areas
  <2>6. \A t \in reserved : t.offset # o BY <1>1, <1>2, ReservedElsewhere
  <2>7. reserved' = reserved \cup {r} BY <2>1, <2>6
  <2>8. Taken' = Taken \cup {<<"reserved", r>>} BY <2>1, <2>7 DEF Taken
  <2>9. objects' \subseteq Areas /\ reserved' \subseteq Areas
    BY <2>1, <2>5, <2>7 DEF AllocatorInv, RecordsApart
  <2> HIDE DEF r
  <2> QED BY <2>1, <2>2, <2>3, <2>5, <2>8, <2>9, TakeKeeps
<1>3. CASE ~FitsAt(o, s)
  <2>1. UNCHANGED <<holes, objects, reserved>> BY <1>3 DEF Reserve
  <2> QED BY <2>1, NoChange
<1> QED BY <1>2, <1>3

\* intel_allocator_simple_unreserve() gives one back.
LEMMA UnreserveStep ==
  ASSUME AllocatorInv, NEW handle, NEW start, NEW end, Unreserve(handle, start, end)
  PROVE  AllocatorInv' /\ Space!Next
<1>1. PICK r \in reserved : /\ reserved' = reserved \ {r} /\ objects' = objects
                            /\ holes' = HeapFree(r.offset, r.size)
  BY DEF Unreserve
<1>2. <<"reserved", r>> \in Taken BY TakenIs
<1>3. Taken' = Taken \ {<<"reserved", r>>} BY <1>1 DEF Taken
<1>4. r \in Areas /\ objects' \subseteq Areas /\ reserved' \subseteq Areas
  BY <1>1 DEF AllocatorInv, RecordsApart
<1> QED BY <1>1, <1>2, <1>3, <1>4, ReleaseKeeps

-----------------------------------------------------------------------------
(* The theorems                                                            *)

\* The allocator is created with all of its space free.
LEMMA InvInit == Init => AllocatorInv /\ Space!Init
<1> SUFFICES ASSUME Init PROVE AllocatorInv /\ Space!Init OBVIOUS
<1> DEFINE h == Hole(Start, End - Start)
<1>1. h \in HoleT /\ HoleEnd(h) = End /\ h.offset = Start
  BY SimpleAllocatorAssumption DEF Hole, HoleT, HoleEnd, Offsets, SimpleAllocatorAssumption
<1>2. holes = <<h>> /\ objects = {} /\ reserved = {} BY DEF Init
<1> HIDE DEF h
<1>3. WellFormed(holes) BY <1>1, <1>2, SimpleAllocatorAssumption
  DEF WellFormed, Within, Sorted, SimpleAllocatorAssumption
<1>4. FreeAddresses = HoleArea(h) BY <1>2 DEF FreeAddresses
<1>5. HoleArea(h) = Offsets BY <1>1 DEF HoleArea, Offsets
<1>6. Taken = {} BY <1>2 DEF Taken
<1> QED BY <1>2, <1>3, <1>4, <1>5, <1>6 DEF AllocatorInv, RecordsApart, Space!Init

\* Every step keeps the invariant and is a step of the address space, or none.
LEMMA InvNext == AllocatorInv /\ [Next]_vars => AllocatorInv' /\ [Space!Next]_(Space!vars)
<1> SUFFICES ASSUME AllocatorInv, [Next]_vars
             PROVE  AllocatorInv' /\ (Space!Next \/ UNCHANGED Space!vars)
  OBVIOUS
<1>1. CASE UNCHANGED vars BY <1>1, NoChange DEF vars, heap
<1>2. ASSUME NEW handle \in Handles, NEW s \in Sizes, AllocAgain(handle, s)
      PROVE  AllocatorInv' /\ UNCHANGED Space!vars
  BY <1>2, NoChange DEF AllocAgain, vars, heap
<1>3. ASSUME NEW handle \in Handles, NEW s \in Sizes, NEW a \in Alignments, NEW strategy,
             AllocFails(handle, s, a, strategy)
      PROVE  AllocatorInv' /\ UNCHANGED Space!vars
  BY <1>3, NoChange DEF AllocFails, vars, heap
<1>4. ASSUME NEW handle \in Handles, NEW s \in Sizes, NEW start \in Forms,
             Reserve(handle, start, start + s)
      PROVE  AllocatorInv' /\ (Space!Next \/ UNCHANGED Space!vars)
  <2>1. start \in Nat /\ start + s \in Nat
    BY SimpleAllocatorAssumption DEF Forms, Offsets, SimpleAllocatorAssumption
  <2> QED BY <2>1, <1>4, ReserveStep
<1> QED BY <1>1, <1>2, <1>3, <1>4, AllocStep, FreeStep, UnreserveStep DEF Next

\* The simple allocator implements an address space: an area is handed out only
\* if all of it is free, areas never overlap, and giving one back frees exactly
\* its addresses, for ranges, sizes and alignments without bound.
THEOREM AllocatorRefines == Spec => IsAddressSpace
<1>1. Spec => Space!Init /\ [][Space!Next]_(Space!vars)
  BY InvInit, InvNext, PTL DEF Spec
<1> QED BY <1>1 DEF IsAddressSpace, Space!Spec

\* The invariant holds always.
LEMMA InvHolds == Spec => []AllocatorInv
BY InvInit, InvNext, PTL DEF Spec

\* What the list is checked for follows from the invariant.
LEMMA InvValidates == AllocatorInv => Validated
<1> SUFFICES ASSUME AllocatorInv PROVE Validated OBVIOUS
<1>1. Ordered
  <2>1. Len(holes) \in Nat BY DEF AllocatorInv, WellFormed
  <2>2. \A i \in 1..Len(holes) - 1 : i \in 1..Len(holes) /\ i + 1 \in 1..Len(holes) /\ i < i + 1
    BY <2>1
  <2> QED BY <2>2 DEF AllocatorInv, WellFormed, Sorted, Ordered
<1>2. ASSUME NEW r \in objects \cup reserved PROVE Returnable(r)
  <2>1. PICK k : <<k, r>> \in Taken BY TakenIs
  <2>2. r \in Areas BY DEF AllocatorInv, RecordsApart
  <2>3. WellFormed(holes) /\ r.offset \in Nat /\ r.size \in Nat \ {0} /\ Len(holes) \in Nat
    BY <2>2, SimpleAllocatorAssumption
    DEF AllocatorInv, Areas, Offsets, WellFormed, SimpleAllocatorAssumption
  <2>4. \A x \in r.offset..r.offset + r.size - 1 : x \notin FreeAddresses
    BY <2>1, RecordNotFree
  <2>5. /\ \A i \in 1..Higher(r.offset) : r.offset + r.size <= holes[i].offset
        /\ \A i \in Higher(r.offset) + 1..Len(holes) : HoleEnd(holes[i]) <= r.offset
    BY <2>3, <2>4, Around
  <2>6. Higher(r.offset) \in 0..Len(holes) BY <2>3, HigherIs
  <2> QED BY <2>3, <2>5, <2>6 DEF Returnable
<1> QED BY <1>1, <1>2 DEF Validated

\* No assert of the heap fails: holes are ordered and joined, and around an area
\* that can be given back there is room for it.
THEOREM HeapIsValid == Spec => []Validated
BY InvHolds, InvValidates, PTL

-----------------------------------------------------------------------------
(* The place chosen is the best there is                                   *)

\* Rounding down gives the greatest multiple that is not above.
LEMMA Multiple ==
  ASSUME NEW a \in Nat \ {0}, NEW x \in Nat
  PROVE  /\ ((x \div a) * a) % a = 0
         /\ \A o \in Nat : o % a = 0 /\ o <= x => o <= (x \div a) * a
<1>1. x \div a \in Nat OBVIOUS
<1>2. \A n \in Nat : (n * a) % a = 0 OBVIOUS
<1>3. ASSUME NEW o \in Nat, o % a = 0, o <= x PROVE o <= (x \div a) * a
  <2>1. o = (o \div a) * a BY <1>3
  <2>2. o \div a <= x \div a BY <1>3
  <2>3. \A m, n \in Nat : m <= n => m * a <= n * a OBVIOUS
  <2> QED BY <2>1, <2>2, <2>3, <1>1
<1> QED BY <1>1, <1>2, <1>3

\* Padding gives the least multiple that is not below.
LEMMA Padding ==
  ASSUME NEW a \in Nat \ {0}, NEW x \in Nat
  PROVE  /\ PadUp(x, a) \in Nat /\ (x + PadUp(x, a)) % a = 0
         /\ \A o \in Nat : o % a = 0 /\ x <= o => x + PadUp(x, a) <= o
<1>1. PadUp(x, a) \in Nat BY DEF PadUp
<1> DEFINE k == x \div a
<1>2. k \in Nat /\ x % a \in Nat /\ x = k * a + (x % a) /\ x % a < a OBVIOUS
<1> HIDE DEF k
<1>3. (k + 1) * a = k * a + a /\ k * a \in Nat BY <1>2
<1>4. x + PadUp(x, a) = IF x % a = 0 THEN x ELSE (k + 1) * a
  BY <1>2, <1>3 DEF PadUp
<1>5. \A n \in Nat : (n * a) % a = 0 OBVIOUS
<1>6. (x + PadUp(x, a)) % a = 0 BY <1>2, <1>4, <1>5
<1>7. ASSUME NEW o \in Nat, o % a = 0, x <= o PROVE x + PadUp(x, a) <= o
  <2>1. CASE x % a = 0 BY <2>1, <1>4, <1>7
  <2>2. CASE x % a # 0
    <3>1. PICK j \in Nat : o = j * a
      <4>1. o \div a \in Nat /\ o = (o \div a) * a BY <1>7
      <4> QED BY <4>1
    <3>2. \A m, n \in Nat : m <= n => m * a <= n * a OBVIOUS
    <3>3. ~(j <= k)
      <4>1. k * a < x BY <2>2, <1>2, <1>3
      <4>2. j <= k => j * a <= k * a BY <3>2, <1>2
      <4>3. j * a \in Nat OBVIOUS
      <4> QED BY <4>1, <4>2, <4>3, <3>1, <1>3, <1>7
    <3>4. k + 1 <= j /\ k + 1 \in Nat BY <3>3, <1>2
    <3>5. (k + 1) * a <= j * a BY <3>2, <3>4
    <3> QED BY <3>5, <3>1, <2>2, <1>4
  <2> QED BY <2>1, <2>2
<1> QED BY <1>1, <1>6, <1>7

\* Free addresses in a row are in one hole.
LEMMA InOneHole ==
  ASSUME WellFormed(holes), NEW o \in Nat, NEW s \in Nat \ {0}, o..o + s - 1 \subseteq FreeAddresses
  PROVE  \E i \in 1..Len(holes) : holes[i].offset <= o /\ o + s <= HoleEnd(holes[i])
<1>1. /\ Len(holes) \in Nat /\ holes \in Seq(HoleT)
      /\ \A i \in 1..Len(holes) :
           /\ holes[i].offset \in Nat /\ HoleEnd(holes[i]) \in Nat
           /\ \A x : x \in HoleArea(holes[i]) <=>
                       x \in Int /\ holes[i].offset <= x /\ x < HoleEnd(holes[i])
      /\ \A i, j \in 1..Len(holes) : i < j => HoleEnd(holes[j]) < holes[i].offset
  BY HoleNumbers DEF WellFormed, Sorted
<1>2. \A x : x \in FreeAddresses <=> \E j \in 1..Len(holes) : x \in HoleArea(holes[j])
  BY <1>1, CoversIs DEF Covers, FreeAddresses
<1>3. PICK i \in 1..Len(holes) : o \in HoleArea(holes[i])
  <2>1. o \in o..o + s - 1 OBVIOUS
  <2> QED BY <2>1, <1>2
<1>4. holes[i].offset <= o /\ o < HoleEnd(holes[i]) BY <1>1, <1>3
<1>5. ASSUME ~(o + s <= HoleEnd(holes[i])) PROVE FALSE
  <2> DEFINE x == HoleEnd(holes[i])
  <2>1. x \in o..o + s - 1 BY <1>1, <1>4, <1>5
  <2>2. PICK j \in 1..Len(holes) : x \in HoleArea(holes[j]) BY <2>1, <1>2
  <2>3. holes[j].offset <= x /\ x < HoleEnd(holes[j]) BY <2>2, <1>1
  <2>4. i # j BY <2>3, <1>1
  <2>5. HoleEnd(holes[j]) < holes[i].offset \/ HoleEnd(holes[i]) < holes[j].offset BY <2>4, <1>1
  <2> QED BY <2>3, <2>5, <1>1, <1>4
<1> QED BY <1>4, <1>5

\* The place in a hole is aligned, and the highest (lowest) there is in it.
LEMMA BestInHole ==
  ASSUME NEW h \in HoleT, NEW s \in Nat \ {0}, NEW a \in Nat \ {0}, NEW strategy
  PROVE  /\ Fits(h, s, a, strategy) => Place(h, s, a, strategy) % a = 0
         /\ \A o \in Nat : o % a = 0 /\ h.offset <= o /\ o + s <= HoleEnd(h) =>
              /\ Fits(h, s, a, strategy)
              /\ IF strategy = "HIGH_TO_LOW" THEN o <= Place(h, s, a, strategy)
                                             ELSE Place(h, s, a, strategy) <= o
<1>1. /\ h.offset \in Nat /\ h.size \in Nat /\ HoleEnd(h) = h.offset + h.size
  BY HoleNumbers
<1>2. CASE strategy = "HIGH_TO_LOW"
  <2> DEFINE x == HoleEnd(h) - s
  <2>1. Place(h, s, a, strategy) = (x \div a) * a /\ PlaceFromAbove(h, s, a) = (x \div a) * a
    BY <1>2 DEF Place, PlaceFromAbove
  <2>2. \A o \in Nat : h.offset <= o /\ o + s <= HoleEnd(h) => x \in Nat /\ o <= x /\ s <= h.size
    BY <1>1
  <2>3. s <= h.size => x \in Nat BY <1>1
  <2>4. Fits(h, s, a, strategy) <=> s <= h.size /\ (x \div a) * a >= h.offset
    BY <1>2, <2>1 DEF Fits
  <2> HIDE DEF x
  <2>5. Fits(h, s, a, strategy) => Place(h, s, a, strategy) % a = 0
    BY <2>1, <2>3, <2>4, Multiple
  <2>6. ASSUME NEW o \in Nat, o % a = 0, h.offset <= o, o + s <= HoleEnd(h)
        PROVE  Fits(h, s, a, strategy) /\ o <= Place(h, s, a, strategy)
    <3>1. x \in Nat /\ o <= x /\ s <= h.size BY <2>2, <2>6
    <3>2. o <= (x \div a) * a BY <3>1, <2>6, Multiple
    <3>3. (x \div a) * a \in Nat BY <3>1, DivBelow
    <3> QED BY <3>1, <3>2, <3>3, <2>1, <2>4, <2>6, <1>1
  <2> QED BY <2>5, <2>6, <1>2
<1>3. CASE strategy # "HIGH_TO_LOW"
  <2>1. Place(h, s, a, strategy) = h.offset + PadUp(h.offset, a) BY <1>3 DEF Place
  <2>2. Fits(h, s, a, strategy) <=> s <= h.size /\ PadUp(h.offset, a) <= h.size - s
    BY <1>3 DEF Fits
  <2>3. Place(h, s, a, strategy) % a = 0 BY <2>1, <1>1, Padding
  <2>4. ASSUME NEW o \in Nat, o % a = 0, h.offset <= o, o + s <= HoleEnd(h)
        PROVE  Fits(h, s, a, strategy) /\ Place(h, s, a, strategy) <= o
    <3>1. PadUp(h.offset, a) \in Nat /\ h.offset + PadUp(h.offset, a) <= o
      BY <2>4, <1>1, Padding
    <3> QED BY <3>1, <2>1, <2>2, <2>4, <1>1
  <2> QED BY <2>3, <2>4, <1>3
<1> QED BY <1>2, <1>3

\* A least element is the minimum.
LEMMA MinIs ==
  ASSUME NEW T, T \subseteq Nat, NEW m \in T, \A y \in T : m <= y PROVE Min(T) = m
<1>1. Min(T) \in T /\ \A y \in T : Min(T) <= y BY DEF Min
<1>2. Min(T) <= m /\ m <= Min(T) /\ m \in Nat /\ Min(T) \in Nat BY <1>1
<1> QED BY <1>2

\* A greatest element is the maximum.
LEMMA MaxIs ==
  ASSUME NEW T, T \subseteq Nat, NEW m \in T, \A y \in T : m >= y PROVE Max(T) = m
<1>1. Max(T) \in T /\ \A y \in T : Max(T) >= y BY DEF Max
<1>2. Max(T) >= m /\ m >= Max(T) /\ m \in Nat /\ Max(T) \in Nat BY <1>1
<1> QED BY <1>2

\* The first (last) candidate of the list.
LEMMA ChoiceIsFirst ==
  ASSUME WellFormed(holes), NEW s, NEW a, NEW strategy, NEW j \in Candidates(s, a, strategy)
  PROVE  /\ strategy = "HIGH_TO_LOW" => Choice(s, a, strategy) <= j
         /\ strategy # "HIGH_TO_LOW" => Choice(s, a, strategy) >= j
<1> DEFINE T == Candidates(s, a, strategy)
<1>1. Len(holes) \in Nat /\ T \subseteq 1..Len(holes) /\ T # {} BY DEF WellFormed, Candidates
<1>2. T \subseteq Nat BY <1>1
<1> HIDE DEF T
<1>3. \A y \in T : Min(T) <= y BY <1>1, <1>2, Least DEF Min
<1>4. \A y \in T : Max(T) >= y BY <1>1, Greatest DEF Max
<1> QED BY <1>3, <1>4 DEF Choice, T

\* The choice of the hole and the place in it give the best place of all.
LEMMA InvPlacesBest == AllocatorInv => PlacesBest
<1> SUFFICES ASSUME AllocatorInv, NEW s \in Sizes, NEW a \in Alignments, NEW strategy \in Strategies
             PROVE  LET fitting == {o \in Offsets : o % a = 0 /\ o..o + s - 1 \subseteq FreeAddresses}
                    IN /\ fitting = {} <=> Candidates(s, a, strategy) = {}
                       /\ fitting # {} =>
                            Place(holes[Choice(s, a, strategy)], s, a, strategy) =
                              IF strategy = "HIGH_TO_LOW" THEN Max(fitting) ELSE Min(fitting)
  BY DEF PlacesBest
<1> DEFINE F == {o \in Offsets : o % a = 0 /\ o..o + s - 1 \subseteq FreeAddresses}
           C == Candidates(s, a, strategy)
           c == Choice(s, a, strategy)
           P(i) == Place(holes[i], s, a, strategy)
<1>1. /\ WellFormed(holes) /\ s \in Nat \ {0} /\ a \in Nat \ {0} /\ Offsets \subseteq Nat
      /\ Len(holes) \in Nat /\ DOMAIN holes = 1..Len(holes)
      /\ \A i \in 1..Len(holes) : holes[i] \in HoleT /\ holes[i].offset \in Nat
                                   /\ HoleEnd(holes[i]) \in Nat
      /\ \A i, j \in 1..Len(holes) : i < j => HoleEnd(holes[j]) < holes[i].offset
  BY SimpleAllocatorAssumption, HoleNumbers
  DEF AllocatorInv, WellFormed, Sorted, Offsets, SimpleAllocatorAssumption
<1>2. \A i : i \in C <=> i \in 1..Len(holes) /\ Fits(holes[i], s, a, strategy)
  BY <1>1 DEF Candidates
<1> HIDE DEF C
<1>3. ASSUME NEW i \in C
      PROVE  /\ P(i) \in F /\ P(i) \in Nat
             /\ holes[i].offset <= P(i) /\ P(i) + s <= HoleEnd(holes[i])
  <2>1. i \in 1..Len(holes) /\ Fits(holes[i], s, a, strategy) BY <1>2
  <2>2. P(i) \in Nat /\ holes[i].offset <= P(i) /\ P(i) + s <= HoleEnd(holes[i])
    BY <2>1, <1>1, PlaceInside
  <2>3. P(i) % a = 0 BY <2>1, <1>1, BestInHole
  <2> HIDE DEF P
  <2>4. P(i) \in Offsets /\ P(i)..P(i) + s - 1 \subseteq FreeAddresses
    BY <2>1, <2>2, <1>1, AllocKeeps
  <2> QED BY <2>2, <2>3, <2>4
<1>4. ASSUME NEW o \in F
      PROVE  \E j \in C : /\ o \in Nat /\ holes[j].offset <= o /\ o + s <= HoleEnd(holes[j])
                          /\ IF strategy = "HIGH_TO_LOW" THEN o <= P(j) ELSE P(j) <= o
  <2>1. o \in Nat BY <1>1
  <2>2. PICK j \in 1..Len(holes) : holes[j].offset <= o /\ o + s <= HoleEnd(holes[j])
    BY <2>1, <1>1, InOneHole
  <2>3. /\ Fits(holes[j], s, a, strategy)
        /\ IF strategy = "HIGH_TO_LOW" THEN o <= P(j) ELSE P(j) <= o
    BY <2>1, <2>2, <1>1, BestInHole
  <2> QED BY <2>1, <2>2, <2>3, <1>2
<1>5. F = {} <=> C = {} BY <1>3, <1>4
<1>6. F \subseteq Nat BY <1>1
<1> HIDE DEF F, P
<1>7. ASSUME F # {}
      PROVE  P(c) = IF strategy = "HIGH_TO_LOW" THEN Max(F) ELSE Min(F)
  <2>1. c \in C BY <1>1, <1>2, <1>5, <1>7, ChoiceFits DEF C
  <2>2. P(c) \in F /\ P(c) \in Nat /\ holes[c].offset <= P(c) /\ P(c) + s <= HoleEnd(holes[c])
    BY <2>1, <1>3
  <2>3. c \in 1..Len(holes) BY <2>1, <1>2
  <2>4. \A j \in C : /\ strategy = "HIGH_TO_LOW" => c <= j
                     /\ strategy # "HIGH_TO_LOW" => c >= j
    BY <1>1, ChoiceIsFirst DEF C
  <2> HIDE DEF c
  <2>5. CASE strategy = "HIGH_TO_LOW"
    <3>1. ASSUME NEW o \in F PROVE P(c) >= o
      <4>1. PICK j \in C : /\ o \in Nat /\ o + s <= HoleEnd(holes[j]) /\ o <= P(j)
        BY <1>4, <2>5
      <4>2. j \in 1..Len(holes) /\ c <= j BY <4>1, <1>2, <2>4, <2>5
      <4>3. CASE j = c BY <4>1, <4>3, <2>2
      <4>4. CASE j # c
        <5>1. HoleEnd(holes[j]) < holes[c].offset BY <4>2, <4>4, <2>3, <1>1
        <5>2. HoleEnd(holes[j]) \in Nat /\ holes[c].offset \in Nat BY <4>2, <2>3, <1>1
        <5> QED BY <5>1, <5>2, <4>1, <2>2, <1>1
      <4> QED BY <4>3, <4>4
    <3>2. Max(F) = P(c) BY <3>1, <2>2, <1>6, MaxIs
    <3> QED BY <3>2, <2>5
  <2>6. CASE strategy # "HIGH_TO_LOW"
    <3>1. ASSUME NEW o \in F PROVE P(c) <= o
      <4>1. PICK j \in C : /\ o \in Nat /\ holes[j].offset <= o /\ P(j) <= o
        BY <1>4, <2>6
      <4>2. j \in 1..Len(holes) /\ c >= j BY <4>1, <1>2, <2>4, <2>6
      <4>3. CASE j = c BY <4>1, <4>3, <2>2
      <4>4. CASE j # c
        <5>1. HoleEnd(holes[c]) < holes[j].offset BY <4>2, <4>4, <2>3, <1>1
        <5>2. HoleEnd(holes[c]) \in Nat /\ holes[j].offset \in Nat BY <4>2, <2>3, <1>1
        <5> QED BY <5>1, <5>2, <4>1, <2>2, <1>1
      <4> QED BY <4>3, <4>4
    <3>2. Min(F) = P(c) BY <3>1, <2>2, <1>6, MinIs
    <3> QED BY <3>2, <2>6
  <2> QED BY <2>5, <2>6
<1> QED BY <1>5, <1>7 DEF F, C, P, c

\* An allocation fails only if no aligned area of its size is free, and gets the
\* topmost (or lowest) one otherwise, whatever holes there are.
THEOREM BestIsPlaced == Spec => []PlacesBest
BY InvHolds, InvPlacesBest, PTL

-----------------------------------------------------------------------------
(***************************************************************************)
(* Sums.  What a function of natural numbers sums up to is how many units  *)
(* there are; units of areas that are apart are their addresses.           *)
(***************************************************************************)

\* Units are pairs.
LEMMA UnitsAre ==
  ASSUME NEW S, NEW f \in [S -> Nat]
  PROVE  \A u : u \in Units(f) <=> \E x \in S : \E n \in 1..f[x] : u = <<x, n>>
BY DEF Units

\* The units of one element more.
LEMMA UnitsAdd ==
  ASSUME NEW S, NEW f \in [S -> Nat], IsFiniteSet(Units(f)),
         NEW x, x \notin S, NEW g \in [S \cup {x} -> Nat], \A y \in S : g[y] = f[y]
  PROVE  IsFiniteSet(Units(g)) /\ Sum(g) = Sum(f) + g[x]
<1> DEFINE V == {x} \X (1..g[x])
<1>1. Units(g) = Units(f) \cup V
  <2>1. \A u : u \in Units(g) <=> \E y \in S \cup {x} : \E n \in 1..g[y] : u = <<y, n>> BY UnitsAre
  <2>2. \A u : u \in Units(f) <=> \E y \in S : \E n \in 1..f[y] : u = <<y, n>> BY UnitsAre
  <2>3. \A u : u \in V <=> \E n \in 1..g[x] : u = <<x, n>> OBVIOUS
  <2> HIDE DEF V
  <2>4. \A u : u \in Units(g) <=> u \in Units(f) \/ u \in V BY <2>1, <2>2, <2>3
  <2> QED BY <2>4
<1>2. Units(f) \cap V = {}
  <2>1. \A u \in V : u[1] = x OBVIOUS
  <2>2. \A u \in Units(f) : u[1] \in S BY UnitsAre
  <2> QED BY <2>1, <2>2
<1>3. IsFiniteSet(V) /\ Cardinality(V) = g[x]
  <2>1. g[x] \in Nat OBVIOUS
  <2>2. IsFiniteSet(1..g[x]) /\ Cardinality(1..g[x]) = g[x] BY <2>1, FS_Interval
  <2>3. IsFiniteSet({x}) /\ Cardinality({x}) = 1 BY FS_Singleton
  <2>4. IsFiniteSet(V) /\ Cardinality(V) = Cardinality({x}) * Cardinality(1..g[x]) BY <2>2, <2>3, FS_Product
  <2> QED BY <2>1, <2>2, <2>3, <2>4
<1> HIDE DEF V
<1>4. Cardinality(Units(f)) \in Nat /\ g[x] \in Nat BY FS_CardinalityType
<1>5. /\ IsFiniteSet(Units(g))
      /\ Cardinality(Units(g)) = Cardinality(Units(f)) + Cardinality(V) - Cardinality(Units(f) \cap V)
  BY <1>1, <1>3, FS_Union
<1>6. Cardinality(Units(f) \cap V) = 0 BY <1>2, FS_EmptySet
<1> QED BY <1>3, <1>4, <1>5, <1>6 DEF Sum

\* Areas that are apart have as many addresses as units.
LEMMA UnitsCount ==
  ASSUME NEW S, NEW f \in [S -> Nat], NEW g \in [S -> Nat], NEW B, IsFiniteSet(B),
         \A x \in S : g[x]..g[x] + f[x] - 1 \subseteq B,
         \A x, y \in S : x # y => \A o \in g[x]..g[x] + f[x] - 1 : o \notin g[y]..g[y] + f[y] - 1
  PROVE  IsFiniteSet(Units(f)) /\ Sum(f) = Cardinality(UNION {g[x]..g[x] + f[x] - 1 : x \in S})
<1> DEFINE C == UNION {g[x]..g[x] + f[x] - 1 : x \in S}
           h == [u \in Units(f) |-> g[u[1]] + u[2] - 1]
<1>1. IsFiniteSet(C)
  <2>1. C \subseteq B OBVIOUS
  <2> QED BY <2>1, FS_Subset
<1>2. ASSUME NEW u \in Units(f)
      PROVE  /\ u[1] \in S /\ u[2] \in 1..f[u[1]] /\ u = <<u[1], u[2]>>
             /\ g[u[1]] \in Nat /\ f[u[1]] \in Nat /\ h[u] = g[u[1]] + u[2] - 1
             /\ h[u] \in g[u[1]]..g[u[1]] + f[u[1]] - 1
  <2>1. PICK x \in S : \E n \in 1..f[x] : u = <<x, n>> BY UnitsAre
  <2>2. PICK n \in 1..f[x] : u = <<x, n>> BY <2>1
  <2> QED BY <2>2
<1>3. h \in [Units(f) -> C]
  <2>1. \A u \in Units(f) : h[u] \in C BY <1>2
  <2> QED BY <2>1
<1>4. ASSUME NEW u \in Units(f), NEW v \in Units(f), h[u] = h[v] PROVE u = v
  <2>1. u[1] = v[1] BY <1>2, <1>4
  <2>2. u[2] = v[2] BY <1>2, <1>4, <2>1
  <2> QED BY <1>2, <2>1, <2>2
<1>5. ASSUME NEW c \in C PROVE \E u \in Units(f) : h[u] = c
  <2>1. PICK x \in S : c \in g[x]..g[x] + f[x] - 1 OBVIOUS
  <2>2. g[x] \in Nat /\ f[x] \in Nat OBVIOUS
  <2>3. c - g[x] + 1 \in 1..f[x] BY <2>1, <2>2
  <2>4. <<x, c - g[x] + 1>> \in Units(f) BY <2>3, UnitsAre
  <2>5. h[<<x, c - g[x] + 1>>] = c BY <2>1, <2>2, <2>4
  <2> QED BY <2>4, <2>5
<1> HIDE DEF h, C
<1>6. h \in Injection(Units(f), C) BY <1>3, <1>4 DEF Injection, IsInjective
<1>7. h \in Surjection(Units(f), C) BY <1>3, <1>5 DEF Surjection
<1>8. IsFiniteSet(Units(f)) /\ Cardinality(Units(f)) = Cardinality(C) BY <1>1, <1>6, <1>7, FS_Injection
<1> QED BY <1>8 DEF Sum, C
-----------------------------------------------------------------------------
(***************************************************************************)
(* Accounts.  The statistics count the records and their sizes, and every  *)
(* address is free or of a record: so what is not in a record is in a hole.*)
(***************************************************************************)
Sizing(S) == [r \in S |-> r.size]

Counted(S, size, count) ==
  /\ IsFiniteSet(S) /\ IsFiniteSet(Units(Sizing(S)))
  /\ size = SizeOf(S) /\ count = Cardinality(S)

Covered == \A x \in Offsets : x \in FreeAddresses \/ \E t \in Taken : x \in Space!Area(t)

AccountsInv ==
  /\ AllocatorInv /\ Covered
  /\ Counted(objects, allocated_size, allocated_objects)
  /\ Counted(reserved, reserved_size, reserved_areas)

\* Sizes are natural numbers.
LEMMA SizingIs ==
  ASSUME NEW S, S \subseteq Areas
  PROVE  Sizing(S) \in [S -> Nat] /\ SizeOf(S) = Sum(Sizing(S))
BY SimpleAllocatorAssumption DEF Sizing, SizeOf, Areas, SimpleAllocatorAssumption

\* Nothing is counted of no records.
LEMMA CountedNone == Counted({}, 0, 0)
<1>1. Units(Sizing({})) = {} BY DEF Units, Sizing
<1>2. SizeOf({}) = Cardinality(Units(Sizing({}))) BY DEF SizeOf, Sum, Sizing
<1> QED BY <1>1, <1>2, FS_EmptySet DEF Counted

\* A record that is new is counted once.
LEMMA CountedAdd ==
  ASSUME NEW S, S \subseteq Areas, NEW r \in Areas, r \notin S, NEW n, NEW c, Counted(S, n, c)
  PROVE  Counted(S \cup {r}, n + r.size, c + 1)
<1> DEFINE f == Sizing(S)
           g == Sizing(S \cup {r})
<1>1. f \in [S -> Nat] /\ g \in [S \cup {r} -> Nat] /\ SizeOf(S) = Sum(f) /\ SizeOf(S \cup {r}) = Sum(g)
  BY SizingIs
<1>2. IsFiniteSet(S) /\ IsFiniteSet(Units(f)) /\ n = SizeOf(S) /\ c = Cardinality(S)
  BY DEF Counted
<1>3. (\A y \in S : g[y] = f[y]) /\ g[r] = r.size BY DEF Sizing
<1> HIDE DEF f, g
<1>4. IsFiniteSet(Units(g)) /\ Sum(g) = Sum(f) + g[r]
  BY <1>1, <1>2, <1>3, UnitsAdd
<1>5. IsFiniteSet(S \cup {r}) /\ Cardinality(S \cup {r}) = Cardinality(S) + 1
  BY <1>2, FS_AddElement
<1> QED BY <1>1, <1>2, <1>3, <1>4, <1>5 DEF Counted, g

\* A record that is removed is no longer counted.
LEMMA CountedRemove ==
  ASSUME NEW S, S \subseteq Areas, NEW r \in S, NEW n, NEW c, Counted(S, n, c)
  PROVE  Counted(S \ {r}, n - r.size, c - 1)
<1> DEFINE R == S \ {r}
           f == Sizing(R)
           g == Sizing(S)
<1>0. R \subseteq Areas /\ r \notin R /\ S = R \cup {r} OBVIOUS
<1>1. f \in [R -> Nat] /\ g \in [R \cup {r} -> Nat] /\ SizeOf(R) = Sum(f) /\ SizeOf(S) = Sum(g)
  BY <1>0, SizingIs
<1>2. IsFiniteSet(S) /\ IsFiniteSet(Units(g)) /\ n = SizeOf(S) /\ c = Cardinality(S)
  BY DEF Counted
<1>3. (\A y \in R : g[y] = f[y]) /\ g[r] = r.size BY DEF Sizing
<1>5. IsFiniteSet(R) /\ Cardinality(R) = Cardinality(S) - 1
  BY <1>2, FS_RemoveElement
<1> HIDE DEF f, g, R
<1>6. IsFiniteSet(Units(f))
  <2>1. \A u \in Units(f) : \E y \in R : \E k \in 1..f[y] : u = <<y, k>> BY <1>1, UnitsAre
  <2>2. \A u : (\E y \in R \cup {r} : \E k \in 1..g[y] : u = <<y, k>>) => u \in Units(g)
    BY <1>1, UnitsAre
  <2>3. Units(f) \subseteq Units(g) BY <2>1, <2>2, <1>3
  <2> QED BY <2>3, <1>2, FS_Subset
<1>4. IsFiniteSet(Units(g)) /\ Sum(g) = Sum(f) + g[r]
  BY <1>0, <1>1, <1>6, <1>3, UnitsAdd
<1>7. Sum(f) \in Nat /\ g[r] \in Nat BY <1>1, <1>6, FS_CardinalityType DEF Sum
<1>8. SizeOf(R) = n - r.size BY <1>1, <1>2, <1>3, <1>4, <1>7
<1> QED BY <1>2, <1>5, <1>6, <1>8 DEF Counted, R, f

\* Every step of the address space keeps all of its addresses accounted for.
LEMMA CoveredNext == Covered /\ [Space!Next]_(Space!vars) => Covered'
<1> SUFFICES ASSUME Covered, [Space!Next]_(Space!vars) PROVE Covered' OBVIOUS
<1>1. ASSUME NEW t \in Taken', Space!Take(t) PROVE Covered'
  BY <1>1 DEF Covered, Space!Take
<1>2. ASSUME NEW t \in Taken, Space!Release(t) PROVE Covered'
  BY <1>2 DEF Covered, Space!Release
<1>3. CASE UNCHANGED Space!vars
  BY <1>3 DEF Covered, Space!vars
<1> QED BY <1>1, <1>2, <1>3 DEF Space!Next

\* The statistics begin with nothing.
LEMMA AccountsInit == Init => AccountsInv
<1> SUFFICES ASSUME Init PROVE AccountsInv OBVIOUS
<1>1. AllocatorInv /\ Space!Init BY InvInit
<1>2. Covered BY <1>1 DEF Covered, Space!Init
<1> QED BY <1>1, <1>2, CountedNone DEF AccountsInv, Init

\* Every step keeps the statistics.
LEMMA AccountsNext == AccountsInv /\ [Next]_vars => AccountsInv'
<1> SUFFICES ASSUME AccountsInv, [Next]_vars PROVE AccountsInv' OBVIOUS
<1> DEFINE CO == Counted(objects, allocated_size, allocated_objects)
           CR == Counted(reserved, reserved_size, reserved_areas)
<1>0. AllocatorInv /\ Covered /\ CO /\ CR BY DEF AccountsInv
<1>a. AllocatorInv' /\ [Space!Next]_(Space!vars) BY <1>0, InvNext
<1>b. Covered' BY <1>0, <1>a, CoveredNext
<1>c. objects \subseteq Areas /\ reserved \subseteq Areas /\ objects' \subseteq Areas /\ reserved' \subseteq Areas
  BY <1>0, <1>a DEF AllocatorInv, RecordsApart
<1>1. ASSUME UNCHANGED <<objects, allocated_size, allocated_objects>> PROVE CO'
  BY <1>1, <1>0
<1>2. ASSUME UNCHANGED <<reserved, reserved_size, reserved_areas>> PROVE CR'
  BY <1>2, <1>0
<1>3. CASE UNCHANGED vars BY <1>3, <1>1, <1>2, <1>a, <1>b DEF vars, stats, AccountsInv
<1>4. ASSUME NEW handle \in Handles, NEW s \in Sizes, AllocAgain(handle, s) PROVE CO' /\ CR'
  BY <1>4, <1>1, <1>2 DEF AllocAgain, vars, stats
<1>5. ASSUME NEW handle \in Handles, NEW s \in Sizes, NEW a \in Alignments, NEW strategy,
             AllocFails(handle, s, a, strategy)
      PROVE  CO' /\ CR'
  BY <1>5, <1>1, <1>2 DEF AllocFails, vars, stats
<1>6. ASSUME NEW handle \in Handles, NEW s \in Sizes, NEW a \in Alignments, NEW strategy,
             Alloc(handle, s, a, strategy)
      PROVE  CO' /\ CR'
  <2>1. PICK o : objects' = objects \cup {[handle |-> handle, offset |-> o, size |-> s]}
    BY <1>6 DEF Alloc
  <2> DEFINE r == [handle |-> handle, offset |-> o, size |-> s]
  <2>2. r.handle = handle /\ r.size = s OBVIOUS
  <2>3. r \notin objects BY <1>6, <2>2 DEF Alloc, ObjectsOf
  <2>4. objects' = objects \cup {r} BY <2>1
  <2> HIDE DEF r
  <2>5. r \in Areas BY <2>4, <1>c
  <2>6. Counted(objects \cup {r}, allocated_size + r.size, allocated_objects + 1)
    BY <1>0, <1>c, <2>3, <2>5, CountedAdd
  <2>7. allocated_size' = allocated_size + s /\ allocated_objects' = allocated_objects + 1
    BY <1>6 DEF Alloc
  <2>8. CO' BY <2>2, <2>4, <2>6, <2>7
  <2>9. CR' BY <1>6, <1>2 DEF Alloc
  <2> QED BY <2>8, <2>9
<1>7. ASSUME NEW handle \in Handles, Free(handle) PROVE CO' /\ CR'
  <2>1. PICK r \in objects : /\ objects' = objects \ {r}
                             /\ allocated_objects' = allocated_objects - 1
                             /\ allocated_size' = allocated_size - r.size
                             /\ UNCHANGED <<reserved, reserved_size, reserved_areas>>
    BY <1>7 DEF Free, ObjectsOf
  <2>2. Counted(objects \ {r}, allocated_size - r.size, allocated_objects - 1)
    BY <1>0, <1>c, CountedRemove
  <2> QED BY <2>1, <2>2, <1>2
<1>8. ASSUME NEW handle \in Handles, NEW s \in Sizes, NEW start \in Forms,
             Reserve(handle, start, start + s)
      PROVE  CO' /\ CR'
  <2> DEFINE o == Decanonical(start)
             n == AreaSize(start, start + s)
             r == [handle |-> handle, offset |-> o, size |-> n]
  <2>1. o \in Nat /\ n \in Nat \ {0}
    <3>1. start \in Nat /\ start + s \in Nat
      BY SimpleAllocatorAssumption DEF Forms, Offsets, SimpleAllocatorAssumption
    <3> QED BY <1>8, <3>1, SimpleAllocatorAssumption
            DEF Reserve, Acceptable, AreaSize, Decanonical, SimpleAllocatorAssumption
  <2>2. CO' BY <1>8, <1>1 DEF Reserve
  <2>3. CASE ~FitsAt(o, n) BY <2>2, <2>3, <1>8, <1>2 DEF Reserve
  <2>4. CASE FitsAt(o, n)
    <3>1. /\ reserved' = {t \in reserved : t.offset # o} \cup {r}
          /\ reserved_areas' = reserved_areas + 1 /\ reserved_size' = reserved_size + n
      BY <1>8, <2>4 DEF Reserve
    <3> HIDE DEF o, n
    <3>2. \A t \in reserved : t.offset # o BY <1>0, <2>1, <2>4, ReservedElsewhere
    <3>3. reserved' = reserved \cup {r} BY <3>1, <3>2
    <3>4. r.offset = o /\ r.size = n OBVIOUS
    <3> HIDE DEF r
    <3>5. r \notin reserved /\ r \in Areas BY <3>2, <3>3, <3>4, <1>c
    <3>6. Counted(reserved \cup {r}, reserved_size + r.size, reserved_areas + 1)
      BY <1>0, <1>c, <3>5, CountedAdd
    <3> QED BY <2>2, <3>1, <3>3, <3>4, <3>6
  <2> QED BY <2>3, <2>4
<1>9. ASSUME NEW handle \in Handles, NEW s \in Sizes, NEW start \in Forms,
             Unreserve(handle, start, start + s)
      PROVE  CO' /\ CR'
  <2>1. PICK r \in reserved : /\ reserved' = reserved \ {r}
                              /\ reserved_areas' = reserved_areas - 1
                              /\ reserved_size' = reserved_size - r.size
    BY <1>9 DEF Unreserve
  <2>2. Counted(reserved \ {r}, reserved_size - r.size, reserved_areas - 1)
    BY <1>0, <1>c, CountedRemove
  <2>3. CR' BY <2>1, <2>2
  <2>4. CO' BY <1>9, <1>1 DEF Unreserve
  <2> QED BY <2>3, <2>4
<1> HIDE DEF CO, CR
<1>10. CASE Next BY <1>10, <1>4, <1>5, <1>6, <1>7, <1>8, <1>9, <1>a, <1>b DEF Next, AccountsInv, CO, CR
<1> QED BY <1>3, <1>10

\* Records of one kind take as many addresses as their sizes sum up to.
AddressesOf(S) == UNION {r.offset..r.offset + r.size - 1 : r \in S}

LEMMA RecordsCount ==
  ASSUME AllocatorInv, NEW k, NEW S, S \subseteq Areas, \A r \in S : <<k, r>> \in Taken
  PROVE  SizeOf(S) = Cardinality(AddressesOf(S)) /\ AddressesOf(S) \subseteq Offsets
<1> DEFINE f == Sizing(S)
           g == [r \in S |-> r.offset]
<1>1. f \in [S -> Nat] /\ SizeOf(S) = Sum(f) /\ \A r \in S : f[r] = r.size
  BY SizingIs DEF Sizing
<1>2. g \in [S -> Nat] /\ \A r \in S : g[r] = r.offset
  BY SimpleAllocatorAssumption DEF Areas, Offsets, SimpleAllocatorAssumption
<1> HIDE DEF f, g
<1>3. IsFiniteSet(Offsets) BY SimpleAllocatorAssumption, FS_Interval DEF Offsets, SimpleAllocatorAssumption
<1>4. ASSUME NEW r \in S PROVE r.offset..r.offset + r.size - 1 \subseteq Offsets
  <2>1. <<k, r>> \in Taken /\ <<k, r>>[2] = r BY AreaIs
  <2>2. r.offset + r.size <= End BY <2>1 DEF AllocatorInv, RecordsApart
  <2>3. r.offset \in Offsets /\ r.size \in 1..End - Start BY DEF Areas
  <2> QED BY <2>2, <2>3, SimpleAllocatorAssumption DEF Offsets, SimpleAllocatorAssumption
<1>5. ASSUME NEW r \in S, NEW u \in S, r # u
      PROVE  \A x \in r.offset..r.offset + r.size - 1 : x \notin u.offset..u.offset + u.size - 1
  <2>1. <<k, r>> \in Taken /\ <<k, u>> \in Taken /\ <<k, r>> # <<k, u>> BY <1>5
  <2>2. \A x \in Space!Area(<<k, r>>) : x \notin Space!Area(<<k, u>>)
    BY <2>1 DEF AllocatorInv, RecordsApart
  <2> QED BY <2>2, AreaIs
<1>6. \A r \in S : g[r]..g[r] + f[r] - 1 \subseteq Offsets BY <1>1, <1>2, <1>4
<1>7. \A x, y \in S : x # y => \A z \in g[x]..g[x] + f[x] - 1 : z \notin g[y]..g[y] + f[y] - 1
  BY <1>1, <1>2, <1>5
<1>8. Sum(f) = Cardinality(UNION {g[r]..g[r] + f[r] - 1 : r \in S})
  BY <1>1, <1>2, <1>3, <1>6, <1>7, UnitsCount
<1>9. UNION {g[r]..g[r] + f[r] - 1 : r \in S} = AddressesOf(S) BY <1>1, <1>2 DEF AddressesOf
<1> QED BY <1>1, <1>4, <1>8, <1>9 DEF AddressesOf

\* Holes have as many addresses as their sizes sum up to.
LEMMA HolesCount ==
  ASSUME WellFormed(holes)
  PROVE  /\ Sum([i \in DOMAIN holes |-> holes[i].size]) = Cardinality(FreeAddresses)
         /\ FreeAddresses \subseteq Offsets
<1> DEFINE S == 1..Len(holes)
           f == [i \in S |-> holes[i].size]
           g == [i \in S |-> holes[i].offset]
<1>1. /\ DOMAIN holes = S /\ Len(holes) \in Nat
      /\ \A i \in S : /\ holes[i] \in HoleT /\ HoleEnd(holes[i]) <= End
      /\ \A i, j \in S : i < j => HoleEnd(holes[j]) < holes[i].offset
  BY DEF WellFormed, Within, Sorted
<1>2. \A i \in S : /\ holes[i].offset \in Nat /\ holes[i].size \in Nat /\ Start <= holes[i].offset
                   /\ HoleEnd(holes[i]) = holes[i].offset + holes[i].size
  BY <1>1, HoleNumbers
<1>3. f \in [S -> Nat] /\ g \in [S -> Nat] BY <1>2
<1>4. \A i \in S : f[i] = holes[i].size /\ g[i] = holes[i].offset
                   /\ HoleArea(holes[i]) = g[i]..g[i] + f[i] - 1
  BY <1>2 DEF HoleArea
<1>5. [i \in DOMAIN holes |-> holes[i].size] = f BY <1>1
<1> HIDE DEF f, g
<1>6. IsFiniteSet(Offsets) BY SimpleAllocatorAssumption, FS_Interval DEF Offsets, SimpleAllocatorAssumption
<1> HIDE DEF S
<1>7. ASSUME NEW i \in S PROVE g[i]..g[i] + f[i] - 1 \subseteq Offsets
  <2>1. g[i] \in Nat /\ f[i] \in Nat /\ Start <= g[i] /\ g[i] + f[i] <= End BY <1>1, <1>2, <1>4
  <2> QED BY <2>1, SimpleAllocatorAssumption DEF Offsets, SimpleAllocatorAssumption
<1>0. ASSUME NEW i \in S, NEW j \in S, i < j PROVE g[j] + f[j] < g[i] BY <1>0, <1>1, <1>2, <1>4
<1>8. \A i, j \in S : i # j => \A x \in g[i]..g[i] + f[i] - 1 : x \notin g[j]..g[j] + f[j] - 1
  <2> TAKE i, j \in S
  <2> HAVE i # j
  <2>1. i < j \/ j < i BY <1>1 DEF S
  <2>2. g[j] + f[j] < g[i] \/ g[i] + f[i] < g[j] BY <2>1, <1>0
  <2>3. g[i] \in Nat /\ f[i] \in Nat /\ g[j] \in Nat /\ f[j] \in Nat BY <1>3
  <2> QED BY <2>2, <2>3
<1>9. Sum(f) = Cardinality(UNION {g[i]..g[i] + f[i] - 1 : i \in S})
  BY <1>3, <1>6, <1>7, <1>8, UnitsCount
<1>10. UNION {g[i]..g[i] + f[i] - 1 : i \in S} = FreeAddresses BY <1>1, <1>4 DEF FreeAddresses
<1> QED BY <1>5, <1>7, <1>9, <1>10

\* What the asserts say follows from the invariant.
LEMMA InvAccounts == AccountsInv => Accounts
<1> SUFFICES ASSUME AccountsInv PROVE Accounts OBVIOUS
<1> DEFINE O == AddressesOf(objects)
           R == AddressesOf(reserved)
           F == FreeAddresses
<1>1. /\ AllocatorInv /\ Covered /\ WellFormed(holes)
      /\ objects \subseteq Areas /\ reserved \subseteq Areas
      /\ Counted(objects, allocated_size, allocated_objects)
      /\ Counted(reserved, reserved_size, reserved_areas)
  BY DEF AccountsInv, AllocatorInv, RecordsApart
<1>2. /\ \A r \in objects : <<"object", r>> \in Taken
      /\ \A r \in reserved : <<"reserved", r>> \in Taken
  BY TakenIs
<1>3. SizeOf(objects) = Cardinality(O) /\ O \subseteq Offsets BY <1>1, <1>2, RecordsCount
<1>4. SizeOf(reserved) = Cardinality(R) /\ R \subseteq Offsets BY <1>1, <1>2, RecordsCount
<1>5. Sum([i \in DOMAIN holes |-> holes[i].size]) = Cardinality(F) /\ F \subseteq Offsets
  BY <1>1, HolesCount
<1>6. Offsets = (O \cup R) \cup F
  <2>1. ASSUME NEW x \in Offsets, x \notin F PROVE x \in O \/ x \in R
    <3>1. PICK t \in Taken : x \in Space!Area(t) BY <1>1, <2>1 DEF Covered
    <3>2. CASE \E r \in objects : t = <<"object", r>> BY <3>1, <3>2, AreaIs DEF AddressesOf
    <3>3. CASE \E r \in reserved : t = <<"reserved", r>> BY <3>1, <3>3, AreaIs DEF AddressesOf
    <3> QED BY <3>2, <3>3, TakenIs
  <2> HIDE DEF O, R, F
  <2> QED BY <2>1, <1>3, <1>4, <1>5
<1>7. O \cap R = {}
  <2> SUFFICES ASSUME NEW x \in O, x \in R PROVE FALSE OBVIOUS
  <2>1. PICK r \in objects : x \in r.offset..r.offset + r.size - 1 BY DEF AddressesOf
  <2>2. PICK u \in reserved : x \in u.offset..u.offset + u.size - 1 BY DEF AddressesOf
  <2>3. <<"object", r>> # <<"reserved", u>> OBVIOUS
  <2>4. \A y \in Space!Area(<<"object", r>>) : y \notin Space!Area(<<"reserved", u>>)
    BY <1>1, <1>2, <2>3 DEF AllocatorInv, RecordsApart
  <2> QED BY <2>1, <2>2, <2>4, AreaIs
<1>8. (O \cup R) \cap F = {}
  <2>1. \A x \in O : x \notin F BY <1>1, <1>2, RecordNotFree DEF AddressesOf
  <2>2. \A x \in R : x \notin F BY <1>1, <1>2, RecordNotFree DEF AddressesOf
  <2> QED BY <2>1, <2>2
<1>9. IsFiniteSet(Offsets) /\ Cardinality(Offsets) = End - Start
  BY SimpleAllocatorAssumption, FS_Interval DEF Offsets, SimpleAllocatorAssumption
<1> HIDE DEF O, R, F
<1>10. IsFiniteSet(O) /\ IsFiniteSet(R) /\ IsFiniteSet(F) BY <1>3, <1>4, <1>5, <1>9, FS_Subset
<1>11. Cardinality(O) \in Nat /\ Cardinality(R) \in Nat /\ Cardinality(F) \in Nat
  BY <1>10, FS_CardinalityType
<1>12. IsFiniteSet(O \cup R) /\ Cardinality(O \cup R) = Cardinality(O) + Cardinality(R)
  BY <1>7, <1>10, <1>11, FS_Union, FS_EmptySet
<1>13. Cardinality(Offsets) = Cardinality(O \cup R) + Cardinality(F)
  <2>1. Cardinality(Offsets) = Cardinality(O \cup R) + Cardinality(F) - Cardinality((O \cup R) \cap F)
    BY <1>6, <1>10, <1>12, FS_Union
  <2>2. Cardinality((O \cup R) \cap F) = 0 BY <1>8, FS_EmptySet
  <2> QED BY <2>1, <2>2, <1>11, <1>12
<1>14. allocated_size = Cardinality(O) /\ reserved_size = Cardinality(R)
       /\ allocated_objects = Cardinality(objects) /\ reserved_areas = Cardinality(reserved)
       /\ IsFiniteSet(objects) /\ IsFiniteSet(reserved)
  BY <1>1, <1>3, <1>4 DEF Counted
<1>15. Sum([i \in DOMAIN holes |-> holes[i].size]) = (End - Start) - allocated_size - reserved_size
  <2>1. Cardinality(F) = (Cardinality(O) + Cardinality(R) + Cardinality(F)) - Cardinality(O) - Cardinality(R)
    BY <1>11
  <2> QED BY <2>1, <1>5, <1>9, <1>11, <1>12, <1>13, <1>14
<1>16. TypeOK
  <2>1. allocated_objects \in Nat /\ reserved_areas \in Nat BY <1>14, FS_CardinalityType
  <2>2. holes \in Seq([offset : Offsets, size : 1..End - Start]) BY <1>1 DEF WellFormed, HoleT
  <2> QED BY <2>1, <2>2, <1>1, <1>11, <1>14 DEF TypeOK
<1> QED BY <1>1, <1>14, <1>15, <1>16 DEF Accounts, Counted

\* The asserts of intel_allocator_simple_print() hold always, whatever is allocated,
\* reserved and given back: the statistics agree with the records, and the holes
\* have exactly the addresses that no record has.
THEOREM SpaceIsAccounted == Spec => []Accounts
<1>1. Spec => []AccountsInv BY AccountsInit, AccountsNext, PTL DEF Spec
<1> QED BY <1>1, InvAccounts, PTL
=============================================================================
