--------------------------- MODULE HashMapProofs ---------------------------
(***************************************************************************)
(* Theorems about the hash map for any keys, hashes and rows of sizes, as  *)
(* long as the sizes are primes: it implements a dictionary, and its       *)
(* searches and iterations end where they should.                          *)
(***************************************************************************)
EXTENDS HashMap, FiniteSetTheorems, FunctionTheorems, SequenceTheorems, TLAPS

-----------------------------------------------------------------------------
(* Remainders                                                              *)

LEMMA Distributive ==
  ASSUME NEW n \in Int, NEW x \in Int, NEW q \in Int
  PROVE  n * (x + q) = n * x + n * q
OBVIOUS

\* A multiple that is not zero is not small.
LEMMA MultipleIsLarge ==
  ASSUME NEW n \in Nat \ {0}, NEW q \in Int, n * q < n, -n < n * q
  PROVE  q = 0
<1>1. q >= 1 => n * q >= n
  OBVIOUS
<1>2. q <= -1 => n * q <= -n
  OBVIOUS
<1> QED
  BY <1>1, <1>2

LEMMA ModOfSum ==
  ASSUME NEW n \in Nat \ {0}, NEW r \in 0 .. n - 1, NEW q \in Int
  PROVE  (r + n * q) % n = r
<1> DEFINE b == r + n * q
<1>1. b \in Int /\ b % n \in 0 .. n - 1 /\ b \div n \in Int /\ b = n * (b \div n) + (b % n)
  OBVIOUS
<1>2. PICK x \in Int : x = b \div n
  BY <1>1
<1>3. PICK y \in 0 .. n - 1 : y = b % n
  BY <1>1
<1>4. r + n * q = n * x + y
  BY <1>1, <1>2, <1>3
<1> HIDE DEF b
<1>5. n * (x - q) = n * x - n * q
  BY <1>2
<1>6. n * (x - q) = r - y
  BY <1>4, <1>5, <1>2, <1>3
<1>7. x - q = 0
  <2>1. PICK w \in Int : w = x - q
    BY <1>2
  <2>2. n * w < n /\ -n < n * w
    BY <2>1, <1>6, <1>3
  <2>3. w = 0
    BY <2>2, MultipleIsLarge
  <2> QED
    BY <2>1, <2>3
<1>8. n * (x - q) = 0
  BY <1>7, <1>2
<1> QED
  BY <1>8, <1>6, <1>3 DEF b

LEMMA ModAdd ==
  ASSUME NEW n \in Nat \ {0}, NEW a \in Nat, NEW q \in Int
  PROVE  (a + n * q) % n = a % n
<1>1. PICK x \in Int, y \in 0 .. n - 1 : x = a \div n /\ y = a % n /\ a = n * x + y
  OBVIOUS
<1>2. n * (x + q) = n * x + n * q
  BY <1>1, Distributive
<1>3. a + n * q = y + n * (x + q)
  <2>1. (\E u \in Int : u = n * x) /\ (\E v \in Int : v = n * q) /\ (\E w \in Int : w = n * (x + q))
    BY <1>1
  <2> PICK u \in Int : u = n * x BY <2>1
  <2> PICK v \in Int : v = n * q BY <2>1
  <2> PICK w \in Int : w = n * (x + q) BY <2>1
  <2>2. a = u + y /\ w = u + v
    BY <1>2, <1>1
  <2>3. a + v = y + w
    BY <2>2, <1>1
  <2> QED
    BY <2>3
<1>4. (y + n * (x + q)) % n = y
  <2>1. PICK w \in Int : w = x + q
    OBVIOUS
  <2>2. (y + n * w) % n = y
    BY ModOfSum
  <2> QED
    BY <2>1, <2>2
<1> QED
  BY <1>3, <1>4, <1>1

\* Numbers with the same remainder differ by a multiple.
LEMMA ModDiff ==
  ASSUME NEW n \in Nat \ {0}, NEW a \in Nat, NEW b \in Nat, a % n = b % n
  PROVE  (b - a) % n = 0
<1>1. PICK x \in Int, y \in 0 .. n - 1 : x = a \div n /\ y = a % n /\ a = n * x + y
  OBVIOUS
<1>2. PICK z \in Int : z = b \div n /\ b = n * z + y
  BY <1>1
<1>3. PICK w \in Int : w = z - x
  BY <1>1, <1>2
<1>4. b - a = 0 + n * w
  <2>1. n * (x + w) = n * x + n * w
    BY <1>1, <1>3, Distributive
  <2>2. x + w = z
    BY <1>3, <1>2, <1>1
  <2>3. (\E u \in Int : u = n * x) /\ (\E v \in Int : v = n * z) /\ (\E t \in Int : t = n * w)
    BY <1>1, <1>2
  <2> PICK u \in Int : u = n * x BY <2>3
  <2> PICK v \in Int : v = n * z BY <2>3
  <2> PICK t \in Int : t = n * w BY <2>3
  <2>4. v = u + t
    BY <2>1, <2>2
  <2>5. a = u + y /\ b = v + y
    BY <1>1, <1>2
  <2>6. b - a = 0 + t
    BY <2>4, <2>5, <1>1
  <2> QED
    BY <2>6
<1>5. 0 \in 0 .. n - 1
  OBVIOUS
<1>6. (0 + n * w) % n = 0
  BY <1>5, <1>3, ModOfSum
<1> QED
  BY <1>4, <1>6
-----------------------------------------------------------------------------
(* Paths                                                                   *)

\* A set of natural numbers has a least element, which is its Min().
LEMMA MinIs ==
  ASSUME NEW T, T \subseteq Nat, T # {}
  PROVE  Min(T) \in T /\ \A x \in T : Min(T) <= x
<1> DEFINE R == {ss \in Nat \X Nat : ss[1] < ss[2]}
<1>1. IsWellFoundedOn(R, Nat)
  BY NatLessThanWellFounded, Zenon DEF OpToRel
<1>2. \A x, y \in Nat : <<y, x>> \in R <=> y < x
  OBVIOUS
<1> HIDE DEF R
<1>3. PICK x \in T : \A y \in T : ~(<<y, x>> \in R)
  BY <1>1, WFMin, Zenon
<1>4. ASSUME NEW y \in T PROVE x <= y
  <2>1. ~(y < x)
    BY <1>2, <1>3
  <2> QED
    BY <2>1
<1> QED
  BY <1>4 DEF Min

\* A row of hash_sizes.
LEMMA RowIs ==
  ASSUME NEW r \in DOMAIN Row
  PROVE  /\ r \in Nat \ {0}
         /\ Row[r].max_entries \in Nat \ {0} /\ Row[r].rehash \in Nat \ {0} /\ Row[r].size \in Nat \ {0}
         /\ Row[r].max_entries < Row[r].rehash /\ Row[r].rehash < Row[r].size
         /\ IsPrime(Row[r].size)
<1> DEFINE R == [max_entries : Nat \ {0}, size : Nat, rehash : Nat]
<1>1. Row \in Seq(R)
  BY HashMapAssumption
<1> HIDE DEF R
<1>2. r \in 1 .. Len(Row) /\ Len(Row) \in Nat /\ Row[r] \in R
  BY <1>1
<1>3. Row[r].max_entries < Row[r].rehash /\ Row[r].rehash < Row[r].size /\ IsPrime(Row[r].size)
  BY HashMapAssumption, Zenon
<1> QED
  BY <1>2, <1>3 DEF R

\* A step is not zero, and less than a round.
LEMMA StepIs ==
  ASSUME NEW r \in DOMAIN Row, NEW k \in Keys
  PROVE  Step(r, k) \in 1 .. Row[r].size - 1 /\ Hash[k] % Row[r].size \in 0 .. Row[r].size - 1
<1>1. Hash[k] \in Nat
  BY HashMapAssumption
<1>2. PICK n \in Nat \ {0}, g \in Nat \ {0} : n = Row[r].size /\ g = Row[r].rehash /\ g < n
  BY RowIs
<1>3. Hash[k] % g \in 0 .. g - 1 /\ Hash[k] % n \in 0 .. n - 1
  BY <1>1
<1> QED
  BY <1>2, <1>3 DEF Step

\* Fewer steps than entries do not come back to where they began.
LEMMA StepsDiffer ==
  ASSUME NEW r \in DOMAIN Row, NEW k \in Keys,
         NEW i \in Nat, NEW j \in Nat, i < j, j - i < Row[r].size
  PROVE  PathPosition(r, k, i) # PathPosition(r, k, j)
<1>1. PICK n \in Nat \ {0} : n = Row[r].size /\ IsPrime(n)
  BY RowIs
<1>2. PICK s \in 1 .. n - 1, h \in 0 .. n - 1 : s = Step(r, k) /\ h = Hash[k] % n
  BY <1>1, StepIs
<1>3. PICK d \in 1 .. n - 1 : d = j - i
  BY <1>1
<1>4. (d * s) % n # 0
  BY <1>1 DEF IsPrime
<1>5. PICK u \in Nat : u = i * s
  OBVIOUS
<1>6. PICK v \in Nat : v = j * s
  OBVIOUS
<1>7. (h + v) - (h + u) = d * s
  <2>1. s * (i + d) = s * i + s * d
    BY Distributive
  <2>2. s * i = u /\ s * d = d * s /\ s * (i + d) = v
    BY <1>3, <1>5, <1>6
  <2>3. d * s \in Int
    OBVIOUS
  <2>4. v = u + d * s
    BY <2>1, <2>2
  <2> QED
    BY <2>3, <2>4
<1>8. ASSUME (h + u) % n = (h + v) % n PROVE FALSE
  <2>1. h + u \in Nat /\ h + v \in Nat
    OBVIOUS
  <2>2. ((h + v) - (h + u)) % n = 0
    BY <2>1, <1>8, ModDiff
  <2> QED
    BY <2>2, <1>7, <1>4
<1> QED
  BY <1>8, <1>1, <1>2, <1>5, <1>6 DEF PathPosition

\* Only a whole round comes back.
LEMMA RoundIs ==
  ASSUME NEW r \in DOMAIN Row, NEW k \in Keys
  PROVE  Round(r, k) = Row[r].size
<1>1. PICK n \in Nat \ {0} : n = Row[r].size
  BY RowIs
<1>2. PICK s \in 1 .. n - 1, h \in 0 .. n - 1 : s = Step(r, k) /\ h = Hash[k] % n
  BY <1>1, StepIs
<1> DEFINE T == {i \in 1 .. n : PathPosition(r, k, i) = PathPosition(r, k, 0)}
<1>3. n \in T
  <2>1. (h + n * s) % n = h % n
    BY ModAdd
  <2>2. h + 0 * s = h
    OBVIOUS
  <2>3. PathPosition(r, k, n) = PathPosition(r, k, 0)
    BY <2>1, <2>2, <1>1, <1>2 DEF PathPosition
  <2> QED
    BY <2>3
<1>4. ASSUME NEW i \in T PROVE i = n
  <2>1. i < n => PathPosition(r, k, 0) # PathPosition(r, k, i)
    BY <1>1, StepsDiffer
  <2> QED
    BY <2>1
<1>5. T \subseteq Nat /\ T # {}
  BY <1>3
<1>6. Min(T) \in T
  BY <1>5, MinIs
<1> QED
  BY <1>6, <1>4, <1>1 DEF Round

\* A path goes through every entry of the table once.
LEMMA PathIs ==
  ASSUME NEW r \in DOMAIN Row, NEW k \in Keys
  PROVE  LET n == Row[r].size IN
         /\ Path[r][k] \in [0 .. n - 1 -> 0 .. n - 1]
         /\ \A i, j \in 0 .. n - 1 : Path[r][k][i] = Path[r][k][j] => i = j
         /\ \A p \in 0 .. n - 1 : \E i \in 0 .. n - 1 : Path[r][k][i] = p
<1>1. PICK n \in Nat \ {0} : n = Row[r].size
  BY RowIs
<1> DEFINE S == 0 .. n - 1
           f == [i \in S |-> PathPosition(r, k, i)]
<1>2. Path[r][k] = f
  BY <1>1, RoundIs DEF Path
<1>3. \A i \in S : PathPosition(r, k, i) \in S
  <2> TAKE i \in S
  <2>1. PICK s \in 1 .. n - 1, h \in 0 .. n - 1 : s = Step(r, k) /\ h = Hash[k] % n
    BY <1>1, StepIs
  <2>2. PICK u \in Nat : u = i * s
    OBVIOUS
  <2>3. (h + u) % n \in 0 .. n - 1
    OBVIOUS
  <2> QED
    BY <2>1, <2>2, <2>3, <1>1 DEF PathPosition
<1>4. f \in [S -> S]
  BY <1>3
<1>5. \A i, j \in S : f[i] = f[j] => i = j
  <2> SUFFICES ASSUME NEW i \in S, NEW j \in S, i < j PROVE f[i] # f[j]
    OBVIOUS
  <2> QED
    BY <1>1, StepsDiffer
<1>6. f \in Injection(S, S)
  BY <1>4, <1>5 DEF Injection, IsInjective
<1>7. IsFiniteSet(S)
  BY FS_Interval
<1>8. f \in Surjection(S, S)
  BY <1>6, <1>7, FS_Injection
<1>9. \A p \in S : \E i \in S : f[i] = p
  BY <1>8 DEF Surjection
<1> HIDE DEF f
<1> QED
  BY <1>1, <1>2, <1>4, <1>5, <1>9
-----------------------------------------------------------------------------
(* One map                                                                 *)

MapInv(m) == IsMap(m) /\ IsReached(m)

\* The entry at the i-th place of the path of k is where a search for k stops, and it has k.
Reaches(m, k, i) ==
  /\ i \in 0 .. Size(m) - 1 /\ EntryAt(m, k, i).key = k
  /\ \A j \in 0 .. i - 1 : EntryAt(m, k, j).key \notin {Free, k}

\* What a map is made of.
LEMMA MapIs ==
  ASSUME NEW m, IsMap(m)
  PROVE  /\ m.index \in DOMAIN Row /\ Size(m) \in Nat \ {0}
         /\ m.table \in [0 .. Size(m) - 1 -> Entries]
         /\ m.entries \in Nat /\ m.deleted_entries \in Nat
         /\ Row[m.index].max_entries \in Nat \ {0} /\ Row[m.index].max_entries < Size(m)
<1>1. m.index \in DOMAIN Row /\ m.table \in [0 .. Size(m) - 1 -> Entries] /\ m.entries \in Nat /\ m.deleted_entries \in Nat
  BY DEF IsMap
<1>2. PICK n \in Nat \ {0} : n = Row[m.index].size
  BY <1>1, RowIs
<1>3. Row[m.index].max_entries \in Nat \ {0} /\ Row[m.index].max_entries < n
  BY <1>1, <1>2, RowIs
<1> QED
  BY <1>1, <1>2, <1>3 DEF Size

\* The path of a key in a map, and the entries on it.
LEMMA PathOf ==
  ASSUME NEW m, IsMap(m), NEW k \in Keys
  PROVE  /\ OnPath(m, k) = 0 .. Size(m) - 1
         /\ \A i \in 0 .. Size(m) - 1 : Path[m.index][k][i] \in 0 .. Size(m) - 1 /\ EntryAt(m, k, i) \in Entries
         /\ \A i, j \in 0 .. Size(m) - 1 : Path[m.index][k][i] = Path[m.index][k][j] => i = j
         /\ \A p \in 0 .. Size(m) - 1 : \E i \in 0 .. Size(m) - 1 : Path[m.index][k][i] = p
<1>1. m.index \in DOMAIN Row /\ m.table \in [0 .. Size(m) - 1 -> Entries]
  BY MapIs
<1>2. /\ Path[m.index][k] \in [0 .. Size(m) - 1 -> 0 .. Size(m) - 1]
      /\ \A i, j \in 0 .. Size(m) - 1 : Path[m.index][k][i] = Path[m.index][k][j] => i = j
      /\ \A p \in 0 .. Size(m) - 1 : \E i \in 0 .. Size(m) - 1 : Path[m.index][k][i] = p
  BY <1>1, PathIs DEF Size
<1>3. OnPath(m, k) = 0 .. Size(m) - 1
  BY <1>2 DEF OnPath
<1>4. ASSUME NEW i \in 0 .. Size(m) - 1
      PROVE  Path[m.index][k][i] \in 0 .. Size(m) - 1 /\ EntryAt(m, k, i) \in Entries
  <2>1. Path[m.index][k][i] \in 0 .. Size(m) - 1
    BY <1>2
  <2> QED
    BY <2>1, <1>1 DEF EntryAt
<1> QED
  BY <1>2, <1>3, <1>4

\* Keys, entries, and what is present.
LEMMA KeysAre ==
  /\ \A k \in Keys : k # Free /\ k # Deleted
  /\ \A e \in Entries : Present(e) => e.key \in Keys /\ e.data \in Data
  /\ \A e \in Entries : e.key \in Keys => Present(e)
  /\ \A e \in Entries : ~Present(e) => e.key \in {Free, Deleted} /\ e.data = NoData
  /\ NoData \notin Data /\ Free # Deleted /\ ~Present(FreeEntry)
<1>1. Free \notin Keys /\ Deleted \notin Keys /\ Free # Deleted /\ NoData \notin Data
  BY HashMapAssumption
<1> QED
  BY <1>1 DEF Entries, Present, FreeEntry

\* The first place of a path where a search stops.
LEMMA StopIs ==
  ASSUME NEW m, IsMap(m), NEW k \in Keys, NEW i \in 0 .. Size(m) - 1,
         EntryAt(m, k, i).key \in {Free, k},
         \A j \in 0 .. i - 1 : EntryAt(m, k, j).key \notin {Free, k}
  PROVE  Stops(m, k) # {} /\ Min(Stops(m, k)) = i
<1>1. Size(m) \in Nat /\ OnPath(m, k) = 0 .. Size(m) - 1
  BY MapIs, PathOf
<1>2. Stops(m, k) \subseteq Nat /\ i \in Stops(m, k)
  BY <1>1 DEF Stops
<1>3. PICK x \in Stops(m, k) : x = Min(Stops(m, k)) /\ x <= i
  BY <1>2, MinIs
<1>4. x \in 0 .. Size(m) - 1 /\ EntryAt(m, k, x).key \in {Free, k}
  BY <1>1 DEF Stops
<1>5. ~(x \in 0 .. i - 1)
  BY <1>4
<1>6. x = i
  BY <1>5, <1>4, <1>3, <1>1
<1> QED
  BY <1>2, <1>3, <1>6

LEMMA ReachesFinds ==
  ASSUME NEW m, IsMap(m), NEW k \in Keys, NEW i, Reaches(m, k, i)
  PROVE  Finds(m, k) /\ Position(m, k) = Path[m.index][k][i]
<1>1. Stops(m, k) # {} /\ Min(Stops(m, k)) = i
  BY StopIs DEF Reaches
<1> QED
  BY <1>1 DEF Finds, Position, Reaches

LEMMA FindsReaches ==
  ASSUME NEW m, IsMap(m), NEW k \in Keys, Finds(m, k)
  PROVE  \E i : Reaches(m, k, i) /\ Position(m, k) = Path[m.index][k][i]
<1>1. Size(m) \in Nat /\ OnPath(m, k) = 0 .. Size(m) - 1
  BY MapIs, PathOf
<1>2. Stops(m, k) \subseteq Nat /\ Stops(m, k) # {}
  BY <1>1 DEF Stops, Finds
<1>3. PICK i \in Stops(m, k) : i = Min(Stops(m, k)) /\ \A x \in Stops(m, k) : i <= x
  BY <1>2, MinIs
<1>4. i \in 0 .. Size(m) - 1 /\ EntryAt(m, k, i).key = k
  BY <1>1, <1>3 DEF Stops, Finds
<1>5. ASSUME NEW j \in 0 .. i - 1 PROVE EntryAt(m, k, j).key \notin {Free, k}
  <2>1. j \in OnPath(m, k) /\ ~(i <= j)
    BY <1>1, <1>4
  <2> QED
    BY <2>1, <1>3 DEF Stops
<1> QED
  BY <1>3, <1>4, <1>5 DEF Reaches, Position

\* In a map where every entry is reached, a search finds what there is.
LEMMA FindsIs ==
  ASSUME NEW m, MapInv(m), NEW k \in Keys
  PROVE  /\ Finds(m, k) => Position(m, k) \in 0 .. Size(m) - 1 /\ m.table[Position(m, k)].key = k
         /\ \A p \in 0 .. Size(m) - 1 : m.table[p].key = k => Finds(m, k) /\ Position(m, k) = p
<1>1. IsMap(m)
  BY DEF MapInv
<1>2. ASSUME Finds(m, k)
      PROVE  Position(m, k) \in 0 .. Size(m) - 1 /\ m.table[Position(m, k)].key = k
  <2>1. PICK i : Reaches(m, k, i) /\ Position(m, k) = Path[m.index][k][i]
    BY <1>1, <1>2, FindsReaches
  <2> QED
    BY <2>1, <1>1, PathOf DEF Reaches, EntryAt
<1>3. ASSUME NEW p \in 0 .. Size(m) - 1, m.table[p].key = k
      PROVE  Finds(m, k) /\ Position(m, k) = p
  <2>1. Size(m) \in Nat /\ m.table[p] \in Entries
    BY <1>1, MapIs
  <2>2. p \in From(m, 0)
    BY <2>1, <1>3, KeysAre DEF From
  <2> QED
    BY <2>2, <1>3 DEF MapInv, IsReached
<1> QED
  BY <1>2, <1>3

\* And returns its data.
LEMMA SearchIs ==
  ASSUME NEW m, MapInv(m), NEW k \in Keys
  PROVE  /\ Finds(m, k) <=> Search(m, k) # NoData
         /\ Finds(m, k) => Search(m, k) = m.table[Position(m, k)].data /\ Search(m, k) \in Data
         /\ ~Finds(m, k) => Search(m, k) = NoData
         /\ \A p \in 0 .. Size(m) - 1 : m.table[p].key = k => Search(m, k) = m.table[p].data
<1>1. m.table \in [0 .. Size(m) - 1 -> Entries]
  BY MapIs DEF MapInv
<1>2. ASSUME Finds(m, k) PROVE m.table[Position(m, k)].data \in Data
  <2>1. Position(m, k) \in 0 .. Size(m) - 1 /\ m.table[Position(m, k)].key = k
    BY <1>2, FindsIs
  <2>2. PICK e \in Entries : e = m.table[Position(m, k)]
    BY <2>1, <1>1
  <2> QED
    BY <2>1, <2>2, KeysAre
<1> QED
  BY <1>2, FindsIs, KeysAre DEF Search

\* What can be said of the table makes a map where every entry is reached.
LEMMA IsReachedIs ==
  ASSUME NEW m, IsMap(m),
         \A p \in 0 .. Size(m) - 1 : Present(m.table[p]) =>
           \E i : Reaches(m, m.table[p].key, i) /\ Path[m.index][m.table[p].key][i] = p
  PROVE  IsReached(m)
<1> SUFFICES ASSUME NEW p \in From(m, 0)
             PROVE  Finds(m, m.table[p].key) /\ Position(m, m.table[p].key) = p
  BY DEF IsReached
<1>1. p \in 0 .. Size(m) - 1 /\ Present(m.table[p]) /\ m.table[p] \in Entries
  BY MapIs DEF From
<1>2. PICK k \in Keys : k = m.table[p].key
  BY <1>1, KeysAre
<1>3. PICK i : Reaches(m, k, i) /\ Path[m.index][k][i] = p
  BY <1>1, <1>2
<1> QED
  BY <1>2, <1>3, ReachesFinds

\* A new table.
LEMMA EmptyMapIs ==
  ASSUME NEW r \in DOMAIN Row
  PROVE  LET m == EmptyMap(r) IN
         /\ MapInv(m) /\ m.index = r /\ m.entries = 0 /\ m.deleted_entries = 0
         /\ \A k \in Keys : Search(m, k) = NoData
<1> DEFINE m == EmptyMap(r)
<1>1. m.index = r /\ m.entries = 0 /\ m.deleted_entries = 0 /\ Size(m) = Row[r].size
      /\ m.table = [p \in 0 .. Row[r].size - 1 |-> FreeEntry]
  BY DEF EmptyMap, Size
<1>2. FreeEntry \in Entries /\ ~Present(FreeEntry) /\ FreeEntry.key = Free
  BY DEF FreeEntry, Entries, Present
<1>3. m \in [index : DOMAIN Row, table : [0 .. Size(m) - 1 -> Entries], entries : Nat, deleted_entries : Nat]
  BY <1>1, <1>2 DEF EmptyMap
<1> HIDE DEF m
<1>4. \A p \in 0 .. Size(m) - 1 : m.table[p] = FreeEntry
  BY <1>1
<1>5. From(m, 0) = {} /\ Marks(m) = {}
  BY <1>4, <1>2, KeysAre DEF From, Marks
<1>6. IsMap(m)
  BY <1>1, <1>3, <1>5, FS_EmptySet DEF IsMap
<1>7. MapInv(m)
  BY <1>5, <1>6 DEF MapInv, IsReached
<1>8. ASSUME NEW k \in Keys PROVE Search(m, k) = NoData
  <2>1. ~Finds(m, k)
    BY <1>7, <1>4, <1>2, FindsIs, KeysAre
  <2> QED
    BY <2>1 DEF Search
<1> QED
  BY <1>1, <1>7, <1>8 DEF m

\* A search stops at the same place when an entry that is not on the way there changes,
\* and does not become free.
LEMMA ReachesStill ==
  ASSUME NEW m, IsMap(m), NEW w, IsMap(w), w.index = m.index,
         NEW p \in 0 .. Size(m) - 1, \A q \in 0 .. Size(m) - 1 : q # p => w.table[q] = m.table[q],
         NEW k \in Keys, w.table[p].key # Free, w.table[p].key = k => m.table[p].key = k,
         NEW i, Reaches(m, k, i), Path[m.index][k][i] # p
  PROVE  Reaches(w, k, i)
<1>1. Size(w) = Size(m) /\ Size(m) \in Nat
  BY MapIs DEF Size
<1>2. ASSUME NEW j \in 0 .. Size(m) - 1
      PROVE  \/ Path[m.index][k][j] # p /\ EntryAt(w, k, j) = EntryAt(m, k, j)
             \/ Path[m.index][k][j] = p /\ EntryAt(w, k, j) = w.table[p] /\ EntryAt(m, k, j) = m.table[p]
  BY PathOf DEF EntryAt
<1>3. i \in 0 .. Size(m) - 1 /\ EntryAt(w, k, i).key = k
  <2>1. i \in 0 .. Size(m) - 1 /\ EntryAt(m, k, i).key = k
    BY DEF Reaches
  <2> QED
    BY <2>1, <1>2
<1>4. ASSUME NEW j \in 0 .. i - 1 PROVE EntryAt(w, k, j).key \notin {Free, k}
  <2>1. j \in 0 .. Size(m) - 1 /\ EntryAt(m, k, j).key \notin {Free, k}
    BY <1>1, <1>3 DEF Reaches
  <2> QED
    BY <2>1, <1>2
<1> QED
  BY <1>1, <1>3, <1>4 DEF Reaches

\* The entries of two maps with a key.
SameEntries(m, w, k) ==
  \A q \in 0 .. Size(m) - 1 :
    /\ w.table[q].key = k <=> m.table[q].key = k
    /\ m.table[q].key = k => w.table[q].data = m.table[q].data

\* Then searches for it find the same.
LEMMA SearchSame ==
  ASSUME NEW m, MapInv(m), NEW w, MapInv(w), Size(w) = Size(m), NEW k \in Keys, SameEntries(m, w, k)
  PROVE  Search(w, k) = Search(m, k)
<1>1. CASE \E q \in 0 .. Size(m) - 1 : m.table[q].key = k
  BY <1>1, SearchIs DEF SameEntries
<1>2. CASE ~\E q \in 0 .. Size(m) - 1 : m.table[q].key = k
  <2>1. ~Finds(m, k) /\ ~Finds(w, k)
    BY <1>2, FindsIs DEF SameEntries
  <2> QED
    BY <2>1, SearchIs
<1> QED
  BY <1>1, <1>2

\* The counters of a map are about finite sets.
LEMMA CountsAre ==
  ASSUME NEW m, IsMap(m)
  PROVE  /\ IsFiniteSet(From(m, 0)) /\ IsFiniteSet(Marks(m))
         /\ From(m, 0) \subseteq 0 .. Size(m) - 1 /\ Marks(m) \subseteq 0 .. Size(m) - 1
         /\ From(m, 0) \cap Marks(m) = {}
         /\ m.entries + m.deleted_entries = Cardinality(From(m, 0) \cup Marks(m))
         /\ m.entries <= Size(m)
<1>1. Size(m) \in Nat \ {0}
  BY MapIs
<1>2. IsFiniteSet(0 .. Size(m) - 1) /\ Cardinality(0 .. Size(m) - 1) = Size(m)
  BY <1>1, FS_Interval
<1>3. From(m, 0) \subseteq 0 .. Size(m) - 1 /\ Marks(m) \subseteq 0 .. Size(m) - 1
  BY DEF From, Marks
<1>4. From(m, 0) \cap Marks(m) = {}
  BY DEF From, Marks, Present
<1>5. IsFiniteSet(From(m, 0)) /\ IsFiniteSet(Marks(m)) /\ Cardinality(From(m, 0)) <= Size(m)
  BY <1>2, <1>3, FS_Subset
<1>6. m.entries = Cardinality(From(m, 0)) /\ m.deleted_entries = Cardinality(Marks(m))
      /\ m.entries \in Nat /\ m.deleted_entries \in Nat
  BY DEF IsMap
<1>7. Cardinality(From(m, 0) \cup Marks(m)) = Cardinality(From(m, 0)) + Cardinality(Marks(m)) - Cardinality(From(m, 0) \cap Marks(m))
  BY <1>5, FS_Union, Zenon
<1>8. Cardinality(From(m, 0) \cap Marks(m)) = 0
  BY <1>4, FS_EmptySet
<1> QED
  BY <1>3, <1>4, <1>5, <1>6, <1>7, <1>8

\* A map w is m with d inserted for k.
Has(m, w, k, d) ==
  /\ MapInv(w) /\ w.index = m.index
  /\ \A x \in Keys : Search(w, x) = IF x = k THEN d ELSE Search(m, x)
  /\ w.entries + w.deleted_entries <= m.entries + m.deleted_entries + 1
  /\ m.deleted_entries = 0 => w.deleted_entries = 0

\* Another entry with the same key, or a new one on the way of a search.
LEMMA ChangeIs ==
  ASSUME NEW m, MapInv(m), NEW w, IsMap(w), w.index = m.index,
         NEW p \in 0 .. Size(m) - 1, NEW e \in Entries, w.table = [m.table EXCEPT ![p] = e],
         e.key # Free,
         e.key \in Keys => (\E i : Reaches(w, e.key, i) /\ Path[m.index][e.key][i] = p),
         e.key \in Keys => \A q \in 0 .. Size(m) - 1 : m.table[q].key = e.key => q = p
  PROVE  /\ MapInv(w)
         /\ \A x \in Keys : Search(w, x) = IF x = e.key THEN e.data
                                           ELSE IF x = m.table[p].key THEN NoData ELSE Search(m, x)
<1>1. Size(w) = Size(m) /\ IsMap(m) /\ m.table \in [0 .. Size(m) - 1 -> Entries]
  BY MapIs DEF Size, MapInv
<1>2. w.table[p] = e /\ \A q \in 0 .. Size(m) - 1 : q # p => w.table[q] = m.table[q]
  BY <1>1
<1>3. ASSUME NEW q \in 0 .. Size(w) - 1, Present(w.table[q])
      PROVE  \E i : Reaches(w, w.table[q].key, i) /\ Path[w.index][w.table[q].key][i] = q
  <2>1. CASE q = p
    <3>1. e.key \in Keys
      BY <1>2, <1>3, <2>1, KeysAre
    <3> QED
      BY <3>1, <1>2, <2>1
  <2>2. CASE q # p
    <3>1. m.table[q] \in Entries /\ w.table[q] = m.table[q]
      BY <1>1, <1>2, <2>2
    <3>2. PICK k \in Keys : k = m.table[q].key
      BY <3>1, <1>3, KeysAre
    <3>3. Finds(m, k) /\ Position(m, k) = q
      BY <3>2, <1>1, FindsIs
    <3>4. PICK i : Reaches(m, k, i) /\ Path[m.index][k][i] = q
      BY <3>3, <1>1, FindsReaches
    <3>5. e.key # k
      BY <3>2, <2>2, <1>1
    <3>6. Reaches(w, k, i)
      BY <3>4, <3>5, <1>1, <1>2, <2>2, ReachesStill
    <3> QED
      BY <3>1, <3>2, <3>4, <3>6
  <2> QED
    BY <2>1, <2>2
<1>4. MapInv(w)
  BY <1>3, IsReachedIs DEF MapInv
<1>5. ASSUME NEW x \in Keys
      PROVE  Search(w, x) = IF x = e.key THEN e.data
                            ELSE IF x = m.table[p].key THEN NoData ELSE Search(m, x)
  <2>1. CASE x = e.key
    BY <2>1, <1>1, <1>2, <1>4, SearchIs
  <2>2. CASE x # e.key /\ x = m.table[p].key
    <3>1. ASSUME NEW q \in 0 .. Size(w) - 1 PROVE w.table[q].key # x
      <4>1. CASE q = p
        BY <4>1, <2>2, <1>2
      <4>2. CASE q # p
        <5>1. m.table[q].key = x => q = Position(m, x)
          BY <1>1, FindsIs
        <5>2. p = Position(m, x)
          BY <2>2, FindsIs
        <5> QED
          BY <4>2, <5>1, <5>2, <1>1, <1>2
      <4> QED
        BY <4>1, <4>2
    <3>2. Finds(w, x) => Position(w, x) \in 0 .. Size(w) - 1 /\ w.table[Position(w, x)].key = x
      BY <1>4, FindsIs
    <3>3. ~Finds(w, x)
      BY <3>1, <3>2
    <3> QED
      BY <3>3, <2>2, <1>4, SearchIs
  <2>3. CASE x # e.key /\ x # m.table[p].key
    <3>1. SameEntries(m, w, x)
      BY <1>2, <2>3 DEF SameEntries
    <3>2. Size(w) = Size(m)
      BY <1>1
    <3>3. Search(w, x) = Search(m, x)
      BY <3>1, <3>2, <1>4, SearchSame
    <3> QED
      BY <3>3, <2>3
  <2> QED
    BY <2>1, <2>2, <2>3
<1> QED
  BY <1>4, <1>5

\* A new entry where a search for its key has not stopped before.
LEMMA ReachesNew ==
  ASSUME NEW m, IsMap(m), NEW w, w.index = m.index, NEW k \in Keys,
         NEW i \in 0 .. Size(m) - 1, NEW e, e.key = k, w.table = [m.table EXCEPT ![Path[m.index][k][i]] = e],
         \A j \in 0 .. i - 1 : EntryAt(m, k, j).key \notin {Free, k}
  PROVE  Reaches(w, k, i)
<1>1. Size(w) = Size(m) /\ Size(m) \in Nat /\ m.table \in [0 .. Size(m) - 1 -> Entries]
  BY MapIs DEF Size
<1>2. EntryAt(w, k, i) = e
  BY <1>1, PathOf DEF EntryAt
<1>3. ASSUME NEW j \in 0 .. i - 1 PROVE EntryAt(w, k, j) = EntryAt(m, k, j)
  <2>1. j \in 0 .. Size(m) - 1 /\ j # i
    BY <1>1
  <2>2. Path[m.index][k][j] # Path[m.index][k][i] /\ Path[m.index][k][j] \in 0 .. Size(m) - 1
    BY <2>1, PathOf
  <2> QED
    BY <2>2, <1>1 DEF EntryAt
<1> QED
  BY <1>1, <1>2, <1>3 DEF Reaches

\* Replacing the data of an entry.
LEMMA PutReplaces ==
  ASSUME NEW m, MapInv(m), NEW k \in Keys, NEW d \in Data, Finds(m, k)
  PROVE  Has(m, Put(m, k, d), k, d)
<1> DEFINE p == Position(m, k)
           e == [key |-> k, data |-> d]
           w == Put(m, k, d)
<1>1. IsMap(m)
  BY DEF MapInv
<1>2. Size(m) \in Nat /\ m.table \in [0 .. Size(m) - 1 -> Entries] /\ e \in Entries
  BY <1>1, MapIs DEF Entries
<1>3. p \in 0 .. Size(m) - 1 /\ m.table[p].key = k
  BY FindsIs
<1>4. Present(m.table[p]) /\ m.table[p] \in [key : Keys, data : Data] /\ Present(e)
  BY <1>2, <1>3, KeysAre DEF Entries, Present
<1>5. [m.table[p] EXCEPT !.data = d] = e
  BY <1>3, <1>4
<1>6. m \in [index : DOMAIN Row, table : [0 .. Size(m) - 1 -> Entries], entries : Nat, deleted_entries : Nat]
  BY <1>1 DEF IsMap
<1>7. w = [m EXCEPT !.table = [m.table EXCEPT ![p] = e]]
  <2>1. w = [m EXCEPT !.table[p].data = d]
    BY DEF Put
  <2>2. w = [m EXCEPT !.table = [m.table EXCEPT ![p] = [m.table[p] EXCEPT !.data = d]]]
    BY <2>1, <1>6
  <2> QED
    BY <1>5, <2>2, Zenon
<1> HIDE DEF p, e, w
<1>8. w.index = m.index /\ w.table = [m.table EXCEPT ![p] = e] /\ w.entries = m.entries
      /\ w.deleted_entries = m.deleted_entries
      /\ w \in [index : DOMAIN Row, table : [0 .. Size(m) - 1 -> Entries], entries : Nat, deleted_entries : Nat]
  BY <1>2, <1>3, <1>6, <1>7
<1>9. Size(w) = Size(m)
  BY <1>8 DEF Size
<1>10. e.key = k /\ e.data = d /\ e.key # Free /\ e.key # Deleted
  BY KeysAre DEF e
<1>11. From(w, 0) = From(m, 0)
  BY <1>2, <1>3, <1>4, <1>8, <1>9 DEF From
<1>12. Marks(w) = Marks(m)
  <2>1. \A q \in 0 .. Size(m) - 1 : w.table[q].key = m.table[q].key
    BY <1>2, <1>3, <1>8, <1>10
  <2> QED
    BY <2>1, <1>9 DEF Marks
<1>13. IsMap(w)
  BY <1>1, <1>8, <1>9, <1>11, <1>12 DEF IsMap
<1>14. PICK i : Reaches(m, k, i) /\ p = Path[m.index][k][i]
  BY <1>1, FindsReaches DEF p
<1>15. Reaches(w, k, i)
  BY <1>1, <1>8, <1>10, <1>14, ReachesNew DEF Reaches
<1>16. \A q \in 0 .. Size(m) - 1 : m.table[q].key = k => q = p
  BY FindsIs DEF p
<1>17. MapInv(w) /\ \A x \in Keys : Search(w, x) = IF x = e.key THEN e.data
                                                   ELSE IF x = m.table[p].key THEN NoData ELSE Search(m, x)
  <2>1. \E x : Reaches(w, e.key, x) /\ Path[m.index][e.key][x] = p
    BY <1>10, <1>14, <1>15
  <2>2. \A q \in 0 .. Size(m) - 1 : m.table[q].key = e.key => q = p
    BY <1>10, <1>16
  <2>3. e \in Entries /\ w.index = m.index /\ w.table = [m.table EXCEPT ![p] = e]
    BY <1>2, <1>8
  <2> QED
    BY <1>3, <1>10, <1>13, <2>1, <2>2, <2>3, ChangeIs
<1>18. m.entries \in Nat /\ m.deleted_entries \in Nat
  BY <1>1, MapIs
<1> QED
  BY <1>3, <1>8, <1>10, <1>17, <1>18 DEF Has, w

\* Where a new entry goes: to the first that is not present, which a search for its key
\* comes to before it stops.
LEMMA AvailableIs ==
  ASSUME NEW m, IsMap(m), NEW k \in Keys, ~Finds(m, k), Available(m, k) # {}
  PROVE  LET i == Min(Available(m, k)) IN
         /\ i \in 0 .. Size(m) - 1 /\ ~Present(EntryAt(m, k, i))
         /\ \A j \in 0 .. i - 1 : EntryAt(m, k, j).key \notin {Free, k}
<1> DEFINE i == Min(Available(m, k))
<1>1. Size(m) \in Nat /\ OnPath(m, k) = 0 .. Size(m) - 1
  BY MapIs, PathOf
<1>2. Available(m, k) \subseteq Nat
  BY <1>1 DEF Available
<1>3. i \in Available(m, k) /\ \A x \in Available(m, k) : i <= x
  BY <1>2, MinIs
<1> HIDE DEF i
<1>4. i \in 0 .. Size(m) - 1 /\ ~Present(EntryAt(m, k, i)) /\ \A j \in Stops(m, k) : i <= j
  BY <1>1, <1>3 DEF Available
<1>5. ASSUME NEW j \in 0 .. i - 1 PROVE EntryAt(m, k, j).key \notin {Free, k}
  <2>1. j \in OnPath(m, k) /\ ~(i <= j)
    BY <1>1, <1>4
  <2>2. j \notin Stops(m, k)
    BY <2>1, <1>4
  <2> QED
    BY <2>1, <2>2 DEF Stops
<1> QED
  BY <1>4, <1>5 DEF i

\* A new entry.
LEMMA PutAdds ==
  ASSUME NEW m, MapInv(m), NEW k \in Keys, NEW d \in Data, ~Finds(m, k), Available(m, k) # {}
  PROVE  Has(m, Put(m, k, d), k, d)
<1> DEFINE i == Min(Available(m, k))
           p == Path[m.index][k][i]
           e == [key |-> k, data |-> d]
           w == Put(m, k, d)
<1>1. IsMap(m)
  BY DEF MapInv
<1>2. Size(m) \in Nat /\ m.table \in [0 .. Size(m) - 1 -> Entries] /\ e \in Entries
  BY <1>1, MapIs DEF Entries
<1>3. /\ i \in 0 .. Size(m) - 1 /\ ~Present(EntryAt(m, k, i))
      /\ \A j \in 0 .. i - 1 : EntryAt(m, k, j).key \notin {Free, k}
  BY <1>1, AvailableIs
<1>4. EntryAt(m, k, i) = m.table[p]
  BY DEF EntryAt
<1>5. m \in [index : DOMAIN Row, table : [0 .. Size(m) - 1 -> Entries], entries : Nat, deleted_entries : Nat]
  BY <1>1 DEF IsMap
<1>6. w = [m EXCEPT !.table[p] = e, !.entries = @ + 1,
                    !.deleted_entries = IF EntryAt(m, k, i).key = Deleted THEN @ - 1 ELSE @]
  BY DEF Put
<1> HIDE DEF e, w, i
<1>7. p \in 0 .. Size(m) - 1
  BY <1>1, <1>3, PathOf
<1> HIDE DEF p
<1>8. w.index = m.index /\ w.table = [m.table EXCEPT ![p] = e] /\ w.entries = m.entries + 1
      /\ w.deleted_entries = IF m.table[p].key = Deleted THEN m.deleted_entries - 1 ELSE m.deleted_entries
  BY <1>4, <1>5, <1>6
<1>9. Size(w) = Size(m)
  BY <1>8 DEF Size
<1>10. e.key = k /\ e.data = d /\ e.key # Free /\ e.key # Deleted /\ Present(e)
  BY KeysAre DEF e, Present
<1>11. m.table[p] \in Entries /\ ~Present(m.table[p]) /\ m.table[p].key \in {Free, Deleted}
  BY <1>2, <1>3, <1>4, <1>7, KeysAre
<1>12. p \notin From(m, 0) /\ From(w, 0) = From(m, 0) \cup {p}
  BY <1>2, <1>7, <1>8, <1>9, <1>10, <1>11 DEF From
<1>13. Marks(w) = Marks(m) \ {p} /\ (p \in Marks(m) <=> m.table[p].key = Deleted)
  BY <1>2, <1>7, <1>8, <1>9, <1>10 DEF Marks
<1>14. /\ IsFiniteSet(From(m, 0)) /\ IsFiniteSet(Marks(m)) /\ m.entries \in Nat /\ m.deleted_entries \in Nat
       /\ m.entries = Cardinality(From(m, 0)) /\ m.deleted_entries = Cardinality(Marks(m))
  BY <1>1, CountsAre, MapIs DEF IsMap
<1>15. w.entries = Cardinality(From(w, 0))
  BY <1>8, <1>12, <1>14, FS_AddElement
<1>16. w.deleted_entries = Cardinality(Marks(w)) /\ IsFiniteSet(Marks(w))
  BY <1>8, <1>13, <1>14, FS_RemoveElement
<1>17. w.deleted_entries \in Nat
  BY <1>16, FS_CardinalityType
<1>18. w \in [index : DOMAIN Row, table : [0 .. Size(w) - 1 -> Entries], entries : Nat, deleted_entries : Nat]
  <2>1. w.table \in [0 .. Size(w) - 1 -> Entries] /\ w.entries \in Nat
    BY <1>2, <1>7, <1>8, <1>9, <1>14
  <2>2. w = [index |-> w.index, table |-> w.table, entries |-> w.entries, deleted_entries |-> w.deleted_entries]
    BY <1>5, <1>6
  <2> QED
    BY <2>1, <2>2, <1>5, <1>8, <1>17
<1>19. IsMap(w)
  BY <1>15, <1>16, <1>18 DEF IsMap
<1>20. Reaches(w, k, i)
  BY <1>1, <1>3, <1>8, <1>10, ReachesNew DEF p
<1>21. MapInv(w) /\ \A x \in Keys : Search(w, x) = IF x = e.key THEN e.data
                                                   ELSE IF x = m.table[p].key THEN NoData ELSE Search(m, x)
  <2>1. \E x : Reaches(w, e.key, x) /\ Path[m.index][e.key][x] = p
    BY <1>10, <1>20 DEF p
  <2>2. \A q \in 0 .. Size(m) - 1 : m.table[q].key = e.key => q = p
    BY <1>10, FindsIs
  <2>3. e \in Entries /\ w.index = m.index /\ w.table = [m.table EXCEPT ![p] = e]
    BY <1>2, <1>8
  <2> QED
    BY <1>7, <1>10, <1>19, <2>1, <2>2, <2>3, ChangeIs
<1>22. \A x \in Keys : x # m.table[p].key
  BY <1>11, KeysAre
<1>23. w.entries + w.deleted_entries <= m.entries + m.deleted_entries + 1 /\ (m.deleted_entries = 0 => w.deleted_entries = 0)
  BY <1>8, <1>14, <1>17
<1> QED
  BY <1>8, <1>10, <1>21, <1>22, <1>23 DEF Has, w

\* An insertion without room changes nothing, and there is room in a map that is not full.
LEMMA PutDoes ==
  ASSUME NEW m, MapInv(m), NEW k \in Keys, NEW d \in Data
  PROVE  \/ Has(m, Put(m, k, d), k, d)
         \/ Put(m, k, d) = m /\ ~Finds(m, k) /\ m.entries = Size(m)
<1>1. CASE Finds(m, k)
  BY <1>1, PutReplaces
<1>2. CASE ~Finds(m, k) /\ Available(m, k) # {}
  BY <1>2, PutAdds
<1>3. CASE ~Finds(m, k) /\ Available(m, k) = {}
  <2>1. Put(m, k, d) = m
    BY <1>3 DEF Put
  <2>2. IsMap(m)
    BY DEF MapInv
  <2>3. Size(m) \in Nat /\ OnPath(m, k) = 0 .. Size(m) - 1
    BY <2>2, MapIs, PathOf
  <2>4. Stops(m, k) = {}
    <3> SUFFICES ASSUME Stops(m, k) # {} PROVE FALSE
      OBVIOUS
    <3>1. Stops(m, k) \subseteq Nat
      BY <2>3 DEF Stops
    <3>2. PICK i \in Stops(m, k) : i = Min(Stops(m, k)) /\ \A x \in Stops(m, k) : i <= x
      BY <3>1, MinIs
    <3>3. EntryAt(m, k, i).key = Free /\ i \in OnPath(m, k)
      BY <1>3, <3>2 DEF Finds, Stops
    <3>4. i \in Available(m, k)
      BY <3>2, <3>3 DEF Available, Present
    <3> QED
      BY <3>4, <1>3
  <2>5. \A i \in 0 .. Size(m) - 1 : Present(EntryAt(m, k, i))
    BY <1>3, <2>3, <2>4 DEF Available
  <2>6. \A p \in 0 .. Size(m) - 1 : Present(m.table[p])
    BY <2>2, <2>5, PathOf DEF EntryAt
  <2>7. From(m, 0) = 0 .. Size(m) - 1
    BY <2>6 DEF From
  <2>8. m.entries = Size(m)
    BY <2>2, <2>3, <2>7, FS_Interval DEF IsMap
  <2> QED
    BY <1>3, <2>1, <2>8
<1> QED
  BY <1>1, <1>2, <1>3

\* igt_map_remove().
Removed(m, k) ==
  [m EXCEPT !.table[Position(m, k)] = [key |-> Deleted, data |-> NoData],
            !.entries = @ - 1, !.deleted_entries = @ + 1]

LEMMA RemoveIs ==
  ASSUME NEW m, MapInv(m), NEW k \in Keys, Finds(m, k)
  PROVE  LET w == Removed(m, k) IN
         /\ MapInv(w) /\ w.index = m.index /\ w.entries = m.entries - 1 /\ w.deleted_entries = m.deleted_entries + 1
         /\ From(w, 0) \subseteq From(m, 0) /\ \A p \in From(w, 0) : w.table[p] = m.table[p]
         /\ \A x \in Keys : Search(w, x) = IF x = k THEN NoData ELSE Search(m, x)
<1> DEFINE p == Position(m, k)
           e == [key |-> Deleted, data |-> NoData]
           w == Removed(m, k)
<1>1. IsMap(m)
  BY DEF MapInv
<1>2. Size(m) \in Nat /\ m.table \in [0 .. Size(m) - 1 -> Entries] /\ e \in Entries
  BY <1>1, MapIs DEF Entries
<1>3. p \in 0 .. Size(m) - 1 /\ m.table[p].key = k
  BY FindsIs
<1>4. m \in [index : DOMAIN Row, table : [0 .. Size(m) - 1 -> Entries], entries : Nat, deleted_entries : Nat]
  BY <1>1 DEF IsMap
<1>5. w = [m EXCEPT !.table[p] = e, !.entries = @ - 1, !.deleted_entries = @ + 1]
  BY DEF Removed
<1> HIDE DEF p, e, w
<1>6. w.index = m.index /\ w.table = [m.table EXCEPT ![p] = e] /\ w.entries = m.entries - 1
      /\ w.deleted_entries = m.deleted_entries + 1
  BY <1>4, <1>5
<1>7. Size(w) = Size(m)
  BY <1>6 DEF Size
<1>8. e.key = Deleted /\ e.key # Free /\ e.key \notin Keys /\ ~Present(e)
  BY KeysAre DEF e, Present
<1>9. m.table[p] \in Entries /\ Present(m.table[p])
  BY <1>2, <1>3, KeysAre
<1>10. p \in From(m, 0) /\ From(w, 0) = From(m, 0) \ {p}
  BY <1>2, <1>3, <1>6, <1>7, <1>8, <1>9 DEF From
<1>11. Marks(w) = Marks(m) \cup {p} /\ p \notin Marks(m)
  BY <1>2, <1>3, <1>6, <1>7, <1>8, KeysAre DEF Marks
<1>12. /\ IsFiniteSet(From(m, 0)) /\ IsFiniteSet(Marks(m)) /\ m.entries \in Nat /\ m.deleted_entries \in Nat
       /\ m.entries = Cardinality(From(m, 0)) /\ m.deleted_entries = Cardinality(Marks(m))
  BY <1>1, CountsAre, MapIs DEF IsMap
<1>13. w.entries = Cardinality(From(w, 0)) /\ IsFiniteSet(From(w, 0))
  BY <1>6, <1>10, <1>12, FS_RemoveElement
<1>14. w.deleted_entries = Cardinality(Marks(w))
  BY <1>6, <1>11, <1>12, FS_AddElement
<1>15. w.entries \in Nat
  BY <1>13, FS_CardinalityType
<1>16. w \in [index : DOMAIN Row, table : [0 .. Size(w) - 1 -> Entries], entries : Nat, deleted_entries : Nat]
  <2>1. w.table \in [0 .. Size(w) - 1 -> Entries] /\ w.deleted_entries \in Nat
    BY <1>2, <1>3, <1>6, <1>7, <1>12
  <2>2. w = [index |-> w.index, table |-> w.table, entries |-> w.entries, deleted_entries |-> w.deleted_entries]
    BY <1>4, <1>5
  <2> QED
    BY <2>1, <2>2, <1>4, <1>6, <1>15
<1>17. IsMap(w)
  BY <1>13, <1>14, <1>16 DEF IsMap
<1>18. MapInv(w) /\ \A x \in Keys : Search(w, x) = IF x = e.key THEN e.data
                                                   ELSE IF x = m.table[p].key THEN NoData ELSE Search(m, x)
  <2>1. e \in Entries /\ w.index = m.index /\ w.table = [m.table EXCEPT ![p] = e]
    BY <1>2, <1>6
  <2> QED
    BY <1>3, <1>8, <1>17, <2>1, ChangeIs
<1>19. \A x \in From(w, 0) : w.table[x] = m.table[x]
  BY <1>2, <1>6, <1>10 DEF From
<1> QED
  BY <1>3, <1>6, <1>8, <1>10, <1>18, <1>19 DEF w

\* Two maps that find the same keys have as many entries.
LEMMA SameEntriesCount ==
  ASSUME NEW m, MapInv(m), NEW w, MapInv(w),
         \A k \in Keys : Finds(w, k) => Finds(m, k)
  PROVE  w.entries <= m.entries
<1> DEFINE S == From(w, 0)
           T == From(m, 0)
           f == [p \in S |-> Position(m, w.table[p].key)]
<1>1. IsMap(m) /\ IsMap(w) /\ IsFiniteSet(S) /\ IsFiniteSet(T)
  BY CountsAre DEF MapInv
<1>2. ASSUME NEW p \in S
      PROVE  /\ w.table[p].key \in Keys /\ Finds(m, w.table[p].key)
             /\ Position(m, w.table[p].key) \in T
             /\ m.table[Position(m, w.table[p].key)].key = w.table[p].key
             /\ Position(w, w.table[p].key) = p
  <2>1. p \in 0 .. Size(w) - 1 /\ Present(w.table[p]) /\ w.table[p] \in Entries
    BY <1>1, MapIs DEF From
  <2>2. PICK k \in Keys : k = w.table[p].key
    BY <2>1, KeysAre
  <2>3. Finds(w, k) /\ Position(w, k) = p
    BY <2>1, <2>2, FindsIs
  <2>4. Finds(m, k) /\ Position(m, k) \in 0 .. Size(m) - 1 /\ m.table[Position(m, k)].key = k
    BY <2>3, FindsIs
  <2>5. m.table[Position(m, k)] \in Entries
    BY <2>4, <1>1, MapIs
  <2>6. Position(m, k) \in T
    BY <2>4, <2>5, KeysAre DEF From
  <2> QED
    BY <2>2, <2>3, <2>4, <2>6
<1>3. f \in [S -> T]
  BY <1>2
<1>4. \A p, q \in S : f[p] = f[q] => p = q
  <2> SUFFICES ASSUME NEW p \in S, NEW q \in S, f[p] = f[q] PROVE p = q
    OBVIOUS
  <2>1. w.table[p].key = w.table[q].key
    BY <1>2
  <2> QED
    BY <2>1, <1>2
<1>5. f \in Injection(S, T)
  BY <1>3, <1>4 DEF Injection, IsInjective
<1>6. Cardinality(S) <= Cardinality(T)
  BY <1>1, <1>5, FS_Injection
<1> QED
  BY <1>1, <1>6 DEF IsMap

-----------------------------------------------------------------------------
(* The inductive invariant                                                 *)

\* What has come to a new table when the entries of the old one moved up to a position.
Part(old, at, k) == IF Finds(old, k) /\ Position(old, k) < at THEN Search(old, k) ELSE NoData

\* A call that moves entries waits for the call that inserts the entry before its position.
Waits(c, e) ==
  /\ c.step = "move" /\ c.at >= 1
  /\ Present(c.old.table[c.at - 1]) /\ c.old.table[c.at - 1] = [key |-> e.key, data |-> e.data]

Stack(s) ==
  /\ s \in Seq({s[i] : i \in DOMAIN s})
  /\ \A i \in 1 .. Len(s) : IsCall(s[i]) /\ MapInv(s[i].old)
  /\ \A i \in 1 .. Len(s) - 1 : Waits(s[i], s[i + 1])

\* The table that a call moves entries to: a nested call may move that one on.
Target(s, m, i) == IF i < Len(s) /\ s[i + 1].step = "move" THEN s[i + 1].old ELSE m
Upto(s, i) == IF i < Len(s) THEN s[i].at - 1 ELSE s[i].at

Partial(s, m) ==
  \A i \in 1 .. Len(s) : s[i].step = "move" =>
    \A k \in Keys : Search(Target(s, m, i), k) = Part(s[i].old, Upto(s, i), k)

Grows(s, m) == \A i \in 1 .. Len(s) : s[i].step = "move" => Size(s[i].old) <= Size(m)

\* While there are new tables, entries and marks leave one entry free, and what moves
\* to a table leaves room in it for what is inserted.
Room(s, m) ==
  LET max == Row[m.index].max_entries IN
  /\ m.entries + m.deleted_entries <= max
  /\ s # <<>> /\ s[Len(s)].step = "put" => m.entries + m.deleted_entries < max
  /\ \A i \in 1 .. Len(s) : s[i].step = "move" => s[i].old.entries < max /\ m.deleted_entries = 0

Iterating(s, m, c, v) ==
  /\ c \in {NotIterating, AtEnd} \cup 0 .. Size(m) /\ v \subseteq Keys
  /\ c # NotIterating => s = <<>>
  /\ \A p \in From(m, 0) : (c = AtEnd \/ (c >= 0 /\ p < c)) => m.table[p].key \in v

HInv ==
  /\ MapInv(map) /\ Stack(calls) /\ Partial(calls, map) /\ Grows(calls, map)
  /\ refused \in BOOLEAN /\ (~refused => Room(calls, map))
  /\ Iterating(calls, map, cursor, visited)

-----------------------------------------------------------------------------
(* Stacks                                                                  *)

\* A sequence is one of its elements.
LEMMA SeqOfIts ==
  ASSUME NEW S, NEW s \in Seq(S)
  PROVE  s \in Seq({s[i] : i \in DOMAIN s})
<1> DEFINE R == {s[i] : i \in DOMAIN s}
<1>1. Len(s) \in Nat /\ DOMAIN s = 1 .. Len(s)
  BY LenProperties
<1>2. \A i \in 1 .. Len(s) : s[i] \in R
  BY <1>1
<1> HIDE DEF R
<1>3. SubSeq(s, 1, Len(s)) \in Seq(R)
  BY <1>1, <1>2, SubSeqProperties
<1>4. s \in Seq(R)
  BY <1>3, SubSeqFull
<1> QED
  BY <1>4 DEF R

\* All but the last element.
LEMMA FrontIs ==
  ASSUME NEW S, NEW s \in Seq(S), s # <<>>
  PROVE  /\ Len(s) \in Nat \ {0} /\ Front(s) \in Seq(S) /\ Len(Front(s)) = Len(s) - 1
         /\ \A i \in 1 .. Len(s) - 1 : Front(s)[i] = s[i]
<1>1. Len(s) \in Nat \ {0} /\ \A i \in 1 .. Len(s) : s[i] \in S
  BY EmptySeq, ElementOfSeq
<1>2. PICK n \in Nat \ {0} : n = Len(s)
  BY <1>1
<1>3. \A i \in 1 .. n - 1 : s[i] \in S
  BY <1>1, <1>2
<1>4. /\ SubSeq(s, 1, n - 1) \in Seq(S) /\ Len(SubSeq(s, 1, n - 1)) = IF 1 <= n - 1 THEN n - 1 - 1 + 1 ELSE 0
      /\ \A i \in 1 .. n - 1 - 1 + 1 : SubSeq(s, 1, n - 1)[i] = s[1 + i - 1]
  BY <1>3, SubSeqProperties
<1> QED
  BY <1>2, <1>4 DEF Front

\* w is s but for its last element.
Tops(s, w) == Len(w) = Len(s) /\ \A i \in 1 .. Len(s) - 1 : w[i] = s[i]

\* The innermost call, and the stack with another one in its place.
LEMMA TopIs ==
  ASSUME Stack(calls), calls # <<>>
  PROVE  /\ Len(calls) \in Nat \ {0} /\ Top = calls[Len(calls)] /\ IsCall(Top) /\ MapInv(Top.old)
         /\ \A c : /\ AtTop(c) \in Seq({calls[i] : i \in DOMAIN calls} \cup {c})
                   /\ Tops(calls, AtTop(c)) /\ AtTop(c)[Len(calls)] = c
<1> DEFINE S == {calls[i] : i \in DOMAIN calls}
<1>1. calls \in Seq(S)
  BY DEF Stack
<1>2. /\ Len(calls) \in Nat \ {0} /\ Front(calls) \in Seq(S) /\ Len(Front(calls)) = Len(calls) - 1
      /\ \A i \in 1 .. Len(calls) - 1 : Front(calls)[i] = calls[i]
  BY <1>1, FrontIs
<1>3. Top = calls[Len(calls)] /\ IsCall(Top) /\ MapInv(Top.old)
  BY <1>2 DEF Top, Last, Stack
<1> HIDE DEF S
<1>4. ASSUME NEW c
      PROVE  AtTop(c) \in Seq(S \cup {c}) /\ Tops(calls, AtTop(c)) /\ AtTop(c)[Len(calls)] = c
  <2>1. Front(calls) \in Seq(S \cup {c})
    BY <1>2, SeqMonotonic
  <2>2. <<c>> \in Seq(S \cup {c}) /\ Len(<<c>>) = 1 /\ <<c>>[1] = c
    OBVIOUS
  <2>3. /\ AtTop(c) \in Seq(S \cup {c}) /\ Len(AtTop(c)) = Len(Front(calls)) + 1
        /\ \A i \in 1 .. Len(Front(calls)) + 1 :
             AtTop(c)[i] = IF i <= Len(Front(calls)) THEN Front(calls)[i] ELSE <<c>>[i - Len(Front(calls))]
    BY <2>1, <2>2, ConcatProperties DEF AtTop
  <2>4. PICK n \in Nat \ {0} : n = Len(calls)
    BY <1>2
  <2>5. AtTop(c)[n] = <<c>>[n - (n - 1)] /\ n - (n - 1) = 1
    BY <2>3, <2>4, <1>2
  <2>6. \A i \in 1 .. n - 1 : AtTop(c)[i] = calls[i]
    BY <2>3, <2>4, <1>2
  <2> QED
    BY <2>2, <2>3, <2>4, <2>5, <2>6, <1>2 DEF Tops
<1> QED
  BY <1>2, <1>3, <1>4 DEF S

\* The innermost call goes on.
LEMMA StackTops ==
  ASSUME NEW s, Stack(s), NEW w, Tops(s, w), Len(s) \in Nat \ {0}, NEW R, w \in Seq(R),
         IsCall(w[Len(s)]), MapInv(w[Len(s)].old),
         w[Len(s)].key = s[Len(s)].key, w[Len(s)].data = s[Len(s)].data
  PROVE  Stack(w)
<1>1. w \in Seq({w[i] : i \in DOMAIN w})
  BY SeqOfIts
<1>2. ASSUME NEW i \in 1 .. Len(w) PROVE IsCall(w[i]) /\ MapInv(w[i].old)
  <2>1. i = Len(s) \/ i \in 1 .. Len(s) - 1
    BY DEF Tops
  <2>2. i \in 1 .. Len(s) - 1 => w[i] = s[i] /\ IsCall(s[i]) /\ MapInv(s[i].old)
    BY DEF Stack, Tops
  <2> QED
    BY <2>1, <2>2
<1>3. ASSUME NEW i \in 1 .. Len(w) - 1 PROVE Waits(w[i], w[i + 1])
  <2>1. i \in 1 .. Len(s) - 1 /\ w[i] = s[i] /\ Waits(s[i], s[i + 1])
    BY DEF Stack, Tops
  <2>2. i + 1 = Len(s) \/ i + 1 \in 1 .. Len(s) - 1
    BY <2>1
  <2>3. i + 1 \in 1 .. Len(s) - 1 => w[i + 1] = s[i + 1]
    BY DEF Tops
  <2>4. w[i + 1].key = s[i + 1].key /\ w[i + 1].data = s[i + 1].data
    BY <2>2, <2>3
  <2> QED
    BY <2>1, <2>4 DEF Waits
<1> QED
  BY <1>1, <1>2, <1>3 DEF Stack

\* What a call is made of.
LEMMA CallIs ==
  ASSUME NEW c, IsCall(c)
  PROVE  /\ c.step \in {"check", "move", "put"} /\ c.key \in Keys /\ c.data \in Data
         /\ c.at \in 0 .. Size(c.old) /\ IsMap(c.old) /\ Size(c.old) \in Nat
         /\ c = Call(c.step, c.key, c.data, c.old, c.at)
<1>1. c \in [step : {"check", "move", "put"}, key : Keys, data : Data, old : {c.old}, at : 0 .. Size(c.old)]
  BY DEF IsCall
<1>2. IsMap(c.old)
  BY DEF IsCall
<1> QED
  BY <1>1, <1>2, MapIs DEF Call

LEMMA IsCallIs ==
  ASSUME NEW step \in {"check", "move", "put"}, NEW k \in Keys, NEW d \in Data,
         NEW old, IsMap(old), NEW at \in 0 .. Size(old)
  PROVE  LET c == Call(step, k, d, old, at) IN
         IsCall(c) /\ c.step = step /\ c.key = k /\ c.data = d /\ c.old = old /\ c.at = at
BY DEF Call, IsCall

\* The innermost call goes on, and perhaps with another table.
LEMMA PartialTops ==
  ASSUME NEW s, Stack(s), NEW m, Partial(s, m), NEW w, Tops(s, w), NEW n \in Nat \ {0}, n = Len(s), NEW x,
         n > 1 => \A k \in Keys : Search(Target(w, x, n - 1), k) = Search(Target(s, m, n - 1), k),
         w[n].step = "move" => \A k \in Keys : Search(x, k) = Part(w[n].old, w[n].at, k)
  PROVE  Partial(w, x)
<1> SUFFICES ASSUME NEW i \in 1 .. n, w[i].step = "move", NEW k \in Keys
             PROVE  Search(Target(w, x, i), k) = Part(w[i].old, Upto(w, i), k)
  BY DEF Partial, Tops
<1>1. Len(w) = n /\ \A j \in 1 .. n - 1 : w[j] = s[j]
  BY DEF Tops
<1>2. CASE i = n
  BY <1>1, <1>2 DEF Target, Upto
<1>3. CASE i = n - 1
  <2>1. n > 1 /\ w[i] = s[i] /\ s[i].step = "move" /\ i \in 1 .. Len(s)
    BY <1>1, <1>3
  <2>2. Search(Target(s, m, i), k) = Part(s[i].old, Upto(s, i), k)
    BY <2>1 DEF Partial
  <2>3. Upto(w, i) = Upto(s, i)
    BY <1>1, <2>1 DEF Upto
  <2>4. Search(Target(w, x, i), k) = Search(Target(s, m, i), k)
    BY <2>1, <1>3
  <2> QED
    BY <2>1, <2>2, <2>3, <2>4
<1>4. CASE i < n - 1
  <2>1. w[i] = s[i] /\ w[i + 1] = s[i + 1] /\ i \in 1 .. Len(s) /\ i + 1 \in 1 .. Len(s) - 1
    BY <1>1, <1>4
  <2>2. s[i + 1].step = "move"
    BY <2>1 DEF Stack, Waits
  <2>3. Target(w, x, i) = Target(s, m, i) /\ Upto(w, i) = Upto(s, i)
    BY <1>1, <2>1, <2>2 DEF Target, Upto
  <2>4. Search(Target(s, m, i), k) = Part(s[i].old, Upto(s, i), k)
    BY <2>1 DEF Partial
  <2> QED
    BY <2>1, <2>3, <2>4
<1> QED
  BY <1>2, <1>3, <1>4

LEMMA GrowsTops ==
  ASSUME NEW s, NEW m, Grows(s, m), IsMap(m), NEW w, Tops(s, w), NEW n \in Nat \ {0}, n = Len(s), NEW x, IsMap(x),
         \A i \in 1 .. n : IsCall(s[i]),
         Size(m) <= Size(x), w[n].step = "move" => Size(w[n].old) <= Size(x)
  PROVE  Grows(w, x)
<1> SUFFICES ASSUME NEW i \in 1 .. n, w[i].step = "move"
             PROVE  Size(w[i].old) <= Size(x)
  BY DEF Grows, Tops
<1>1. CASE i = n
  BY <1>1
<1>2. CASE i < n
  <2>1. w[i] = s[i] /\ Size(s[i].old) <= Size(m)
    BY <1>2 DEF Tops, Grows
  <2>2. Size(s[i].old) \in Nat /\ Size(m) \in Nat /\ Size(x) \in Nat
    BY CallIs, MapIs
  <2> QED
    BY <2>1, <2>2
<1> QED
  BY <1>1, <1>2

\* No new table is needed, or one that is not smaller.
LEMMA NoNewIndex ==
  ASSUME NEW m, IsMap(m), NewIndex(m) = 0
  PROVE  m.entries + m.deleted_entries < Row[m.index].max_entries
<1>1. m.index \in Nat \ {0} /\ m.entries \in Nat /\ m.deleted_entries \in Nat /\ Row[m.index].max_entries \in Nat
  BY MapIs, RowIs
<1> QED
  BY <1>1 DEF NewIndex

LEMMA NewIndexIs ==
  ASSUME NEW m, IsMap(m), NewIndex(m) \in DOMAIN Row
  PROVE  /\ Row[m.index].max_entries <= Row[NewIndex(m)].max_entries
         /\ Size(m) <= Row[NewIndex(m)].size
         /\ m.entries + m.deleted_entries <= Row[m.index].max_entries => m.entries < Row[NewIndex(m)].max_entries
<1> DEFINE r == NewIndex(m)
<1>1. m.index \in DOMAIN Row /\ m.index \in Nat \ {0} /\ m.entries \in Nat /\ m.deleted_entries \in Nat
  BY MapIs, RowIs
<1>2. /\ Row[m.index].max_entries \in Nat \ {0} /\ Row[r].max_entries \in Nat \ {0}
      /\ Row[m.index].size \in Nat \ {0} /\ Row[r].size \in Nat \ {0} /\ r \in Nat \ {0}
  BY <1>1, RowIs
<1>3. CASE m.entries >= Row[m.index].max_entries
  <2>1. r = m.index + 1 /\ r > 1 /\ r - 1 = m.index
    BY <1>1, <1>3 DEF NewIndex
  <2>2. Row[r - 1].max_entries < Row[r].max_entries /\ Row[r - 1].size < Row[r].size
    BY <2>1, HashMapAssumption
  <2> QED
    BY <1>1, <1>2, <2>1, <2>2 DEF Size
<1>4. CASE ~(m.entries >= Row[m.index].max_entries)
  <2>1. r = m.index
    BY <1>1, <1>2, <1>4 DEF NewIndex
  <2> QED
    BY <1>1, <1>2, <1>4, <2>1 DEF Size
<1> QED
  BY <1>3, <1>4

-----------------------------------------------------------------------------
(* Every step keeps the invariant                                          *)

LEMMA FirstRow == 1 \in DOMAIN Row
<1>1. Row \in Seq([max_entries : Nat \ {0}, size : Nat, rehash : Nat]) /\ Row # <<>>
  BY HashMapAssumption
<1> QED
  BY <1>1, EmptySeq, LenProperties

LEMMA NoStack == Stack(<<>>) /\ \A m : Partial(<<>>, m) /\ Grows(<<>>, m)
BY DEF Stack, Partial, Grows

LEMMA InitHInv == Init => HInv
<1> SUFFICES ASSUME Init PROVE HInv
  OBVIOUS
<1>1. MapInv(map) /\ map.index = 1 /\ map.entries = 0 /\ map.deleted_entries = 0
  BY FirstRow, EmptyMapIs DEF Init
<1>2. IsMap(map)
  BY <1>1 DEF MapInv
<1>3. Room(calls, map)
  BY <1>1, <1>2, MapIs DEF Room, Init
<1>4. Iterating(calls, map, cursor, visited)
  BY DEF Iterating, Init, NotIterating, AtEnd
<1> QED
  BY <1>1, <1>3, <1>4, NoStack DEF Init, HInv

LEMMA InsertHInv ==
  ASSUME HInv, NEW k \in Keys, NEW d \in Data, Insert(k, d)
  PROVE  HInv'
<1> DEFINE c == Called(k, d)
<1>1. calls = <<>> /\ cursor = NotIterating /\ calls' = <<c>> /\ UNCHANGED <<map, cursor, visited, refused>>
  BY DEF Insert
<1>2. MapInv(NoOld) /\ IsMap(NoOld)
  BY FirstRow, EmptyMapIs DEF NoOld, MapInv
<1>3. 0 \in 0 .. Size(NoOld)
  BY <1>2, MapIs
<1>4. IsCall(c) /\ c.step = "check" /\ c.old = NoOld
  BY <1>2, <1>3, IsCallIs DEF Called
<1> HIDE DEF c
<1>5. Len(calls') = 1 /\ calls'[1] = c /\ calls' \in Seq({c})
  BY <1>1
<1>6. Stack(calls')
  BY <1>2, <1>4, <1>5, SeqOfIts DEF Stack
<1>7. Partial(calls', map') /\ Grows(calls', map')
  BY <1>4, <1>5 DEF Partial, Grows
<1>8. ~refused => Room(calls', map')
  BY <1>1, <1>4, <1>5 DEF HInv, Room
<1>9. Iterating(calls', map', cursor', visited')
  BY <1>1 DEF HInv, Iterating
<1> QED
  BY <1>1, <1>6, <1>7, <1>8, <1>9 DEF HInv

LEMMA KeepHInv ==
  ASSUME HInv, Keep
  PROVE  HInv'
<1> DEFINE n == Len(calls)
           c == [Top EXCEPT !.step = "put"]
<1>1. /\ calls # <<>> /\ Top.step = "check" /\ refused' = (refused \/ NewIndex(map) # 0)
      /\ calls' = AtTop(c) /\ UNCHANGED <<map, cursor, visited>>
  BY DEF Keep
<1>2. Stack(calls) /\ MapInv(map) /\ IsMap(map)
  BY DEF HInv, MapInv
<1>3. n \in Nat \ {0} /\ Top = calls[n] /\ IsCall(Top) /\ MapInv(Top.old)
  BY <1>1, <1>2, TopIs
<1>4. PICK R : calls' \in Seq(R)
  BY <1>1, <1>2, TopIs
<1>5. Tops(calls, calls') /\ calls'[n] = c
  BY <1>1, <1>2, TopIs
<1>6. IsCall(c) /\ c.step = "put" /\ c.key = Top.key /\ c.data = Top.data /\ c.old = Top.old
  <2>1. Top = Call(Top.step, Top.key, Top.data, Top.old, Top.at) /\ Top.key \in Keys /\ Top.data \in Data
        /\ Top.at \in 0 .. Size(Top.old) /\ IsMap(Top.old)
    BY <1>3, CallIs
  <2>2. c = Call("put", Top.key, Top.data, Top.old, Top.at)
    BY <2>1 DEF Call
  <2> HIDE DEF c
  <2> QED
    BY <2>1, <2>2, IsCallIs
<1> HIDE DEF c
<1>7. Stack(calls')
  BY <1>2, <1>3, <1>4, <1>5, <1>6, StackTops
<1>8. Partial(calls', map')
  <2>1. n > 1 => \A k \in Keys : Search(Target(calls', map', n - 1), k) = Search(Target(calls, map, n - 1), k)
    BY <1>1, <1>3, <1>5, <1>6 DEF Target, Tops
  <2>2. Partial(calls, map) /\ calls'[n].step # "move"
    BY <1>5, <1>6 DEF HInv
  <2> QED
    BY <1>2, <1>3, <1>5, <2>1, <2>2, PartialTops
<1>9. Grows(calls', map')
  <2>1. \A i \in 1 .. n : IsCall(calls[i])
    BY <1>2 DEF Stack
  <2>2. Size(map) <= Size(map') /\ IsMap(map') /\ Grows(calls, map)
    BY <1>1, <1>2, MapIs DEF HInv
  <2> QED
    BY <1>2, <1>3, <1>5, <1>6, <2>1, <2>2, GrowsTops
<1>10. ASSUME ~refused' PROVE Room(calls', map')
  <2>1. Room(calls, map) /\ NewIndex(map) = 0
    BY <1>1, <1>10 DEF HInv
  <2>2. map.entries + map.deleted_entries < Row[map.index].max_entries
    BY <1>2, <2>1, NoNewIndex
  <2>3. ASSUME NEW i \in 1 .. n, calls'[i].step = "move" PROVE calls'[i] = calls[i]
    BY <1>5, <1>6, <2>3, <1>3 DEF Tops
  <2> QED
    BY <1>1, <1>5, <2>1, <2>2, <2>3 DEF Room, Tops
<1>11. Iterating(calls', map', cursor', visited')
  BY <1>1 DEF HInv, Iterating
<1> QED
  BY <1>1, <1>2, <1>7, <1>8, <1>9, <1>10, <1>11 DEF HInv

LEMMA RehashHInv ==
  ASSUME HInv, Rehash
  PROVE  HInv'
<1> DEFINE n == Len(calls)
           r == NewIndex(map)
           c == Call("move", Top.key, Top.data, map, 0)
<1>1. /\ calls # <<>> /\ Top.step = "check" /\ r \in DOMAIN Row /\ map' = EmptyMap(r)
      /\ calls' = AtTop(c) /\ UNCHANGED <<cursor, visited, refused>>
  BY DEF Rehash
<1>2. Stack(calls) /\ MapInv(map) /\ IsMap(map)
  BY DEF HInv, MapInv
<1>3. n \in Nat \ {0} /\ Top = calls[n] /\ IsCall(Top) /\ MapInv(Top.old)
  BY <1>1, <1>2, TopIs
<1>4. PICK R : calls' \in Seq(R)
  BY <1>1, <1>2, TopIs
<1>5. Tops(calls, calls') /\ calls'[n] = c
  BY <1>1, <1>2, TopIs
<1>6. IsCall(c) /\ c.step = "move" /\ c.key = Top.key /\ c.data = Top.data /\ c.old = map /\ c.at = 0
  <2>1. Top.key \in Keys /\ Top.data \in Data /\ 0 \in 0 .. Size(map)
    BY <1>2, <1>3, CallIs, MapIs
  <2> QED
    BY <1>2, <2>1, IsCallIs
<1>7. /\ MapInv(map') /\ IsMap(map') /\ map'.index = r /\ map'.entries = 0 /\ map'.deleted_entries = 0
      /\ \A k \in Keys : Search(map', k) = NoData
  BY <1>1, EmptyMapIs DEF MapInv
<1> HIDE DEF c
<1>8. Stack(calls')
  BY <1>2, <1>3, <1>4, <1>5, <1>6, StackTops
<1>9. Partial(calls', map')
  <2>1. n > 1 => \A k \in Keys : Search(Target(calls', map', n - 1), k) = Search(Target(calls, map, n - 1), k)
    BY <1>1, <1>3, <1>5, <1>6 DEF Target, Tops
  <2>2. \A k \in Keys : Search(map', k) = Part(map, 0, k)
    <3> SUFFICES ASSUME NEW k \in Keys PROVE Part(map, 0, k) = NoData
      BY <1>7
    <3>1. Finds(map, k) => Position(map, k) \in 0 .. Size(map) - 1
      BY <1>2, FindsIs
    <3> QED
      BY <3>1 DEF Part
  <2>3. Partial(calls, map) /\ \A k \in Keys : Search(map', k) = Part(calls'[n].old, calls'[n].at, k)
    BY <1>5, <1>6, <2>2 DEF HInv
  <2> QED
    BY <1>2, <1>3, <1>5, <2>1, <2>3, PartialTops
<1>10. Grows(calls', map')
  <2>1. \A i \in 1 .. n : IsCall(calls[i])
    BY <1>2 DEF Stack
  <2>2. Size(map) <= Size(map') /\ Grows(calls, map)
    BY <1>1, <1>2, <1>7, NewIndexIs DEF HInv, Size
  <2> QED
    BY <1>2, <1>3, <1>5, <1>6, <1>7, <2>1, <2>2, GrowsTops
<1>11. ASSUME ~refused' PROVE Room(calls', map')
  <2>1. Room(calls, map)
    BY <1>1, <1>11 DEF HInv
  <2>2. Row[map.index].max_entries <= Row[r].max_entries /\ map.entries < Row[r].max_entries
    BY <1>1, <1>2, <2>1, NewIndexIs DEF Room
  <2>3. Row[map.index].max_entries \in Nat /\ Row[r].max_entries \in Nat \ {0}
    BY <1>1, <1>2, MapIs, RowIs
  <2>4. ASSUME NEW i \in 1 .. n, calls'[i].step = "move" PROVE calls'[i].old.entries < Row[r].max_entries
    <3>1. CASE i = n
      BY <3>1, <1>5, <1>6, <2>2
    <3>2. CASE i < n
      <4>1. calls'[i] = calls[i]
        BY <1>5, <3>2 DEF Tops
      <4>2. IsMap(calls[i].old) /\ calls[i].old.entries < Row[map.index].max_entries
        BY <2>1, <2>4, <4>1, <1>2, CallIs DEF Room, Stack
      <4>3. calls[i].old.entries \in Nat
        BY <4>2, MapIs
      <4> QED
        BY <4>1, <4>2, <4>3, <2>2, <2>3
    <3> QED
      BY <3>1, <3>2, <1>3
  <2>5. Len(calls') = n /\ calls'[n].step # "put"
    BY <1>5, <1>6 DEF Tops
  <2> QED
    BY <1>7, <2>3, <2>4, <2>5 DEF Room
<1>12. Iterating(calls', map', cursor', visited')
  <2>1. cursor = NotIterating /\ visited \subseteq Keys
    BY <1>1 DEF HInv, Iterating
  <2> QED
    BY <1>1, <2>1 DEF Iterating, NotIterating, AtEnd
<1> QED
  BY <1>1, <1>7, <1>8, <1>9, <1>10, <1>11, <1>12 DEF HInv

\* The first entry from a position on, and what is up to it.
LEMMA FromIs ==
  ASSUME NEW m, MapInv(m), NEW at \in 0 .. Size(m)
  PROVE  /\ From(m, at) = {} => \A k \in Keys : Part(m, at, k) = Search(m, k)
         /\ From(m, at) # {} => LET q == Min(From(m, at)) IN
              /\ q \in at .. Size(m) - 1 /\ Present(m.table[q])
              /\ \A p \in From(m, 0) : p < q => p < at
              /\ \A k \in Keys : Part(m, q, k) = Part(m, at, k)
<1>1. IsMap(m) /\ Size(m) \in Nat
  BY MapIs DEF MapInv
<1>2. ASSUME NEW k \in Keys, Finds(m, k)
      PROVE  Position(m, k) \in From(m, 0)
  <2>1. Position(m, k) \in 0 .. Size(m) - 1 /\ m.table[Position(m, k)].key = k
    BY <1>2, FindsIs
  <2>2. m.table[Position(m, k)] \in Entries
    BY <2>1, <1>1, MapIs
  <2> QED
    BY <2>1, <2>2, KeysAre DEF From
<1>3. \A p \in From(m, 0) : p \in 0 .. Size(m) - 1 /\ (p >= at => p \in From(m, at))
  BY <1>1 DEF From
<1>4. ASSUME From(m, at) = {}, NEW k \in Keys PROVE Part(m, at, k) = Search(m, k)
  <2>1. Finds(m, k) => Position(m, k) < at
    BY <1>1, <1>2, <1>3, <1>4
  <2> QED
    BY <2>1, SearchIs DEF Part
<1>5. ASSUME From(m, at) # {}
      PROVE  LET q == Min(From(m, at)) IN
             /\ q \in at .. Size(m) - 1 /\ Present(m.table[q])
             /\ \A p \in From(m, 0) : p < q => p < at
             /\ \A k \in Keys : Part(m, q, k) = Part(m, at, k)
  <2>1. From(m, at) \subseteq Nat
    BY <1>1 DEF From
  <2>2. PICK q \in From(m, at) : q = Min(From(m, at)) /\ \A p \in From(m, at) : q <= p
    BY <1>5, <2>1, MinIs
  <2>3. q \in at .. Size(m) - 1 /\ Present(m.table[q])
    BY DEF From
  <2>4. ASSUME NEW p \in From(m, 0), p < q PROVE p < at
    BY <1>1, <1>3, <2>2, <2>3, <2>4
  <2>5. ASSUME NEW k \in Keys PROVE Part(m, q, k) = Part(m, at, k)
    <3>1. ASSUME Finds(m, k) PROVE Position(m, k) < q <=> Position(m, k) < at
      <4>1. PICK p \in From(m, 0) : p = Position(m, k)
        BY <1>2, <3>1
      <4>2. p \in Nat
        BY <1>1, <1>3
      <4>3. p < q <=> p < at
        BY <1>1, <4>2, <2>3, <2>4
      <4> QED
        BY <4>1, <4>3
    <3> QED
      BY <3>1 DEF Part
  <2> QED
    BY <2>2, <2>3, <2>4, <2>5
<1> QED
  BY <1>4, <1>5

LEMMA MovedHInv ==
  ASSUME HInv, Moved
  PROVE  HInv'
<1> DEFINE n == Len(calls)
           c == Call("put", Top.key, Top.data, NoOld, 0)
<1>1. /\ calls # <<>> /\ Top.step = "move" /\ From(Top.old, Top.at) = {}
      /\ calls' = AtTop(c) /\ UNCHANGED <<map, cursor, visited, refused>>
  BY DEF Moved
<1>2. Stack(calls) /\ MapInv(map) /\ IsMap(map) /\ Partial(calls, map)
  BY DEF HInv, MapInv
<1>3. n \in Nat \ {0} /\ Top = calls[n] /\ IsCall(Top) /\ MapInv(Top.old)
  BY <1>1, <1>2, TopIs
<1>4. PICK R : calls' \in Seq(R)
  BY <1>1, <1>2, TopIs
<1>5. Tops(calls, calls') /\ calls'[n] = c
  BY <1>1, <1>2, TopIs
<1>6. MapInv(NoOld) /\ IsMap(NoOld)
  BY FirstRow, EmptyMapIs DEF NoOld, MapInv
<1>7. IsCall(c) /\ c.step = "put" /\ c.key = Top.key /\ c.data = Top.data /\ c.old = NoOld
  <2>1. Top.key \in Keys /\ Top.data \in Data /\ 0 \in 0 .. Size(NoOld)
    BY <1>3, <1>6, CallIs, MapIs
  <2> QED
    BY <1>6, <2>1, IsCallIs
<1> HIDE DEF c
<1>8. \A k \in Keys : Search(map, k) = Search(Top.old, k)
  <2> TAKE k \in Keys
  <2>1. Search(Target(calls, map, n), k) = Part(Top.old, Upto(calls, n), k)
    BY <1>1, <1>2, <1>3 DEF Partial
  <2>2. Target(calls, map, n) = map /\ Upto(calls, n) = Top.at
    BY <1>3 DEF Target, Upto
  <2>3. Top.at \in 0 .. Size(Top.old)
    BY <1>3, CallIs
  <2>4. Part(Top.old, Top.at, k) = Search(Top.old, k)
    BY <1>1, <1>3, <2>3, FromIs
  <2> QED
    BY <2>1, <2>2, <2>4
<1>9. Stack(calls')
  BY <1>2, <1>3, <1>4, <1>5, <1>6, <1>7, StackTops
<1>10. Partial(calls', map')
  <2>1. ASSUME n > 1, NEW k \in Keys
        PROVE  Search(Target(calls', map', n - 1), k) = Search(Target(calls, map, n - 1), k)
    <3>1. Target(calls', map', n - 1) = map
      BY <1>1, <1>3, <1>5, <1>7, <2>1 DEF Target, Tops
    <3>2. Target(calls, map, n - 1) = Top.old
      BY <1>1, <1>3, <2>1 DEF Target
    <3> QED
      BY <3>1, <3>2, <1>8
  <2>2. calls'[n].step # "move"
    BY <1>5, <1>7
  <2> QED
    BY <1>2, <1>3, <1>5, <2>1, <2>2, PartialTops
<1>11. Grows(calls', map')
  <2>1. \A i \in 1 .. n : IsCall(calls[i])
    BY <1>2 DEF Stack
  <2>2. Size(map) <= Size(map') /\ IsMap(map') /\ Grows(calls, map)
    BY <1>1, <1>2, MapIs DEF HInv
  <2> QED
    BY <1>2, <1>3, <1>5, <1>7, <2>1, <2>2, GrowsTops
<1>12. ASSUME ~refused' PROVE Room(calls', map')
  <2>1. Room(calls, map)
    BY <1>1, <1>12 DEF HInv
  <2>2. Top.old.entries < Row[map.index].max_entries /\ map.deleted_entries = 0
    BY <1>1, <1>3, <2>1 DEF Room
  <2>3. ASSUME NEW k \in Keys, Finds(map, k) PROVE Finds(Top.old, k)
    BY <1>2, <1>3, <1>8, <2>3, SearchIs
  <2>4. map.entries <= Top.old.entries
    BY <1>2, <1>3, <2>3, SameEntriesCount
  <2>5. map.entries + map.deleted_entries < Row[map.index].max_entries
    <3>1. map.entries \in Nat /\ Row[map.index].max_entries \in Nat
      BY <1>2, MapIs
    <3>2. Top.old.entries \in Nat
      BY <1>3, CallIs, MapIs
    <3> QED
      BY <3>1, <3>2, <2>2, <2>4
  <2>6. ASSUME NEW i \in 1 .. n, calls'[i].step = "move" PROVE calls'[i] = calls[i]
    BY <1>5, <1>7, <2>6, <1>3 DEF Tops
  <2> QED
    BY <1>1, <1>5, <2>1, <2>5, <2>6 DEF Room, Tops
<1>13. Iterating(calls', map', cursor', visited')
  <2>1. cursor = NotIterating
    BY <1>1 DEF HInv, Iterating
  <2> QED
    BY <1>1, <2>1 DEF HInv, Iterating
<1> QED
  BY <1>1, <1>2, <1>9, <1>10, <1>11, <1>12, <1>13 DEF HInv

LEMMA MoveHInv ==
  ASSUME HInv, Move
  PROVE  HInv'
<1> DEFINE n == Len(calls)
           q == Min(From(Top.old, Top.at))
           e == Top.old.table[q]
           c == [Top EXCEPT !.at = q + 1]
           b == Called(e.key, e.data)
           s == AtTop(c)
<1>1. /\ calls # <<>> /\ Top.step = "move" /\ From(Top.old, Top.at) # {}
      /\ calls' = Append(s, b) /\ UNCHANGED <<map, cursor, visited, refused>>
  BY DEF Move
<1>2. Stack(calls) /\ MapInv(map) /\ IsMap(map) /\ Partial(calls, map)
  BY DEF HInv, MapInv
<1>3. n \in Nat \ {0} /\ Top = calls[n] /\ IsCall(Top) /\ MapInv(Top.old)
  BY <1>1, <1>2, TopIs
<1>4. PICK R : s \in Seq(R)
  BY <1>1, <1>2, TopIs
<1>5. Tops(calls, s) /\ s[n] = c
  BY <1>1, <1>2, TopIs
<1>6. /\ Top.at \in 0 .. Size(Top.old) /\ Size(Top.old) \in Nat /\ IsMap(Top.old)
      /\ Top = Call(Top.step, Top.key, Top.data, Top.old, Top.at) /\ Top.key \in Keys /\ Top.data \in Data
  BY <1>3, CallIs
<1>7. /\ q \in Top.at .. Size(Top.old) - 1 /\ Present(e)
      /\ \A k \in Keys : Part(Top.old, q, k) = Part(Top.old, Top.at, k)
  BY <1>1, <1>3, <1>6, FromIs
<1>8. IsCall(c) /\ c.step = "move" /\ c.key = Top.key /\ c.data = Top.data /\ c.old = Top.old /\ c.at = q + 1
  <2>1. c = Call("move", Top.key, Top.data, Top.old, q + 1)
    BY <1>1, <1>6 DEF Call
  <2>2. q + 1 \in 0 .. Size(Top.old)
    BY <1>6, <1>7
  <2> HIDE DEF c
  <2> QED
    BY <1>6, <2>1, <2>2, IsCallIs
<1>9. e \in Entries /\ e.key \in Keys /\ e.data \in Data /\ e = [key |-> e.key, data |-> e.data]
  <2>1. e \in Entries
    BY <1>6, <1>7, MapIs
  <2>2. e.key \in Keys /\ e.data \in Data
    BY <2>1, <1>7, KeysAre
  <2>3. e = [key |-> e.key, data |-> e.data]
    <3> HIDE DEF e
    <3> QED
      BY <2>1 DEF Entries
  <2> QED
    BY <2>1, <2>2, <2>3
<1>10. MapInv(NoOld) /\ IsMap(NoOld)
  BY FirstRow, EmptyMapIs DEF NoOld, MapInv
<1>11. IsCall(b) /\ b.step = "check" /\ b.key = e.key /\ b.data = e.data /\ b.old = NoOld
  <2>1. 0 \in 0 .. Size(NoOld)
    BY <1>10, MapIs
  <2> QED
    BY <1>9, <1>10, <2>1, IsCallIs DEF Called
<1> HIDE DEF b, s, c, e, q
<1>12. Stack(s)
  BY <1>2, <1>3, <1>4, <1>5, <1>8, StackTops
<1>13. /\ Len(calls') = n + 1 /\ calls'[n + 1] = b /\ calls'[n] = c /\ calls' \in Seq(R \cup {b})
       /\ \A i \in 1 .. n : calls'[i] = s[i]
       /\ \A i \in 1 .. n - 1 : calls'[i] = calls[i]
  <2>1. Len(s) = n /\ \A i \in 1 .. n - 1 : s[i] = calls[i]
    BY <1>5 DEF Tops
  <2>2. s \in Seq(R \cup {b})
    BY <1>4, SeqMonotonic
  <2> QED
    BY <1>1, <1>3, <1>5, <2>1, <2>2
<1>14. Stack(calls')
  <2>1. calls' \in Seq({calls'[i] : i \in DOMAIN calls'})
    BY <1>13, SeqOfIts
  <2>2. ASSUME NEW i \in 1 .. Len(calls') PROVE IsCall(calls'[i]) /\ MapInv(calls'[i].old)
    <3>1. CASE i = n + 1
      BY <3>1, <1>10, <1>11, <1>13
    <3>2. CASE i \in 1 .. n
      BY <3>2, <1>5, <1>12, <1>13 DEF Stack, Tops
    <3> QED
      BY <3>1, <3>2, <1>3, <1>13
  <2>3. ASSUME NEW i \in 1 .. Len(calls') - 1 PROVE Waits(calls'[i], calls'[i + 1])
    <3>1. CASE i = n
      <4>1. c.at >= 1 /\ c.old.table[c.at - 1] = e
        BY <1>6, <1>7, <1>8 DEF e
      <4> QED
        BY <3>1, <4>1, <1>7, <1>8, <1>9, <1>11, <1>13 DEF Waits
    <3>2. CASE i < n
      <4>1. i \in 1 .. n - 1 /\ Len(s) = n
        BY <3>2, <1>3, <1>5 DEF Tops
      <4>2. Waits(s[i], s[i + 1])
        BY <4>1, <1>12 DEF Stack
      <4> QED
        BY <4>1, <4>2, <1>13
    <3> QED
      BY <3>1, <3>2, <1>3, <1>13
  <2> QED
    BY <2>1, <2>2, <2>3 DEF Stack
<1>15. Partial(calls', map')
  <2> SUFFICES ASSUME NEW i \in 1 .. n + 1, calls'[i].step = "move", NEW k \in Keys
               PROVE  Search(Target(calls', map', i), k) = Part(calls'[i].old, Upto(calls', i), k)
    BY <1>13 DEF Partial
  <2>1. CASE i = n + 1
    BY <2>1, <1>11, <1>13
  <2>2. CASE i = n
    <3>1. Target(calls', map', i) = map
      BY <2>2, <1>1, <1>11, <1>13 DEF Target
    <3>2. calls'[i].at = q + 1 /\ i < Len(calls') /\ q \in Int
      BY <2>2, <1>3, <1>6, <1>7, <1>8, <1>13
    <3>3. Upto(calls', i) = q
      BY <3>2 DEF Upto
    <3>4. Search(Target(calls, map, n), k) = Part(Top.old, Upto(calls, n), k)
      BY <1>1, <1>2, <1>3 DEF Partial
    <3>5. Target(calls, map, n) = map /\ Upto(calls, n) = Top.at
      BY <1>3 DEF Target, Upto
    <3> QED
      BY <3>1, <3>3, <3>4, <3>5, <2>2, <1>7, <1>8, <1>13
  <2>3. CASE i < n
    <3>1. i \in 1 .. n /\ calls'[i] = calls[i] /\ calls[i].step = "move"
      BY <2>3, <1>13
    <3>2. calls'[i + 1].step = calls[i + 1].step /\ calls'[i + 1].old = calls[i + 1].old
      <4>1. CASE i + 1 = n
        BY <4>1, <1>1, <1>3, <1>8, <1>13
      <4>2. CASE i + 1 < n
        BY <4>2, <1>13, <1>3
      <4> QED
        BY <4>1, <4>2, <2>3, <1>3
    <3>3. Target(calls', map', i) = Target(calls, map, i) /\ Upto(calls', i) = Upto(calls, i)
      BY <2>3, <3>1, <3>2, <1>1, <1>3, <1>13 DEF Target, Upto
    <3> QED
      BY <3>1, <3>3, <1>2 DEF Partial
  <2> QED
    BY <2>1, <2>2, <2>3, <1>3
<1>16. \A i \in 1 .. n + 1 : calls'[i].step = "move" => i \in 1 .. n /\ calls'[i].old = calls[i].old /\ calls[i].step = "move"
  <2> TAKE i \in 1 .. n + 1
  <2>1. CASE i = n + 1
    BY <2>1, <1>11, <1>13
  <2>2. CASE i = n
    BY <2>2, <1>1, <1>3, <1>8, <1>13
  <2>3. CASE i < n
    BY <2>3, <1>13, <1>3
  <2> QED
    BY <2>1, <2>2, <2>3, <1>3
<1>17. Grows(calls', map')
  BY <1>1, <1>13, <1>16 DEF HInv, Grows
<1>18. ~refused => Room(calls', map')
  BY <1>1, <1>11, <1>13, <1>16 DEF HInv, Room
<1>19. Iterating(calls', map', cursor', visited')
  <2>1. cursor = NotIterating
    BY <1>1 DEF HInv, Iterating
  <2> QED
    BY <1>1, <2>1 DEF HInv, Iterating
<1> QED
  BY <1>1, <1>2, <1>14, <1>15, <1>17, <1>18, <1>19 DEF HInv

\* The entry of a nested call has room, for the table it goes to is not smaller than the
\* one it comes from; what has then come to the table is up to the position of the mover.
LEMMA NestedPut ==
  ASSUME NEW s, Stack(s), NEW m, MapInv(m), Partial(s, m), Grows(s, m),
         NEW n \in Nat, n > 1, n = Len(s), s[n].step = "put"
  PROVE  LET c == s[n - 1] IN
         /\ c.step = "move" /\ Has(m, Put(m, s[n].key, s[n].data), s[n].key, s[n].data)
         /\ \A k \in Keys : Search(Put(m, s[n].key, s[n].data), k) = Part(c.old, c.at, k)
<1> DEFINE c == s[n - 1]
           x == s[n].key
           d == s[n].data
           p == c.at - 1
           w == Removed(c.old, x)
<1>1. Waits(c, s[n]) /\ IsCall(c) /\ MapInv(c.old) /\ IsCall(s[n])
  BY DEF Stack
<1>2. /\ x \in Keys /\ d \in Data /\ c.at \in 0 .. Size(c.old) /\ IsMap(c.old) /\ Size(c.old) \in Nat
      /\ c.step = "move" /\ c.at >= 1 /\ c.old.table[p] = [key |-> x, data |-> d]
  BY <1>1, CallIs DEF Waits
<1>3. IsMap(m) /\ Size(m) \in Nat /\ m.entries \in Nat
  BY MapIs DEF MapInv
<1>4. \A k \in Keys : Search(m, k) = Part(c.old, p, k)
  <2>1. n - 1 \in 1 .. Len(s) /\ Target(s, m, n - 1) = m /\ Upto(s, n - 1) = p
    BY DEF Target, Upto
  <2> QED
    BY <1>2, <2>1 DEF Partial
<1> HIDE DEF c, x, d
<1>5. p \in 0 .. Size(c.old) - 1 /\ c.old.table[p].key = x /\ c.old.table[p].data = d
  BY <1>2
<1>6. Finds(c.old, x) /\ Position(c.old, x) = p /\ Search(c.old, x) = d
  BY <1>1, <1>2, <1>5, FindsIs, SearchIs
<1> HIDE DEF p
<1>7. ASSUME NEW k \in Keys
      PROVE  Part(c.old, p, k) # NoData => Finds(c.old, k) /\ k # x /\ Search(c.old, k) # NoData
  <2>1. Part(c.old, p, k) # NoData => Finds(c.old, k) /\ Position(c.old, k) < p
    BY DEF Part
  <2>2. Finds(c.old, k) => Search(c.old, k) # NoData
    BY <1>1, SearchIs
  <2>3. ~(p < p)
    BY <1>5
  <2> QED
    BY <2>1, <2>2, <2>3, <1>6
<1>8. m.entries < Size(m)
  <2>1. /\ MapInv(w) /\ w.entries = c.old.entries - 1
        /\ \A k \in Keys : Search(w, k) = IF k = x THEN NoData ELSE Search(c.old, k)
    BY <1>1, <1>2, <1>6, RemoveIs
  <2> HIDE DEF w
  <2>2. ASSUME NEW k \in Keys, Finds(m, k) PROVE Finds(w, k)
    <3>1. Part(c.old, p, k) # NoData
      BY <2>2, <1>4, SearchIs
    <3>2. Search(w, k) # NoData
      BY <3>1, <1>7, <2>1
    <3> QED
      BY <3>2, <2>1, SearchIs
  <2>3. m.entries <= w.entries
    BY <2>1, <2>2, SameEntriesCount
  <2>4. c.old.entries \in Nat /\ c.old.entries <= Size(c.old)
    BY <1>2, CountsAre, MapIs
  <2>5. Size(c.old) <= Size(m)
    BY <1>2 DEF Grows, c
  <2> QED
    BY <1>2, <1>3, <2>1, <2>3, <2>4, <2>5
<1>9. Has(m, Put(m, x, d), x, d)
  <2>1. m.entries # Size(m)
    BY <1>3, <1>8
  <2> QED
    BY <1>2, <2>1, PutDoes
<1>10. ASSUME NEW k \in Keys
       PROVE  Search(Put(m, x, d), k) = Part(c.old, c.at, k)
  <2>1. Search(Put(m, x, d), k) = IF k = x THEN d ELSE Part(c.old, p, k)
    BY <1>4, <1>9 DEF Has
  <2>2. CASE k = x
    <3>1. p < c.at
      BY <1>2 DEF p
    <3> QED
      BY <2>1, <2>2, <3>1, <1>6 DEF Part
  <2>3. CASE k # x
    <3>1. ASSUME Finds(c.old, k) PROVE Position(c.old, k) < p <=> Position(c.old, k) < c.at
      <4>1. PICK y \in 0 .. Size(c.old) - 1 : y = Position(c.old, k) /\ c.old.table[y].key = k
        BY <1>1, <3>1, FindsIs
      <4>2. y # p
        BY <4>1, <2>3, <1>5
      <4> QED
        BY <4>1, <4>2, <1>2 DEF p
    <3> QED
      BY <2>1, <2>3, <3>1 DEF Part
  <2> QED
    BY <2>2, <2>3
<1> QED
  BY <1>2, <1>9, <1>10 DEF c, x, d

\* An insertion fails only once there was no new table, and then it changes nothing.
LEMMA PutEntryIs ==
  ASSUME HInv, PutEntry
  PROVE  \/ Has(map, map', Top.key, Top.data)
         \/ Len(calls) = 1 /\ refused /\ map' = map
<1> DEFINE n == Len(calls)
<1>1. calls # <<>> /\ Top.step = "put" /\ map' = Put(map, Top.key, Top.data)
  BY DEF PutEntry
<1>2. Stack(calls) /\ MapInv(map) /\ IsMap(map) /\ Partial(calls, map) /\ Grows(calls, map)
  BY DEF HInv, MapInv
<1>3. n \in Nat \ {0} /\ Top = calls[n] /\ Top.key \in Keys /\ Top.data \in Data
  BY <1>1, <1>2, TopIs, CallIs
<1>4. CASE n > 1
  BY <1>1, <1>2, <1>3, <1>4, NestedPut
<1>5. CASE n = 1
  <2>1. Has(map, map', Top.key, Top.data) \/ (map' = map /\ map.entries = Size(map))
    BY <1>1, <1>2, <1>3, PutDoes
  <2>2. map.entries = Size(map) => refused
    <3> SUFFICES ASSUME ~refused PROVE map.entries # Size(map)
      OBVIOUS
    <3>1. map.entries + map.deleted_entries < Row[map.index].max_entries
      BY <1>1, <1>3 DEF HInv, Room
    <3>2. /\ map.entries \in Nat /\ map.deleted_entries \in Nat /\ Size(map) \in Nat
          /\ Row[map.index].max_entries \in Nat /\ Row[map.index].max_entries < Size(map)
      BY <1>2, MapIs
    <3> QED
      BY <3>1, <3>2
  <2> QED
    BY <1>5, <2>1, <2>2
<1>6. n = 1 \/ n > 1
  <2> HIDE DEF n
  <2> QED
    BY <1>3
<1> QED
  BY <1>4, <1>5, <1>6

LEMMA PutEntryHInv ==
  ASSUME HInv, PutEntry
  PROVE  HInv'
<1> DEFINE n == Len(calls)
<1>1. /\ calls # <<>> /\ Top.step = "put" /\ map' = Put(map, Top.key, Top.data)
      /\ calls' = Front(calls) /\ UNCHANGED <<cursor, visited, refused>>
  BY DEF PutEntry
<1>2. Stack(calls) /\ MapInv(map) /\ IsMap(map) /\ Partial(calls, map) /\ Grows(calls, map)
  BY DEF HInv, MapInv
<1>3. n \in Nat \ {0} /\ Top = calls[n]
  BY <1>1, <1>2, TopIs
<1>4. PICK R : calls \in Seq(R)
  BY <1>2 DEF Stack
<1>5. Front(calls) \in Seq(R) /\ Len(calls') = n - 1 /\ \A i \in 1 .. n - 1 : calls'[i] = calls[i]
  BY <1>1, <1>4, FrontIs
<1>6. MapInv(map') /\ IsMap(map') /\ map'.index = map.index /\ Size(map') = Size(map)
  BY <1>2, PutEntryIs DEF Has, MapInv, Size
<1>7. Stack(calls')
  <2>1. calls' \in Seq({calls'[i] : i \in DOMAIN calls'})
    BY <1>1, <1>5, SeqOfIts
  <2>2. ASSUME NEW i \in 1 .. Len(calls') PROVE IsCall(calls'[i]) /\ MapInv(calls'[i].old)
    <3>1. i \in 1 .. n /\ calls'[i] = calls[i]
      BY <1>3, <1>5
    <3> QED
      BY <3>1, <1>2 DEF Stack
  <2>3. ASSUME NEW i \in 1 .. Len(calls') - 1 PROVE Waits(calls'[i], calls'[i + 1])
    <3>1. i \in 1 .. n - 1 /\ calls'[i] = calls[i] /\ calls'[i + 1] = calls[i + 1]
      BY <1>3, <1>5
    <3> QED
      BY <3>1, <1>2 DEF Stack
  <2> QED
    BY <2>1, <2>2, <2>3 DEF Stack
<1>8. Partial(calls', map')
  <2> SUFFICES ASSUME NEW i \in 1 .. n - 1, calls[i].step = "move", NEW k \in Keys
               PROVE  Search(Target(calls', map', i), k) = Part(calls[i].old, Upto(calls', i), k)
    BY <1>5 DEF Partial
  <2>1. CASE i = n - 1
    <3>1. Target(calls', map', i) = map' /\ Upto(calls', i) = calls[i].at
      BY <2>1, <1>5 DEF Target, Upto
    <3>2. n > 1
      BY <2>1, <1>3
    <3> QED
      BY <2>1, <3>1, <3>2, <1>1, <1>2, <1>3, NestedPut
  <2>2. CASE i < n - 1
    <3>1. i + 1 \in 1 .. n - 1 /\ i \in 1 .. n
      BY <2>2, <1>3
    <3>2. calls[i + 1].step = "move"
      BY <3>1, <1>2 DEF Stack, Waits
    <3>3. Target(calls', map', i) = Target(calls, map, i) /\ Upto(calls', i) = Upto(calls, i)
      BY <2>2, <3>1, <3>2, <1>3, <1>5 DEF Target, Upto
    <3> QED
      BY <3>1, <3>3, <1>2 DEF Partial
  <2> QED
    BY <2>1, <2>2, <1>3
<1>9. Grows(calls', map')
  BY <1>2, <1>3, <1>5, <1>6 DEF Grows
<1>10. ASSUME ~refused PROVE Room(calls', map')
  <2>1. Room(calls, map) /\ Has(map, map', Top.key, Top.data)
    BY <1>10, PutEntryIs DEF HInv
  <2>2. map.entries + map.deleted_entries < Row[map.index].max_entries
    BY <2>1, <1>1, <1>3 DEF Room
  <2>3. /\ map.entries \in Nat /\ map.deleted_entries \in Nat /\ map'.entries \in Nat /\ map'.deleted_entries \in Nat
        /\ Row[map.index].max_entries \in Nat
    BY <1>2, <1>6, MapIs
  <2>4. map'.entries + map'.deleted_entries <= Row[map.index].max_entries /\ (map.deleted_entries = 0 => map'.deleted_entries = 0)
    BY <2>1, <2>2, <2>3 DEF Has
  <2>5. ASSUME calls' # <<>> PROVE calls'[Len(calls')].step = "move"
    <3>1. n - 1 \in 1 .. n - 1
      BY <2>5, <1>1, <1>3, <1>5, EmptySeq
    <3>2. Waits(calls[n - 1], calls[n - 1 + 1])
      BY <3>1, <1>2 DEF Stack
    <3> QED
      BY <3>1, <3>2, <1>5 DEF Waits
  <2>6. \A i \in 1 .. n - 1 : calls[i].step = "move" => calls[i].old.entries < Row[map.index].max_entries /\ map.deleted_entries = 0
    BY <2>1, <1>3 DEF Room
  <2> QED
    BY <2>4, <2>5, <2>6, <1>5, <1>6 DEF Room
<1>11. Iterating(calls', map', cursor', visited')
  <2>1. cursor = NotIterating /\ visited \subseteq Keys
    BY <1>1 DEF HInv, Iterating
  <2> QED
    BY <1>1, <2>1 DEF Iterating, NotIterating, AtEnd
<1>12. refused \in BOOLEAN
  BY DEF HInv
<1> QED
  BY <1>1, <1>6, <1>7, <1>8, <1>9, <1>10, <1>11, <1>12 DEF HInv

LEMMA RemoveKeyHInv ==
  ASSUME HInv, NEW k \in Keys, RemoveKey(k)
  PROVE  HInv'
<1>1. calls = <<>> /\ Finds(map, k) /\ map' = Removed(map, k) /\ UNCHANGED <<calls, cursor, visited, refused>>
  BY DEF RemoveKey, Removed
<1>2. MapInv(map) /\ IsMap(map)
  BY DEF HInv, MapInv
<1>3. /\ MapInv(map') /\ map'.index = map.index
      /\ map'.entries = map.entries - 1 /\ map'.deleted_entries = map.deleted_entries + 1
      /\ From(map', 0) \subseteq From(map, 0) /\ \A p \in From(map', 0) : map'.table[p] = map.table[p]
  BY <1>1, <1>2, RemoveIs
<1>4. Size(map') = Size(map)
  BY <1>3 DEF Size
<1>5. map.entries \in Nat /\ map.deleted_entries \in Nat
  BY <1>2, MapIs
<1>6. ~refused => Room(calls', map')
  BY <1>1, <1>3, <1>5 DEF HInv, Room
<1>7. Iterating(calls', map', cursor', visited')
  BY <1>1, <1>3, <1>4 DEF HInv, Iterating
<1> QED
  BY <1>1, <1>3, <1>6, <1>7, NoStack DEF HInv

LEMMA IterateHInv ==
  ASSUME HInv, Iterate
  PROVE  HInv'
<1>1. calls = <<>> /\ cursor' = 0 /\ visited' = {} /\ UNCHANGED <<map, calls, refused>>
  BY DEF Iterate
<1>2. Size(map) \in Nat /\ IsMap(map)
  BY MapIs DEF HInv, MapInv
<1>3. \A p \in From(map, 0) : p \in Nat
  BY <1>2 DEF From
<1>4. Iterating(calls', map', cursor', visited')
  BY <1>1, <1>2, <1>3 DEF Iterating, NotIterating, AtEnd
<1> QED
  BY <1>1, <1>4 DEF HInv

LEMMA EndIterationHInv ==
  ASSUME HInv, EndIteration
  PROVE  HInv'
<1>1. cursor' = NotIterating /\ visited' = {} /\ UNCHANGED <<map, calls, refused>>
  BY DEF EndIteration
<1>2. Iterating(calls', map', cursor', visited')
  BY <1>1 DEF Iterating, NotIterating, AtEnd
<1> QED
  BY <1>1, <1>2 DEF HInv

LEMMA NextEntryHInv ==
  ASSUME HInv, NextEntry
  PROVE  HInv'
<1>1. cursor # NotIterating /\ cursor # AtEnd /\ UNCHANGED <<map, calls, refused>>
  BY DEF NextEntry
<1>2. MapInv(map) /\ IsMap(map) /\ Size(map) \in Nat
  BY MapIs DEF HInv, MapInv
<1>3. /\ cursor \in 0 .. Size(map) /\ visited \subseteq Keys /\ calls = <<>>
      /\ \A p \in From(map, 0) : p < cursor => map.table[p].key \in visited
  BY <1>1, <1>2 DEF HInv, Iterating
<1>4. \A p \in From(map, 0) : p \in 0 .. Size(map) - 1 /\ (p >= cursor => p \in From(map, cursor))
  BY <1>2, <1>3 DEF From
<1>5. CASE From(map, cursor) = {}
  <2>1. cursor' = AtEnd /\ visited' = visited
    BY <1>5 DEF NextEntry
  <2>2. \A p \in From(map, 0) : map.table[p].key \in visited
    BY <1>3, <1>4, <1>5
  <2>3. Iterating(calls', map', cursor', visited')
    BY <1>1, <1>3, <2>1, <2>2 DEF Iterating
  <2> QED
    BY <1>1, <2>3 DEF HInv
<1>6. CASE From(map, cursor) # {}
  <2> DEFINE q == Min(From(map, cursor))
  <2>1. cursor' = q + 1 /\ visited' = visited \cup {map.table[q].key}
    BY <1>6 DEF NextEntry
  <2>2. /\ q \in cursor .. Size(map) - 1 /\ Present(map.table[q])
        /\ \A p \in From(map, 0) : p < q => p < cursor
    BY <1>2, <1>3, <1>6, FromIs
  <2> HIDE DEF q
  <2>3. map.table[q].key \in Keys
    <3>1. map.table[q] \in Entries
      BY <1>2, <1>3, <2>2, MapIs
    <3> QED
      BY <3>1, <2>2, KeysAre
  <2>4. ASSUME NEW p \in From(map, 0), p < q + 1 PROVE map.table[p].key \in visited'
    <3>1. p < q \/ p = q
      BY <1>4, <2>2, <2>4, <1>3
    <3> QED
      BY <3>1, <2>1, <2>2, <1>3
  <2>5. Iterating(calls', map', cursor', visited')
    BY <1>1, <1>2, <1>3, <2>1, <2>2, <2>3, <2>4 DEF Iterating, NotIterating, AtEnd
  <2> QED
    BY <1>1, <2>5 DEF HInv
<1> QED
  BY <1>5, <1>6

LEMMA NextHInv == HInv /\ [Next]_vars => HInv'
<1> SUFFICES ASSUME HInv, [Next]_vars PROVE HInv'
  OBVIOUS
<1>1. CASE \E k \in Keys : RemoveKey(k)
  BY <1>1, RemoveKeyHInv
<1>2. CASE \E k \in Keys, d \in Data : Insert(k, d)
  BY <1>2, InsertHInv
<1>3. CASE Keep
  BY <1>3, KeepHInv
<1>4. CASE Rehash
  BY <1>4, RehashHInv
<1>5. CASE Move
  BY <1>5, MoveHInv
<1>6. CASE Moved
  BY <1>6, MovedHInv
<1>7. CASE PutEntry
  BY <1>7, PutEntryHInv
<1>8. CASE Iterate
  BY <1>8, IterateHInv
<1>9. CASE NextEntry
  BY <1>9, NextEntryHInv
<1>10. CASE EndIteration
  BY <1>10, EndIterationHInv
<1>11. CASE UNCHANGED vars
  BY <1>11 DEF vars, HInv
<1> QED
  BY <1>1, <1>2, <1>3, <1>4, <1>5, <1>6, <1>7, <1>8, <1>9, <1>10, <1>11 DEF Next

-----------------------------------------------------------------------------
(* Theorems                                                                *)

\* The inductive invariant: tables are whole, calls wait for the calls they made, and
\* what they have moved so far is found in the table they move it to.
THEOREM SpecHInv == Spec => []HInv
BY InitHInv, NextHInv, PTL DEF Spec

\* Tables, their counters and the calls are what they should be.
THEOREM SpecTypeOK == Spec => []TypeOK
<1>1. HInv => TypeOK
  <2> SUFFICES ASSUME HInv PROVE TypeOK
    OBVIOUS
  <2>1. IsMap(map) /\ cursor \in {NotIterating, AtEnd} \cup 0 .. Size(map) /\ visited \subseteq Keys /\ refused \in BOOLEAN
    BY DEF HInv, MapInv, Iterating
  <2>2. calls \in Seq({calls[i] : i \in DOMAIN calls}) /\ \A i \in 1 .. Len(calls) : IsCall(calls[i])
    BY DEF HInv, Stack
  <2>3. DOMAIN calls = 1 .. Len(calls)
    BY <2>2, LenProperties
  <2> QED
    BY <2>1, <2>2, <2>3 DEF TypeOK
<1> QED
  BY <1>1, SpecHInv, PTL

\* Every entry is found where it is, and while there are new tables a search for a key
\* that is not there comes to a free entry (igt_map_search_pre_hashed()).
THEOREM SpecSearchesEnd == Spec => []SearchesEnd
<1>1. HInv => SearchesEnd
  <2> SUFFICES ASSUME HInv PROVE SearchesEnd
    OBVIOUS
  <2>1. EntriesAreFound /\ IsMap(map)
    BY DEF HInv, MapInv, EntriesAreFound
  <2>2. ASSUME ~refused PROVE \E p \in 0 .. Size(map) - 1 : map.table[p].key = Free
    <3> DEFINE S == From(map, 0) \cup Marks(map)
    <3>1. map.entries + map.deleted_entries <= Row[map.index].max_entries
      BY <2>2 DEF HInv, Room
    <3>2. /\ IsFiniteSet(From(map, 0)) /\ IsFiniteSet(Marks(map)) /\ S \subseteq 0 .. Size(map) - 1
          /\ map.entries + map.deleted_entries = Cardinality(S)
      BY <2>1, CountsAre
    <3>3. /\ map.entries \in Nat /\ map.deleted_entries \in Nat /\ Size(map) \in Nat
          /\ Row[map.index].max_entries \in Nat /\ Row[map.index].max_entries < Size(map)
      BY <2>1, MapIs
    <3>4. Cardinality(S) # Size(map)
      BY <3>1, <3>2, <3>3
    <3>5. S # 0 .. Size(map) - 1
      <4>1. Cardinality(0 .. Size(map) - 1) = Size(map)
        BY <3>3, FS_Interval
      <4> QED
        BY <4>1, <3>4
    <3>6. PICK p \in 0 .. Size(map) - 1 : p \notin S
      BY <3>2, <3>5
    <3>7. map.table[p].key \in {Free, Deleted} /\ map.table[p].key # Deleted
      BY <3>6 DEF From, Marks, Present
    <3> QED
      BY <3>7
  <2> QED
    BY <2>1, <2>2 DEF SearchesEnd, FreeEntryLeft
<1> QED
  BY <1>1, SpecHInv, PTL

\* An iteration during which entries are removed comes to everything that is still
\* there at its end (igt_map_foreach()).
THEOREM SpecIterationIsComplete == Spec => []IterationIsComplete
<1>1. HInv => IterationIsComplete
  BY DEF HInv, Iterating, IterationIsComplete
<1> QED
  BY <1>1, SpecHInv, PTL

-----------------------------------------------------------------------------
(* The map implements a dictionary                                         *)

\* The table that searches use changes with the last entry that moved, and with the
\* entry that was to be inserted.
LEMMA NestedSteps ==
  ASSUME HInv, calls # <<>>, calls' # <<>>, Keep \/ Rehash \/ Move \/ Moved \/ PutEntry
  PROVE  Request' = Request /\ \A k \in Keys : Search(Whole', k) = Search(Whole, k)
<1> DEFINE n == Len(calls)
<1>1. Stack(calls) /\ MapInv(map) /\ IsMap(map) /\ Partial(calls, map)
  BY DEF HInv, MapInv
<1>2. n \in Nat \ {0} /\ Top = calls[n] /\ IsCall(Top) /\ MapInv(Top.old)
  BY <1>1, TopIs
<1>3. ASSUME n > 1 PROVE calls[1].step = "move"
  <2>1. 1 \in 1 .. n - 1
    BY <1>2, <1>3
  <2>2. Waits(calls[1], calls[1 + 1])
    BY <1>1, <2>1 DEF Stack
  <2> QED
    BY <2>2 DEF Waits
<1>0. n = 1 \/ n > 1
  <2> HIDE DEF n
  <2> QED
    BY <1>2
<1>4. ASSUME calls'[1].key = calls[1].key, calls'[1].data = calls[1].data
      PROVE  Request' = Request
  BY <1>4 DEF Request
<1>5. ASSUME calls[1].step = "move", calls'[1].step = "move", calls'[1].old = calls[1].old
      PROVE  Whole' = Whole
  BY <1>5 DEF Whole
<1>6. \A c : Tops(calls, AtTop(c)) /\ AtTop(c)[n] = c
  BY <1>1, TopIs
<1>7. ASSUME NEW c, calls' = AtTop(c), c.key = Top.key, c.data = Top.data
      PROVE  calls'[1].key = calls[1].key /\ calls'[1].data = calls[1].data /\ (n > 1 => calls'[1] = calls[1])
  BY <1>2, <1>6, <1>7 DEF Tops
<1>8. CASE Keep
  <2> DEFINE c == [Top EXCEPT !.step = "put"]
  <2>1. calls' = AtTop(c) /\ Top.step = "check" /\ map' = map
    BY <1>8 DEF Keep
  <2>2. Top = Call(Top.step, Top.key, Top.data, Top.old, Top.at)
    BY <1>2, CallIs
  <2>3. c.key = Top.key /\ c.data = Top.data /\ c.step = "put"
    BY <2>2 DEF Call
  <2>4. Whole' = Whole
    <3> HIDE DEF c
    <3>1. CASE n > 1
      BY <3>1, <1>3, <1>5, <1>7, <2>1, <2>3
    <3>2. CASE n = 1
      <4>1. calls'[1] = c /\ calls[1] = Top
        BY <3>2, <1>2, <1>6, <2>1
      <4> QED
        BY <4>1, <2>1, <2>3 DEF Whole
    <3> QED
      BY <3>1, <3>2, <1>0
  <2> QED
    BY <2>1, <2>3, <2>4, <1>4, <1>7
<1>9. CASE Rehash
  <2> DEFINE c == Call("move", Top.key, Top.data, map, 0)
  <2>1. calls' = AtTop(c) /\ Top.step = "check"
    BY <1>9 DEF Rehash
  <2>2. c.key = Top.key /\ c.data = Top.data /\ c.step = "move" /\ c.old = map
    BY DEF Call
  <2>3. CASE n > 1
    BY <2>1, <2>2, <2>3, <1>3, <1>4, <1>5, <1>7
  <2>4. CASE n = 1
    <3>1. calls'[1] = c /\ Whole = map
      BY <1>2, <1>6, <2>1, <2>4 DEF Whole
    <3>2. Whole' = map
      BY <3>1, <2>2 DEF Whole
    <3> QED
      BY <3>1, <3>2, <2>1, <2>2, <1>4, <1>7
  <2> QED
    BY <2>3, <2>4, <1>0
<1>10. CASE Move
  <2> DEFINE q == Min(From(Top.old, Top.at))
             e == Top.old.table[q]
             c == [Top EXCEPT !.at = q + 1]
             b == Called(e.key, e.data)
  <2>1. calls' = Append(AtTop(c), b) /\ Top.step = "move"
    BY <1>10 DEF Move
  <2>2. Top = Call(Top.step, Top.key, Top.data, Top.old, Top.at)
    BY <1>2, CallIs
  <2>3. c.key = Top.key /\ c.data = Top.data /\ c.step = "move" /\ c.old = Top.old
    BY <2>1, <2>2 DEF Call
  <2> HIDE DEF c, b
  <2>4. PICK R : AtTop(c) \in Seq(R)
    BY <1>1, TopIs
  <2>5. Len(AtTop(c)) = n /\ AtTop(c)[n] = c /\ \A i \in 1 .. n - 1 : AtTop(c)[i] = calls[i]
    BY <1>6 DEF Tops
  <2>6. calls'[1] = AtTop(c)[1]
    BY <1>2, <2>1, <2>4, <2>5
  <2>7. /\ calls'[1].key = calls[1].key /\ calls'[1].data = calls[1].data
        /\ calls'[1].old = calls[1].old /\ calls'[1].step = "move" /\ calls[1].step = "move"
    <3>1. CASE n = 1
      BY <3>1, <2>1, <2>3, <2>5, <2>6, <1>2
    <3>2. CASE n > 1
      BY <3>2, <2>5, <2>6, <1>2, <1>3
    <3> QED
      BY <3>1, <3>2, <1>0
  <2> QED
    BY <2>7, <1>4, <1>5
<1>11. CASE Moved
  <2> DEFINE c == Call("put", Top.key, Top.data, NoOld, 0)
  <2>1. /\ calls' = AtTop(c) /\ Top.step = "move" /\ map' = map /\ From(Top.old, Top.at) = {}
    BY <1>11 DEF Moved
  <2>2. c.key = Top.key /\ c.data = Top.data /\ c.step = "put"
    BY DEF Call
  <2>3. CASE n > 1
    BY <2>1, <2>2, <2>3, <1>3, <1>4, <1>5, <1>7
  <2>4. CASE n = 1
    <3>1. calls'[1] = c /\ Whole = Top.old
      BY <1>2, <1>6, <2>1, <2>4 DEF Whole
    <3>2. Whole' = map
      BY <3>1, <2>1, <2>2 DEF Whole
    <3>3. ASSUME NEW k \in Keys PROVE Search(map, k) = Search(Top.old, k)
      <4>1. Search(Target(calls, map, n), k) = Part(Top.old, Upto(calls, n), k)
        BY <1>1, <1>2, <2>1 DEF Partial
      <4>2. Target(calls, map, n) = map /\ Upto(calls, n) = Top.at
        BY <1>2 DEF Target, Upto
      <4>3. Top.at \in 0 .. Size(Top.old)
        BY <1>2, CallIs
      <4>4. Part(Top.old, Top.at, k) = Search(Top.old, k)
        BY <1>2, <2>1, <4>3, FromIs
      <4> QED
        BY <4>1, <4>2, <4>4
    <3> QED
      BY <3>1, <3>2, <3>3, <2>1, <2>2, <1>4, <1>7
  <2> QED
    BY <2>3, <2>4, <1>0
<1>12. CASE PutEntry
  <2>1. calls' = Front(calls)
    BY <1>12 DEF PutEntry
  <2>2. PICK R : calls \in Seq(R)
    BY <1>1 DEF Stack
  <2>3. Len(calls') = n - 1 /\ (\A i \in 1 .. n - 1 : calls'[i] = calls[i]) /\ calls' \in Seq(R)
    BY <2>1, <2>2, FrontIs
  <2>4. n > 1
    BY <1>2, <2>3, EmptySeq
  <2>5. calls'[1] = calls[1]
    BY <2>3, <2>4, <1>0
  <2> QED
    BY <2>4, <2>5, <1>3, <1>4, <1>5
<1> QED
  BY <1>8, <1>9, <1>10, <1>11, <1>12

LEMMA InitDictionary == Init => Found!Init
<1> SUFFICES ASSUME Init PROVE Found!Init
  OBVIOUS
<1>1. calls = <<>> /\ refused = FALSE /\ map = EmptyMap(1)
  BY DEF Init
<1>2. Request = <<>> /\ Whole = map
  BY <1>1 DEF Request, Whole
<1>3. \A k \in Keys : Search(Whole, k) = NoData
  BY <1>1, <1>2, FirstRow, EmptyMapIs
<1> QED
  BY <1>1, <1>2, <1>3 DEF Found!Init

LEMMA NextDictionary == HInv /\ [Next]_vars => [Found!Next]_(Found!vars)
<1> SUFFICES ASSUME HInv, [Next]_vars PROVE Found!Next \/ UNCHANGED Found!vars
  OBVIOUS
<1>1. Stack(calls) /\ MapInv(map)
  BY DEF HInv
<1>2. ASSUME Request' = Request, refused' = refused, \A k \in Keys : Search(Whole', k) = Search(Whole, k)
      PROVE  UNCHANGED Found!vars
  BY <1>2 DEF Found!vars
<1>3. ASSUME NEW k \in Keys, RemoveKey(k) PROVE Found!Next
  <2>1. calls = <<>> /\ calls' = <<>> /\ Finds(map, k) /\ map' = Removed(map, k) /\ refused' = refused
    BY <1>3 DEF RemoveKey, Removed
  <2>2. Request = <<>> /\ Request' = <<>> /\ Whole = map /\ Whole' = map'
    BY <2>1 DEF Request, Whole
  <2>3. \A x \in Keys : Search(map', x) = IF x = k THEN NoData ELSE Search(map, x)
    BY <1>1, <2>1, RemoveIs
  <2>4. Found!Remove(k)
    BY <2>1, <2>2, <2>3 DEF Found!Remove
  <2> QED
    BY <2>4 DEF Found!Next
<1>4. ASSUME NEW k \in Keys, NEW d \in Data, Insert(k, d) PROVE Found!Next
  <2>1. calls = <<>> /\ calls' = <<Called(k, d)>> /\ map' = map /\ refused' = refused
    BY <1>4 DEF Insert
  <2>2. calls' # <<>> /\ calls'[1].key = k /\ calls'[1].data = d /\ calls'[1].step = "check"
    BY <2>1 DEF Called, Call
  <2>3. Request = <<>> /\ Request' = <<k, d>> /\ Whole = map /\ Whole' = map
    BY <2>1, <2>2 DEF Request, Whole
  <2>4. Found!Insert(k, d)
    BY <2>1, <2>3 DEF Found!Insert
  <2> QED
    BY <2>4 DEF Found!Next
<1>5. ASSUME Keep \/ Rehash \/ Move \/ Moved, calls' # <<>> PROVE Found!Next \/ UNCHANGED Found!vars
  <2>1. calls # <<>> /\ (refused' = refused \/ refused' = TRUE)
    <3>1. CASE Keep
      <4>1. refused \in BOOLEAN
        BY DEF HInv
      <4> QED
        BY <3>1, <4>1 DEF Keep
    <3>2. CASE Rehash \/ Move \/ Moved
      BY <3>2 DEF Rehash, Move, Moved
    <3> QED
      BY <1>5, <3>1, <3>2
  <2>2. Request' = Request /\ \A k \in Keys : Search(Whole', k) = Search(Whole, k)
    BY <1>5, <2>1, NestedSteps
  <2>3. Request # <<>>
    BY <2>1 DEF Request
  <2>4. CASE refused' = refused
    BY <1>2, <2>2, <2>4
  <2>5. CASE refused' = TRUE
    <3>1. Found!Refuse
      BY <2>2, <2>3, <2>5 DEF Found!Refuse
    <3> QED
      BY <3>1 DEF Found!Next
  <2> QED
    BY <2>1, <2>4, <2>5
<1>6. ASSUME calls # <<>>, NEW c PROVE AtTop(c) # <<>> /\ \A b : Append(AtTop(c), b) # <<>>
  <2>1. Len(AtTop(c)) \in Nat \ {0}
    BY <1>1, <1>6, TopIs DEF Tops
  <2>2. PICK R : AtTop(c) \in Seq(R)
    BY <1>1, <1>6, TopIs
  <2>3. ASSUME NEW b PROVE Append(AtTop(c), b) # <<>>
    <3>1. AtTop(c) \in Seq(R \cup {b})
      BY <2>2, SeqMonotonic
    <3>2. Len(Append(AtTop(c), b)) = Len(AtTop(c)) + 1
      BY <3>1
    <3> QED
      BY <3>2, <2>1
  <2> QED
    BY <2>1, <2>3
<1>7. ASSUME Keep \/ Rehash \/ Move \/ Moved PROVE calls' # <<>>
  <2>1. CASE Keep
    BY <1>6, <2>1 DEF Keep
  <2>2. CASE Rehash
    BY <1>6, <2>2 DEF Rehash
  <2>3. CASE Moved
    BY <1>6, <2>3 DEF Moved
  <2>4. CASE Move
    <3>1. calls # <<>> /\ \E c, b : calls' = Append(AtTop(c), b)
      BY <2>4 DEF Move
    <3> QED
      BY <1>6, <3>1
  <2> QED
    BY <1>7, <2>1, <2>2, <2>3, <2>4
<1>8. ASSUME PutEntry PROVE Found!Next \/ UNCHANGED Found!vars
  <2>1. calls # <<>> /\ calls' = Front(calls) /\ refused' = refused
    BY <1>8 DEF PutEntry
  <2>2. CASE calls' # <<>>
    BY <1>2, <1>8, <2>1, <2>2, NestedSteps
  <2>3. CASE calls' = <<>>
    <3>1. Len(calls) = 1 /\ Top = calls[1] /\ Top.step = "put" /\ Top.key \in Keys /\ Top.data \in Data
      <4>1. PICK R : calls \in Seq(R)
        BY <1>1 DEF Stack
      <4>2. Len(calls) \in Nat /\ Len(calls') = Len(calls) - 1
        BY <2>1, <4>1, FrontIs
      <4>3. Len(calls') = 0
        BY <2>3
      <4>4. Len(calls) = 1
        BY <4>2, <4>3
      <4>5. Top = calls[Len(calls)] /\ IsCall(Top)
        BY <1>1, <2>1, TopIs
      <4> QED
        BY <4>4, <4>5, <1>8, CallIs DEF PutEntry
    <3>2. Request = <<Top.key, Top.data>> /\ Request' = <<>> /\ Whole = map /\ Whole' = map'
      BY <2>1, <2>3, <3>1 DEF Request, Whole
    <3>3. CASE Has(map, map', Top.key, Top.data)
      <4>1. \A x \in Keys : Search(Whole', x) = IF x = Top.key THEN Top.data ELSE Search(Whole, x)
        BY <3>2, <3>3 DEF Has
      <4>2. Request # <<>> /\ Request[1] = Top.key /\ Request[2] = Top.data
        BY <3>2
      <4>3. Found!Inserted
        BY <2>1, <3>1, <3>2, <4>1, <4>2 DEF Found!Inserted
      <4> QED
        BY <4>3 DEF Found!Next
    <3>4. CASE refused /\ map' = map
      <4>1. Request # <<>>
        BY <3>2
      <4>2. Found!Fail
        BY <2>1, <3>2, <3>4, <4>1 DEF Found!Fail
      <4> QED
        BY <4>2 DEF Found!Next
    <3> QED
      BY <1>8, <3>3, <3>4, PutEntryIs
  <2> QED
    BY <2>2, <2>3
<1>9. ASSUME UNCHANGED <<map, calls, refused>> PROVE UNCHANGED Found!vars
  <2>1. Request' = Request /\ Whole' = Whole
    BY <1>9 DEF Request, Whole
  <2> QED
    BY <1>2, <1>9, <2>1
<1>10. Iterate \/ NextEntry \/ EndIteration \/ UNCHANGED vars => UNCHANGED <<map, calls, refused>>
  BY DEF Iterate, NextEntry, EndIteration, vars
<1> QED
  BY <1>3, <1>4, <1>5, <1>7, <1>8, <1>9, <1>10 DEF Next

\* The hash map implements a dictionary: whatever is inserted, replaced, removed, marked
\* and moved, a search finds what was inserted last, and an insertion that fails has
\* changed nothing and follows one that got no new table (igt_map_insert()).
THEOREM SpecIsDictionary == Spec => IsDictionary
BY InitDictionary, NextDictionary, SpecHInv, PTL DEF Spec, IsDictionary, Found!Spec
=============================================================================
