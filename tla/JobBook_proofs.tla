---------------------------- MODULE JobBook_proofs ----------------------------
(***************************************************************************)
(* Proofs about the JobBook, for any number of ids and of sessions.        *)
(*                                                                         *)
(* An id is never given out twice because the counter is above every id    *)
(* that the table or a name on disk holds, and the book holds no id twice. *)
(*                                                                         *)
(* A reorder is a loop of adjacent swaps. By induction on the number of    *)
(* swaps the loop is a rotation of the part of the active queue between    *)
(* the entry and its target, which says where every entry lands. The       *)
(* induction uses the least element of a set of naturals (that < is well   *)
(* founded on them), with the sets of numbers for which a claim holds.     *)
(***************************************************************************)
EXTENDS JobBook, FiniteSetTheorems, SequenceTheorems, WellFoundedInduction, TLAPS

----------------------------------------------------------------------------
(* Numbers.                                                                *)

LEMMA LeastNumber ==
  ASSUME NEW T, T \subseteq Nat, T # {}
  PROVE  \E m \in T : \A k \in T : m <= k
<1> DEFINE R == OpToRel(<, Nat)
<1>1. IsWellFoundedOn(R, Nat)
  BY NatLessThanWellFounded
<1>2. \A x, y \in Nat : x < y => <<x, y>> \in R
  BY DEF OpToRel
<1> HIDE DEF R
<1>3. \E x \in T : \A y \in T : ~(<<y, x>> \in R)
  BY <1>1, WFMin
<1>4. PICK m \in T : \A y \in T : ~(<<y, m>> \in R)
  BY <1>3
<1>5. ASSUME NEW k \in T PROVE m <= k
  <2>1. k \in Nat /\ m \in Nat /\ ~(k < m)
    BY <1>2, <1>4
  <2> QED
    BY <2>1
<1> QED
  BY <1>4, <1>5

\* Induction, for the set of numbers of which a claim holds.
LEMMA Induction ==
  ASSUME NEW S, 0 \in S, \A n \in Nat : n \in S => n + 1 \in S
  PROVE  Nat \subseteq S
<1> SUFFICES ASSUME NEW x \in Nat, x \notin S PROVE FALSE
  OBVIOUS
<1>1. {n \in Nat : n \notin S} # {} /\ {n \in Nat : n \notin S} \subseteq Nat
  OBVIOUS
<1>2. PICK m \in Nat : m \notin S /\ \A k \in Nat : k \notin S => m <= k
  BY <1>1, LeastNumber
<1>3. m # 0 /\ m - 1 \in Nat /\ ~(m <= m - 1) /\ (m - 1) + 1 = m
  BY <1>2
<1>4. m - 1 \in S
  BY <1>2, <1>3
<1> QED
  BY <1>2, <1>3, <1>4

\* A set of ids has a largest, or is empty.
LEMMA TopOfIds ==
  ASSUME NEW S \in SUBSET Ids
  PROVE  Top(S) \in 0 .. MaxId /\ \A x \in S : x <= Top(S)
<1>1. MaxId \in Nat /\ S \cup {0} \subseteq 0 .. MaxId
  BY BookAssumption DEF Ids
<1> DEFINE T == {n \in Nat : \E x \in S \cup {0} : n = MaxId - x}
<1>2. T \subseteq Nat /\ T # {}
  BY <1>1
<1>3. PICK m \in T : \A k \in T : m <= k
  BY <1>2, LeastNumber
<1>4. PICK x \in S \cup {0} : m = MaxId - x
  BY <1>3
<1>5. ASSUME NEW y \in S \cup {0} PROVE x >= y
  <2>1. MaxId - y \in T /\ x \in 0 .. MaxId /\ y \in 0 .. MaxId
    BY <1>1
  <2>2. MaxId - x <= MaxId - y
    BY <1>3, <1>4, <2>1
  <2> QED
    BY <1>1, <2>1, <2>2
<1>6. Max(S \cup {0}) \in S \cup {0} /\ \A y \in S \cup {0} : Max(S \cup {0}) >= y
  <2>1. \E z \in S \cup {0} : \A y \in S \cup {0} : z >= y
    BY <1>5
  <2> QED
    BY <2>1 DEF Max
<1>7. Top(S) = Max(S \cup {0})
  BY DEF Top
<1> HIDE DEF T
<1>8. \A y \in S : y \in 0 .. MaxId /\ Top(S) >= y
  BY <1>1, <1>6, <1>7
<1> QED
  BY <1>1, <1>6, <1>7, <1>8

----------------------------------------------------------------------------
(* The loop of adjacent swaps.                                             *)

\* The book after n swaps of the entry at position pos with the one before, or after, it.
Before(b, pos) ==
  LET up_[n \in 0 .. MaxId] == IF n = 0 THEN b ELSE Swap(up_[n - 1], pos - n + 1, pos - n) IN up_
After(b, pos) ==
  LET down_[n \in 0 .. MaxId] == IF n = 0 THEN b ELSE Swap(down_[n - 1], pos + n - 1, pos + n) IN down_

LEMMA MovedIsLoop ==
  ASSUME NEW j, NEW t
  PROVE  Moved(j, t) = IF PosOf(book, j) > t THEN Before(book, PosOf(book, j))[PosOf(book, j) - t]
                       ELSE After(book, PosOf(book, j))[t - PosOf(book, j)]
BY DEF Moved, Before, After

\* A loop of swaps that begins with the book s[0], swaps the places of the pair s[1], then
\* those of s[2] and so on exists.
LEMMA LoopExists ==
  ASSUME NEW s, NEW m \in Nat
  PROVE  \E f : f = [n \in 0 .. m |-> IF n = 0 THEN s[0] ELSE Swap(f[n - 1], s[n][1], s[n][2])]
<1> DEFINE S == {k \in Nat : \E f : f = [n \in 0 .. k |-> IF n = 0 THEN s[0]
                                          ELSE Swap(f[n - 1], s[n][1], s[n][2])]}
<1>1. 0 \in S
  <2>1. [n \in {0} |-> s[0]] = [n \in 0 .. 0 |-> IF n = 0 THEN s[0]
                               ELSE Swap([z \in {0} |-> s[0]][n - 1], s[n][1], s[n][2])]
    OBVIOUS
  <2> QED
    BY <2>1
<1>2. ASSUME NEW k \in Nat, k \in S PROVE k + 1 \in S
  <2>1. PICK f : f = [n \in 0 .. k |-> IF n = 0 THEN s[0] ELSE Swap(f[n - 1], s[n][1], s[n][2])]
    BY <1>2
  <2> DEFINE g == [n \in 0 .. k + 1 |-> IF n = k + 1 THEN Swap(f[k], s[n][1], s[n][2]) ELSE f[n]]
  <2>2. \A n \in 0 .. k : g[n] = f[n]
    OBVIOUS
  <2>3. ASSUME NEW n \in 0 .. k + 1
        PROVE  g[n] = IF n = 0 THEN s[0] ELSE Swap(g[n - 1], s[n][1], s[n][2])
    <3>1. CASE n = k + 1
      <4>1. n # 0 /\ n - 1 = k /\ g[n] = Swap(f[k], s[n][1], s[n][2])
        BY <3>1
      <4> QED
        BY <2>2, <4>1
    <3>2. CASE n # k + 1
      <4>1. n \in 0 .. k /\ (n # 0 => n - 1 \in 0 .. k)
        BY <3>2
      <4>2. f[n] = IF n = 0 THEN s[0] ELSE Swap(f[n - 1], s[n][1], s[n][2])
        BY <2>1, <4>1
      <4> QED
        BY <2>2, <4>1, <4>2
    <3> QED
      BY <3>1, <3>2
  <2>4. g = [n \in 0 .. k + 1 |-> g[n]]
    OBVIOUS
  <2> HIDE DEF g
  <2>5. g = [n \in 0 .. k + 1 |-> IF n = 0 THEN s[0] ELSE Swap(g[n - 1], s[n][1], s[n][2])]
    BY <2>3, <2>4
  <2> QED
    BY <2>5
<1>3. Nat \subseteq S
  <2> HIDE DEF S
  <2> QED
    BY <1>1, <1>2, Induction
<1> QED
  BY <1>3

LEMMA BeforeLoop ==
  ASSUME NEW b, NEW pos \in Nat
  PROVE  \A n \in 0 .. MaxId :
           Before(b, pos)[n] = IF n = 0 THEN b ELSE Swap(Before(b, pos)[n - 1], pos - n + 1, pos - n)
<1> DEFINE s == [n \in 0 .. MaxId |-> IF n = 0 THEN b ELSE <<pos - n + 1, pos - n>>]
<1>1. MaxId \in Nat
  BY BookAssumption
<1>2. \A n \in 0 .. MaxId : n # 0 => s[n][1] = pos - n + 1 /\ s[n][2] = pos - n
  OBVIOUS
<1>3. s[0] = b
  BY <1>1
<1> HIDE DEF s
<1>4. PICK f : f = [n \in 0 .. MaxId |-> IF n = 0 THEN s[0] ELSE Swap(f[n - 1], s[n][1], s[n][2])]
  BY <1>1, LoopExists
<1>5. f = [n \in 0 .. MaxId |-> IF n = 0 THEN b ELSE Swap(f[n - 1], pos - n + 1, pos - n)]
  BY <1>2, <1>3, <1>4
<1>6. \E g : g = [n \in 0 .. MaxId |-> IF n = 0 THEN b ELSE Swap(g[n - 1], pos - n + 1, pos - n)]
  BY <1>5
<1>7. Before(b, pos) = [n \in 0 .. MaxId |-> IF n = 0 THEN b
                          ELSE Swap(Before(b, pos)[n - 1], pos - n + 1, pos - n)]
  BY <1>6 DEF Before
<1> HIDE DEF Before
<1> QED
  BY <1>7

LEMMA AfterLoop ==
  ASSUME NEW b, NEW pos \in Nat
  PROVE  \A n \in 0 .. MaxId :
           After(b, pos)[n] = IF n = 0 THEN b ELSE Swap(After(b, pos)[n - 1], pos + n - 1, pos + n)
<1> DEFINE s == [n \in 0 .. MaxId |-> IF n = 0 THEN b ELSE <<pos + n - 1, pos + n>>]
<1>1. MaxId \in Nat
  BY BookAssumption
<1>2. \A n \in 0 .. MaxId : n # 0 => s[n][1] = pos + n - 1 /\ s[n][2] = pos + n
  OBVIOUS
<1>3. s[0] = b
  BY <1>1
<1> HIDE DEF s
<1>4. PICK f : f = [n \in 0 .. MaxId |-> IF n = 0 THEN s[0] ELSE Swap(f[n - 1], s[n][1], s[n][2])]
  BY <1>1, LoopExists
<1>5. f = [n \in 0 .. MaxId |-> IF n = 0 THEN b ELSE Swap(f[n - 1], pos + n - 1, pos + n)]
  BY <1>2, <1>3, <1>4
<1>6. \E g : g = [n \in 0 .. MaxId |-> IF n = 0 THEN b ELSE Swap(g[n - 1], pos + n - 1, pos + n)]
  BY <1>5
<1>7. After(b, pos) = [n \in 0 .. MaxId |-> IF n = 0 THEN b
                          ELSE Swap(After(b, pos)[n - 1], pos + n - 1, pos + n)]
  BY <1>6 DEF After
<1> HIDE DEF After
<1> QED
  BY <1>7

----------------------------------------------------------------------------
(* Queue positions.                                                        *)

LEMMA PosAtNext ==
  ASSUME NEW b, NEW i \in Nat \ {0}
  PROVE  /\ PosAt(b, i) \in Nat
         /\ PosAt(b, i + 1) = IF Active(b[i]) THEN PosAt(b, i) + 1 ELSE PosAt(b, i)
<1> DEFINE S == {k \in 1 .. i - 1 : Active(b[k])}
           T == {k \in 1 .. (i + 1) - 1 : Active(b[k])}
<1>1. IsFiniteSet(1 .. i - 1) /\ S \subseteq 1 .. i - 1
  BY FS_Interval
<1>2. PosAt(b, i) = Cardinality(S) /\ PosAt(b, i + 1) = Cardinality(T)
  BY DEF PosAt
<1>3. i \notin S /\ T = IF Active(b[i]) THEN S \cup {i} ELSE S
  <2>1. \A k \in 1 .. (i + 1) - 1 : k \in 1 .. i - 1 \/ k = i
    OBVIOUS
  <2>2. i \in 1 .. (i + 1) - 1 /\ i \notin 1 .. i - 1 /\ 1 .. i - 1 \subseteq 1 .. (i + 1) - 1
    OBVIOUS
  <2> QED
    BY <2>1, <2>2
<1> HIDE DEF S, T
<1>4. IsFiniteSet(S)
  BY <1>1, FS_Subset
<1>5. Cardinality(S) \in Nat
  BY <1>4, FS_CardinalityType
<1>6. IsFiniteSet(S \cup {i}) /\ Cardinality(S \cup {i}) = Cardinality(S) + 1
  BY <1>3, <1>4, FS_AddElement
<1> QED
  BY <1>2, <1>3, <1>5, <1>6

LEMMA PosAtGrows ==
  ASSUME NEW b, NEW i \in Nat \ {0}, NEW k \in Nat \ {0}, i < k
  PROVE  PosAt(b, i) <= PosAt(b, k) /\ (Active(b[i]) => PosAt(b, i) < PosAt(b, k))
<1> DEFINE S == {n \in Nat : PosAt(b, i + 1) <= PosAt(b, i + 1 + n)}
<1>1. PosAt(b, i + 1) \in Nat
  BY PosAtNext
<1>2. 0 \in S
  BY <1>1
<1>3. ASSUME NEW n \in Nat, n \in S PROVE n + 1 \in S
  <2>1. PosAt(b, i + 1 + n) \in Nat /\ PosAt(b, (i + 1 + n) + 1) >= PosAt(b, i + 1 + n)
    <3>1. i + 1 + n \in Nat \ {0}
      OBVIOUS
    <3> QED
      BY <3>1, PosAtNext
  <2>2. (i + 1 + n) + 1 = i + 1 + (n + 1) /\ PosAt(b, (i + 1 + n) + 1) \in Nat
    <3>1. (i + 1 + n) + 1 \in Nat \ {0}
      OBVIOUS
    <3> QED
      BY <3>1, PosAtNext
  <2> QED
    BY <1>1, <1>3, <2>1, <2>2
<1>4. Nat \subseteq S
  <2> HIDE DEF S
  <2> QED
    BY <1>2, <1>3, Induction
<1>5. k - (i + 1) \in Nat /\ i + 1 + (k - (i + 1)) = k
  OBVIOUS
<1>6. PosAt(b, i + 1) <= PosAt(b, k)
  BY <1>4, <1>5
<1>7. /\ PosAt(b, i) \in Nat /\ PosAt(b, k) \in Nat
      /\ PosAt(b, i + 1) = IF Active(b[i]) THEN PosAt(b, i) + 1 ELSE PosAt(b, i)
  BY PosAtNext
<1> QED
  BY <1>6, <1>7

\* Every position below the count belongs to an active entry.
LEMMA PosFound ==
  ASSUME NEW b, NEW n \in Nat, NEW p \in Nat, p < PosAt(b, n + 1)
  PROVE  \E i \in 1 .. n : Active(b[i]) /\ PosAt(b, i) = p
<1> DEFINE S == {m \in Nat : \A x \in Nat : x < PosAt(b, m + 1) =>
                               \E i \in 1 .. m : Active(b[i]) /\ PosAt(b, i) = x}
<1>1. 0 \in S
  <2>1. PosAt(b, 0 + 1) = 0
    <3>1. 1 .. (0 + 1) - 1 = {}
      OBVIOUS
    <3>2. {k \in 1 .. (0 + 1) - 1 : Active(b[k])} = {}
      BY <3>1
    <3> QED
      BY <3>2, FS_EmptySet DEF PosAt
  <2> QED
    BY <2>1
<1>2. ASSUME NEW m \in Nat, m \in S PROVE m + 1 \in S
  <2> SUFFICES ASSUME NEW x \in Nat, x < PosAt(b, (m + 1) + 1)
               PROVE  \E i \in 1 .. m + 1 : Active(b[i]) /\ PosAt(b, i) = x
    OBVIOUS
  <2>1. m + 1 \in Nat \ {0} /\ m + 1 \in 1 .. m + 1 /\ 1 .. m \subseteq 1 .. m + 1
    OBVIOUS
  <2>2. /\ PosAt(b, m + 1) \in Nat
        /\ PosAt(b, (m + 1) + 1) = IF Active(b[m + 1]) THEN PosAt(b, m + 1) + 1 ELSE PosAt(b, m + 1)
    BY <2>1, PosAtNext
  <2>3. CASE x < PosAt(b, m + 1)
    <3>1. PICK i \in 1 .. m : Active(b[i]) /\ PosAt(b, i) = x
      BY <1>2, <2>3
    <3> QED
      BY <2>1, <3>1
  <2>4. CASE ~(x < PosAt(b, m + 1))
    <3>1. Active(b[m + 1]) /\ x = PosAt(b, m + 1)
      BY <2>2, <2>4
    <3> QED
      BY <2>1, <3>1
  <2> QED
    BY <2>3, <2>4
<1>3. Nat \subseteq S
  <2> HIDE DEF S
  <2> QED
    BY <1>1, <1>2, Induction
<1>4. n \in S
  BY <1>3
<1> QED
  BY <1>4

\* The number of active entries of the book b.
Count(b) == PosAt(b, Len(b) + 1)

LEMMA CountIsActiveCount ==
  ASSUME book \in Seq(Ids)
  PROVE  ActiveCount = Count(book) /\ ActiveCount \in Nat
<1>1. Len(book) + 1 \in Nat \ {0} /\ DOMAIN book = 1 .. (Len(book) + 1) - 1
  OBVIOUS
<1>2. ActiveCount = Count(book)
  BY <1>1 DEF ActiveCount, Count, PosAt
<1> QED
  BY <1>1, <1>2, PosAtNext DEF Count

\* The index of a position is the one active entry at it.
LEMMA IndexFound ==
  ASSUME NEW b \in Seq(Ids), NEW p \in Nat, p < Count(b)
  PROVE  IndexAt(b, p) \in 1 .. Len(b) /\ Active(b[IndexAt(b, p)]) /\ PosAt(b, IndexAt(b, p)) = p
<1>1. Len(b) \in Nat /\ DOMAIN b = 1 .. Len(b)
  OBVIOUS
<1>2. \E i \in DOMAIN b : Active(b[i]) /\ PosAt(b, i) = p
  BY <1>1, PosFound DEF Count
<1> QED
  BY <1>1, <1>2 DEF IndexAt

LEMMA OneIndex ==
  ASSUME NEW b, NEW i \in Nat \ {0}, NEW k \in Nat \ {0},
         Active(b[i]), Active(b[k]), PosAt(b, i) = PosAt(b, k)
  PROVE  i = k
<1>1. PosAt(b, i) \in Nat /\ PosAt(b, k) \in Nat
  BY PosAtNext
<1>2. ~(i < k)
  BY <1>1, PosAtGrows
<1>3. ~(k < i)
  BY <1>1, PosAtGrows
<1> QED
  BY <1>2, <1>3

LEMMA PosOfIndex ==
  ASSUME NEW b \in Seq(Ids), NEW i \in 1 .. Len(b), Active(b[i])
  PROVE  PosAt(b, i) \in Nat /\ PosAt(b, i) < Count(b) /\ IndexAt(b, PosAt(b, i)) = i
<1>1. Len(b) \in Nat /\ i \in Nat \ {0} /\ Len(b) + 1 \in Nat \ {0} /\ i < Len(b) + 1
  OBVIOUS
<1>2. PosAt(b, i) \in Nat
  BY <1>1, PosAtNext
<1>3. PosAt(b, i) < Count(b)
  BY <1>1, PosAtGrows DEF Count
<1>4. /\ IndexAt(b, PosAt(b, i)) \in 1 .. Len(b) /\ Active(b[IndexAt(b, PosAt(b, i))])
      /\ PosAt(b, IndexAt(b, PosAt(b, i))) = PosAt(b, i)
  BY <1>2, <1>3, IndexFound
<1>5. IndexAt(b, PosAt(b, i)) \in Nat \ {0}
  BY <1>1, <1>4
<1> QED
  BY <1>1, <1>2, <1>3, <1>4, <1>5, OneIndex

\* Positions depend on which entries are active, not on which entries they are.
LEMMA SamePositions ==
  ASSUME NEW b, NEW c, NEW n \in Nat, \A k \in 1 .. n : Active(c[k]) <=> Active(b[k])
  PROVE  \A i \in 1 .. n + 1 : PosAt(c, i) = PosAt(b, i)
<1> SUFFICES ASSUME NEW i \in 1 .. n + 1 PROVE PosAt(c, i) = PosAt(b, i)
  OBVIOUS
<1>1. \A k \in 1 .. i - 1 : k \in 1 .. n
  OBVIOUS
<1>2. {k \in 1 .. i - 1 : Active(c[k])} = {k \in 1 .. i - 1 : Active(b[k])}
  BY <1>1
<1> QED
  BY <1>2 DEF PosAt

----------------------------------------------------------------------------
(* Rotations of the active queue.                                          *)

Distinct(b) == \A i, k \in DOMAIN b : b[i] = b[k] => i = k

\* c has the entries of b, and has those that are not active where b has them.
Like(c, b) ==
  /\ c \in Seq(Ids) /\ Len(c) = Len(b) /\ Distinct(c)
  /\ \A i \in 1 .. Len(b) : /\ Active(c[i]) <=> Active(b[i])
                            /\ ~Active(b[i]) => c[i] = b[i]
                            /\ \E k \in 1 .. Len(b) : c[i] = b[k]
                            /\ \E k \in 1 .. Len(b) : b[i] = c[k]

LEMMA LikeItself ==
  ASSUME NEW b \in Seq(Ids), Distinct(b)
  PROVE  Like(b, b)
BY DEF Like

LEMMA LikePositions ==
  ASSUME NEW b \in Seq(Ids), NEW c, Like(c, b)
  PROVE  /\ Count(c) = Count(b)
         /\ \A i \in 1 .. Len(b) : PosAt(c, i) = PosAt(b, i)
         /\ \A p \in Nat : p < Count(b) => IndexAt(c, p) = IndexAt(b, p)
<1>1. Len(b) \in Nat /\ Len(c) = Len(b) /\ c \in Seq(Ids)
  BY DEF Like
<1>2. \A k \in 1 .. Len(b) : Active(c[k]) <=> Active(b[k])
  BY DEF Like
<1>3. \A i \in 1 .. Len(b) + 1 : PosAt(c, i) = PosAt(b, i)
  BY <1>1, <1>2, SamePositions
<1>4. Count(c) = Count(b)
  BY <1>1, <1>3 DEF Count
<1>5. ASSUME NEW p \in Nat, p < Count(b) PROVE IndexAt(c, p) = IndexAt(b, p)
  <2>1. IndexAt(b, p) \in 1 .. Len(b) /\ Active(b[IndexAt(b, p)]) /\ PosAt(b, IndexAt(b, p)) = p
    BY <1>5, IndexFound
  <2>2. IndexAt(c, p) \in 1 .. Len(b) /\ Active(c[IndexAt(c, p)]) /\ PosAt(c, IndexAt(c, p)) = p
    BY <1>1, <1>4, <1>5, IndexFound
  <2>3. Active(b[IndexAt(c, p)]) /\ PosAt(b, IndexAt(c, p)) = p
    BY <1>1, <1>2, <1>3, <2>2
  <2>4. IndexAt(b, p) \in Nat \ {0} /\ IndexAt(c, p) \in Nat \ {0}
    BY <1>1, <2>1, <2>2
  <2> QED
    BY <2>1, <2>3, <2>4, OneIndex
<1>6. 1 .. Len(b) \subseteq 1 .. Len(b) + 1
  BY <1>1
<1> QED
  BY <1>3, <1>4, <1>5, <1>6

LEMMA SwapEntries ==
  ASSUME NEW c \in Seq(Ids), NEW x \in 1 .. Len(c), NEW y \in 1 .. Len(c), x # y, Distinct(c),
         NEW d \in [1 .. Len(c) -> Ids], d[x] = c[y], d[y] = c[x],
         \A i \in 1 .. Len(c) : i # x /\ i # y => d[i] = c[i]
  PROVE  d \in Seq(Ids) /\ Len(d) = Len(c) /\ Distinct(d)
<1>1. Len(c) \in Nat /\ DOMAIN c = 1 .. Len(c) /\ DOMAIN d = 1 .. Len(c)
  OBVIOUS
<1>2. d \in Seq(Ids) /\ Len(d) = Len(c)
  BY <1>1
<1>3. Distinct(d)
  <2> SUFFICES ASSUME NEW i \in 1 .. Len(c), NEW k \in 1 .. Len(c), d[i] = d[k] PROVE i = k
    BY <1>1 DEF Distinct
  <2>1. \A u, v \in 1 .. Len(c) : c[u] = c[v] => u = v
    BY <1>1 DEF Distinct
  <2> QED
    BY <2>1
<1> QED
  BY <1>2, <1>3

\* A swap of two positions exchanges the entries at their indices.
LEMMA SwapIsLike ==
  ASSUME NEW b \in Seq(Ids), NEW c, Like(c, b), NEW p \in Nat, NEW q \in Nat,
         p < Count(b), q < Count(b), p # q
  PROVE  /\ Like(Swap(c, p, q), b)
         /\ Swap(c, p, q)[IndexAt(b, p)] = c[IndexAt(b, q)]
         /\ Swap(c, p, q)[IndexAt(b, q)] = c[IndexAt(b, p)]
         /\ \A i \in 1 .. Len(b) : i # IndexAt(b, p) /\ i # IndexAt(b, q) => Swap(c, p, q)[i] = c[i]
<1> DEFINE x == IndexAt(b, p)
           y == IndexAt(b, q)
           d == [c EXCEPT ![x] = c[y], ![y] = c[x]]
<1>1. x \in 1 .. Len(b) /\ Active(b[x]) /\ PosAt(b, x) = p
  BY IndexFound
<1>2. y \in 1 .. Len(b) /\ Active(b[y]) /\ PosAt(b, y) = q
  BY IndexFound
<1>3. IndexAt(c, p) = x /\ IndexAt(c, q) = y
  BY LikePositions
<1>4. Swap(c, p, q) = d
  BY <1>3 DEF Swap
<1> HIDE DEF x, y
<1>5. x # y
  BY <1>1, <1>2
<1>6. c \in Seq(Ids) /\ Len(c) = Len(b) /\ Distinct(c)
  BY DEF Like
<1>7. /\ d \in Seq(Ids) /\ Len(d) = Len(b) /\ Distinct(d)
      /\ d[x] = c[y] /\ d[y] = c[x]
      /\ \A i \in 1 .. Len(b) : i # x /\ i # y => d[i] = c[i]
  <2>1. x \in 1 .. Len(c) /\ y \in 1 .. Len(c)
    BY <1>1, <1>2, <1>6
  <2>2. Len(c) \in Nat /\ DOMAIN c = 1 .. Len(c) /\ \A i \in 1 .. Len(c) : c[i] \in Ids
    BY <1>6
  <2>3. /\ d \in [1 .. Len(c) -> Ids] /\ d[x] = c[y] /\ d[y] = c[x]
        /\ \A i \in 1 .. Len(c) : i # x /\ i # y => d[i] = c[i]
    BY <1>6, <2>1, <2>2
  <2> HIDE DEF d
  <2>4. d \in Seq(Ids) /\ Len(d) = Len(c) /\ Distinct(d)
    BY <1>5, <1>6, <2>1, <2>3, SwapEntries
  <2> QED
    BY <1>6, <2>3, <2>4
<1> HIDE DEF d
<1>8. Active(c[x]) /\ Active(c[y])
  BY <1>1, <1>2 DEF Like
<1>9. ASSUME NEW i \in 1 .. Len(b)
      PROVE  /\ Active(d[i]) <=> Active(b[i])
             /\ ~Active(b[i]) => d[i] = b[i]
             /\ \E k \in 1 .. Len(b) : d[i] = b[k]
             /\ \E k \in 1 .. Len(b) : b[i] = d[k]
  <2>1. \A k \in 1 .. Len(b) : /\ Active(c[k]) <=> Active(b[k])
                               /\ ~Active(b[k]) => c[k] = b[k]
                               /\ \E n \in 1 .. Len(b) : c[k] = b[n]
                               /\ \E n \in 1 .. Len(b) : b[k] = c[n]
    BY DEF Like
  <2>2. Active(d[i]) <=> Active(b[i])
    BY <1>1, <1>2, <1>7, <1>8, <2>1
  <2>3. ~Active(b[i]) => d[i] = b[i]
    BY <1>1, <1>2, <1>7, <2>1
  <2>4. \E k \in 1 .. Len(b) : d[i] = c[k]
    BY <1>1, <1>2, <1>7
  <2>5. \A k \in 1 .. Len(b) : \E n \in 1 .. Len(b) : c[k] = d[n]
    BY <1>1, <1>2, <1>7
  <2>6. \E k \in 1 .. Len(b) : d[i] = b[k]
    <3>1. PICK k \in 1 .. Len(b) : d[i] = c[k]
      BY <2>4
    <3>2. \E n \in 1 .. Len(b) : c[k] = b[n]
      BY <2>1
    <3> QED
      BY <3>1, <3>2
  <2>7. \E k \in 1 .. Len(b) : b[i] = d[k]
    <3>1. PICK k \in 1 .. Len(b) : b[i] = c[k]
      BY <2>1
    <3>2. \E n \in 1 .. Len(b) : c[k] = d[n]
      BY <2>5
    <3> QED
      BY <3>1, <3>2
  <2> QED
    BY <2>2, <2>3, <2>6, <2>7
<1>10. Like(d, b)
  BY <1>7, <1>9 DEF Like
<1> QED
  BY <1>4, <1>7, <1>10 DEF x, y

\* Where the entry at x goes when the entry at p goes to t.
Shifted(p, t, x) ==
  IF x = p THEN t
  ELSE IF t <= x /\ x < p THEN x + 1
  ELSE IF p < x /\ x <= t THEN x - 1
  ELSE x

\* c is b with its active entry at position p moved to t.
Rotates(c, b, p, t) ==
  /\ Like(c, b)
  /\ \A x \in Nat : x < Count(b) => c[IndexAt(b, Shifted(p, t, x))] = b[IndexAt(b, x)]

LEMMA RotateNothing ==
  ASSUME NEW b \in Seq(Ids), Distinct(b), NEW p \in Nat
  PROVE  Rotates(b, b, p, p)
<1>1. \A x \in Nat : Shifted(p, p, x) = x
  BY DEF Shifted
<1> QED
  BY <1>1, LikeItself DEF Rotates

\* One more swap is one more place.
LEMMA RotateFurther ==
  ASSUME NEW b \in Seq(Ids), NEW c, NEW p \in Nat, NEW t \in Nat, NEW u \in Nat,
         Rotates(c, b, p, t), p < Count(b), t < Count(b), u < Count(b),
         (t <= p /\ t = u + 1) \/ (p <= t /\ u = t + 1)
  PROVE  Rotates(Swap(c, t, u), b, p, u)
<1> DEFINE d == Swap(c, t, u)
<1>1. t # u /\ Like(c, b)
  BY DEF Rotates
<1>2. /\ Like(d, b)
      /\ d[IndexAt(b, t)] = c[IndexAt(b, u)] /\ d[IndexAt(b, u)] = c[IndexAt(b, t)]
      /\ \A i \in 1 .. Len(b) : i # IndexAt(b, t) /\ i # IndexAt(b, u) => d[i] = c[i]
  BY <1>1, SwapIsLike
<1> HIDE DEF d
<1>3. Count(b) \in Nat
  BY PosAtNext DEF Count
<1>4. ASSUME NEW x \in Nat, x < Count(b)
      PROVE  d[IndexAt(b, Shifted(p, u, x))] = b[IndexAt(b, x)]
  <2>1. c[IndexAt(b, Shifted(p, t, x))] = b[IndexAt(b, x)]
    BY <1>4 DEF Rotates
  <2>2. CASE x = p
    <3>1. Shifted(p, u, x) = u /\ Shifted(p, t, x) = t
      BY <2>2 DEF Shifted
    <3> QED
      BY <1>2, <2>1, <3>1
  <2>3. CASE x = u /\ x # p
    <3>1. Shifted(p, u, x) = t /\ Shifted(p, t, x) = u
      BY <2>3 DEF Shifted
    <3> QED
      BY <1>2, <2>1, <3>1
  <2>4. CASE x # u /\ x # p
    <3> DEFINE z == Shifted(p, t, x)
    <3>1. Shifted(p, u, x) = z /\ z \in Nat /\ z < Count(b) /\ z # t /\ z # u
      BY <1>3, <1>4, <2>4 DEF Shifted
    <3> HIDE DEF z
    <3>2. IndexAt(b, z) \in 1 .. Len(b) /\ PosAt(b, IndexAt(b, z)) = z
      BY <3>1, IndexFound
    <3>3. PosAt(b, IndexAt(b, t)) = t /\ PosAt(b, IndexAt(b, u)) = u
      BY IndexFound
    <3>4. d[IndexAt(b, z)] = c[IndexAt(b, z)]
      BY <1>2, <3>1, <3>2, <3>3
    <3> QED
      BY <2>1, <3>1, <3>4 DEF z
  <2> QED
    BY <2>2, <2>3, <2>4
<1> QED
  BY <1>2, <1>4 DEF Rotates, d

LEMMA BeforeRotates ==
  ASSUME NEW b \in Seq(Ids), Distinct(b), NEW p \in Nat, p < Count(b), p <= MaxId,
         NEW n \in Nat, n <= p
  PROVE  Rotates(Before(b, p)[n], b, p, p - n)
<1> DEFINE f == Before(b, p)
           S == {m \in Nat : m <= p => Rotates(f[m], b, p, p - m)}
<1>1. MaxId \in Nat
  BY BookAssumption
<1>2. \A m \in 0 .. MaxId : f[m] = IF m = 0 THEN b ELSE Swap(f[m - 1], p - m + 1, p - m)
  BY BeforeLoop
<1> HIDE DEF f
<1>3. 0 \in S
  <2>1. f[0] = b /\ p - 0 = p
    BY <1>1, <1>2
  <2> QED
    BY <2>1, RotateNothing
<1>4. ASSUME NEW m \in Nat, m \in S PROVE m + 1 \in S
  <2> SUFFICES ASSUME m + 1 <= p PROVE Rotates(f[m + 1], b, p, p - (m + 1))
    OBVIOUS
  <2>1. /\ m + 1 \in 0 .. MaxId /\ m + 1 # 0 /\ (m + 1) - 1 = m
        /\ p - (m + 1) + 1 = p - m
    BY <1>1
  <2>2. f[m + 1] = Swap(f[m], p - m, p - (m + 1))
    BY <1>2, <2>1
  <2>3. Rotates(f[m], b, p, p - m)
    BY <1>4
  <2>4. Count(b) \in Nat
    BY PosAtNext DEF Count
  <2>5. /\ p - m \in Nat /\ p - (m + 1) \in Nat /\ p - m < Count(b) /\ p - (m + 1) < Count(b)
        /\ p - m <= p /\ p - m = (p - (m + 1)) + 1
    BY <2>4
  <2> QED
    BY <2>2, <2>3, <2>5, RotateFurther
<1>5. Nat \subseteq S
  <2> HIDE DEF S
  <2> QED
    BY <1>3, <1>4, Induction
<1>6. n \in S
  BY <1>5
<1> QED
  BY <1>6 DEF f

LEMMA AfterRotates ==
  ASSUME NEW b \in Seq(Ids), Distinct(b), NEW p \in Nat, Count(b) <= MaxId,
         NEW n \in Nat, p + n < Count(b)
  PROVE  Rotates(After(b, p)[n], b, p, p + n)
<1> DEFINE f == After(b, p)
           S == {m \in Nat : p + m < Count(b) => Rotates(f[m], b, p, p + m)}
<1>1. MaxId \in Nat /\ Count(b) \in Nat
  BY BookAssumption, PosAtNext DEF Count
<1>2. \A m \in 0 .. MaxId : f[m] = IF m = 0 THEN b ELSE Swap(f[m - 1], p + m - 1, p + m)
  BY AfterLoop
<1> HIDE DEF f
<1>3. 0 \in S
  <2>1. f[0] = b /\ p + 0 = p
    BY <1>1, <1>2
  <2> QED
    BY <2>1, RotateNothing
<1>4. ASSUME NEW m \in Nat, m \in S PROVE m + 1 \in S
  <2> SUFFICES ASSUME p + (m + 1) < Count(b) PROVE Rotates(f[m + 1], b, p, p + (m + 1))
    OBVIOUS
  <2>1. /\ m + 1 \in 0 .. MaxId /\ m + 1 # 0 /\ (m + 1) - 1 = m
        /\ p + (m + 1) - 1 = p + m
    BY <1>1
  <2>2. f[m + 1] = Swap(f[m], p + m, p + (m + 1))
    BY <1>2, <2>1
  <2>3. p + m \in Nat /\ p + (m + 1) \in Nat /\ p + m < Count(b) /\ p < Count(b)
        /\ p <= p + m /\ p + (m + 1) = (p + m) + 1
    BY <1>1
  <2>4. Rotates(f[m], b, p, p + m)
    BY <1>4, <2>3
  <2> QED
    BY <2>2, <2>3, <2>4, RotateFurther
<1>5. Nat \subseteq S
  <2> HIDE DEF S
  <2> QED
    BY <1>3, <1>4, Induction
<1>6. n \in S
  BY <1>5
<1> QED
  BY <1>6 DEF f

\* The position of an active entry, and of where a rotation puts it.
LEMMA PosOfEntry ==
  ASSUME NEW b \in Seq(Ids), Distinct(b), NEW i \in 1 .. Len(b)
  PROVE  PosOf(b, b[i]) = PosAt(b, i)
<1>1. DOMAIN b = 1 .. Len(b)
  OBVIOUS
<1>2. \A k \in DOMAIN b : b[k] = b[i] <=> k = i
  BY <1>1 DEF Distinct
<1>3. (CHOOSE k \in DOMAIN b : b[k] = b[i]) = i
  BY <1>1, <1>2
<1> QED
  BY <1>3 DEF PosOf

LEMMA RotatedPosition ==
  ASSUME NEW b \in Seq(Ids), NEW c, NEW p \in Nat, NEW t \in Nat, NEW x \in Nat,
         Rotates(c, b, p, t), p < Count(b), t < Count(b), x < Count(b)
  PROVE  PosOf(c, b[IndexAt(b, x)]) = Shifted(p, t, x)
<1> DEFINE z == Shifted(p, t, x)
           i == IndexAt(b, z)
<1>1. Count(b) \in Nat
  BY PosAtNext DEF Count
<1>2. z \in Nat /\ z < Count(b)
  BY <1>1 DEF Shifted
<1>3. c[i] = b[IndexAt(b, x)]
  BY DEF Rotates
<1> HIDE DEF z
<1>4. i \in 1 .. Len(b) /\ PosAt(b, i) = z
  BY <1>2, IndexFound
<1> HIDE DEF i
<1>5. Like(c, b)
  BY DEF Rotates
<1>6. c \in Seq(Ids) /\ Distinct(c) /\ i \in 1 .. Len(c)
  BY <1>4, <1>5 DEF Like
<1>7. PosAt(c, i) = z
  BY <1>4, <1>5, LikePositions
<1>8. PosOf(c, c[i]) = z
  BY <1>6, <1>7, PosOfEntry
<1> QED
  BY <1>3, <1>8 DEF z

LEMMA CountFits ==
  ASSUME NEW b \in Seq(Ids)
  PROVE  Count(b) \in Nat /\ Count(b) <= Len(b)
<1> DEFINE n == Len(b) + 1
           S == {k \in 1 .. n - 1 : Active(b[k])}
<1>1. Len(b) \in Nat /\ n - 1 = Len(b) /\ n \in Nat \ {0}
  OBVIOUS
<1>2. IsFiniteSet(1 .. n - 1) /\ Cardinality(1 .. n - 1) = Len(b)
  <2>1. n - 1 \in Int /\ 1 \in Int /\ (IF 1 > n - 1 THEN 0 ELSE (n - 1) - 1 + 1) = Len(b)
    BY <1>1
  <2> HIDE DEF n
  <2> QED
    BY <2>1, FS_Interval
<1>3. Cardinality(S) <= Cardinality(1 .. n - 1)
  <2>1. S \in SUBSET (1 .. n - 1)
    OBVIOUS
  <2> HIDE DEF S
  <2> QED
    BY <1>2, <2>1, FS_Subset
<1>4. Count(b) = Cardinality(S)
  BY DEF Count, PosAt
<1> QED
  BY <1>1, <1>2, <1>3, <1>4, PosAtNext DEF Count

----------------------------------------------------------------------------
(* POST /v1/reorder.                                                       *)

\* What the handlers keep true of the book's order.
BookOrder ==
  /\ book \in Seq(Ids) /\ Distinct(book)
  /\ Len(book) <= MaxId

LEMMA EntryOfJob ==
  ASSUME BookOrder, NEW j \in Ids, Active(j)
  PROVE  /\ PosOf(book, j) \in Nat /\ PosOf(book, j) < Count(book)
         /\ book[IndexAt(book, PosOf(book, j))] = j
<1>1. book \in Seq(Ids) /\ Distinct(book) /\ DOMAIN book = 1 .. Len(book)
  BY DEF BookOrder
<1>2. PICK i \in 1 .. Len(book) : book[i] = j
  BY <1>1 DEF Active, InBook
<1>3. PosOf(book, j) = PosAt(book, i)
  BY <1>1, <1>2, PosOfEntry
<1>4. Active(book[i])
  BY <1>2
<1> QED
  BY <1>1, <1>2, <1>3, <1>4, PosOfIndex

\* A reorder moves its entry through the active queue to the target.
LEMMA MovedRotates ==
  ASSUME BookOrder, NEW j \in Ids, Active(j), NEW t \in Nat, t < Count(book)
  PROVE  Rotates(Moved(j, t), book, PosOf(book, j), t)
<1> DEFINE p == PosOf(book, j)
<1>1. book \in Seq(Ids) /\ Distinct(book) /\ Len(book) <= MaxId
  BY DEF BookOrder
<1>2. p \in Nat /\ p < Count(book)
  BY EntryOfJob
<1>3. MaxId \in Nat /\ Count(book) \in Nat /\ Count(book) <= Len(book) /\ Len(book) \in Nat
  BY <1>1, BookAssumption, CountFits
<1>4. Moved(j, t) = IF p > t THEN Before(book, p)[p - t] ELSE After(book, p)[t - p]
  BY MovedIsLoop
<1> HIDE DEF p
<1>5. CASE p > t
  <2>1. p - t \in Nat /\ p - t <= p /\ p - (p - t) = t /\ p <= MaxId
    BY <1>1, <1>2, <1>3, <1>5
  <2>2. Rotates(Before(book, p)[p - t], book, p, p - (p - t))
    BY <1>1, <1>2, <2>1, BeforeRotates
  <2> QED
    BY <1>4, <1>5, <2>1, <2>2 DEF p
<1>6. CASE ~(p > t)
  <2>1. t - p \in Nat /\ p + (t - p) = t /\ Count(book) <= MaxId
    BY <1>1, <1>2, <1>3, <1>6
  <2>2. Rotates(After(book, p)[t - p], book, p, p + (t - p))
    BY <1>1, <1>2, <2>1, AfterRotates
  <2> QED
    BY <1>4, <1>6, <2>1, <2>2 DEF p
<1> QED
  BY <1>5, <1>6

\* Where a reorder puts the entries.
LEMMA MovedPositions ==
  ASSUME BookOrder, NEW j \in Ids, Active(j), NEW t \in Nat, t < Count(book),
         NEW x \in Ids, Active(x)
  PROVE  PosOf(Moved(j, t), x) = Shifted(PosOf(book, j), t, PosOf(book, x))
<1>1. PosOf(book, j) \in Nat /\ PosOf(book, j) < Count(book)
  BY EntryOfJob
<1>2. /\ PosOf(book, x) \in Nat /\ PosOf(book, x) < Count(book)
      /\ book[IndexAt(book, PosOf(book, x))] = x
  BY EntryOfJob
<1>3. Rotates(Moved(j, t), book, PosOf(book, j), t)
  BY MovedRotates
<1>4. book \in Seq(Ids)
  BY DEF BookOrder
<1> QED
  BY <1>1, <1>2, <1>3, <1>4, RotatedPosition

\* Different entries have different positions.
LEMMA PositionsDiffer ==
  ASSUME BookOrder, NEW x \in Ids, NEW y \in Ids, Active(x), Active(y), x # y
  PROVE  PosOf(book, x) # PosOf(book, y)
<1>1. book[IndexAt(book, PosOf(book, x))] = x /\ book[IndexAt(book, PosOf(book, y))] = y
  BY EntryOfJob
<1> QED
  BY <1>1

LEMMA TargetInQueue ==
  ASSUME BookOrder, NEW j \in Ids, NEW b \in Ids, Active(j), Active(b)
  PROVE  TargetBefore(j, b) \in Nat /\ TargetBefore(j, b) < Count(book)
<1>1. /\ PosOf(book, j) \in Nat /\ PosOf(book, j) < Count(book)
      /\ PosOf(book, b) \in Nat /\ PosOf(book, b) < Count(book) /\ Count(book) \in Nat
  BY EntryOfJob, PosAtNext, CountFits DEF BookOrder
<1> QED
  BY <1>1 DEF TargetBefore

\* A reorder lands the entry where it was asked to.
LEMMA LandsFact ==
  ASSUME BookOrder
  PROVE  ReorderLands
<1>1. ActiveCount = Count(book) /\ Count(book) \in Nat
  BY CountIsActiveCount DEF BookOrder
<1>2. ASSUME NEW j \in Ids, Active(j), NEW t \in 0 .. ActiveCount - 1
      PROVE  PosOf(Moved(j, t), j) = t
  <2>1. t \in Nat /\ t < Count(book)
    BY <1>1
  <2>2. PosOf(Moved(j, t), j) = Shifted(PosOf(book, j), t, PosOf(book, j))
    BY <1>2, <2>1, MovedPositions
  <2> QED
    BY <2>2 DEF Shifted
<1>3. ASSUME NEW j \in Ids, NEW b \in Ids, Active(j), Active(b), b # j
      PROVE  LET m == Moved(j, TargetBefore(j, b)) IN PosOf(m, j) + 1 = PosOf(m, b)
  <2> DEFINE t == TargetBefore(j, b)
             p == PosOf(book, j)
             q == PosOf(book, b)
  <2>1. t \in Nat /\ t < Count(book)
    BY <1>3, TargetInQueue
  <2>2. PosOf(Moved(j, t), j) = Shifted(p, t, p) /\ PosOf(Moved(j, t), b) = Shifted(p, t, q)
    BY <1>3, <2>1, MovedPositions
  <2>3. p \in Nat /\ q \in Nat /\ p # q
    BY <1>3, EntryOfJob, PositionsDiffer
  <2>4. t = IF q > p THEN q - 1 ELSE q
    BY <1>3 DEF TargetBefore
  <2> HIDE DEF t, p, q
  <2>5. Shifted(p, t, p) = t /\ Shifted(p, t, q) = t + 1
    BY <2>3, <2>4 DEF Shifted
  <2>6. PosOf(Moved(j, t), j) + 1 = PosOf(Moved(j, t), b)
    BY <2>2, <2>5
  <2> QED
    BY <2>6 DEF t
<1> QED
  BY <1>2, <1>3 DEF ReorderLands

\* A reorder leaves the rest of the book as it is.
LEMMA MoveFact ==
  ASSUME BookOrder
  PROVE  ReorderIsMove
<1>1. ActiveCount = Count(book) /\ Count(book) \in Nat /\ DOMAIN book = 1 .. Len(book)
  BY CountIsActiveCount DEF BookOrder
<1>2. ASSUME NEW j \in Ids, Active(j), NEW t \in 0 .. ActiveCount - 1
      PROVE  LET b == Moved(j, t)
             IN /\ \A i \in DOMAIN book : ~Active(book[i]) => b[i] = book[i]
                /\ \A x, y \in {z \in Ids : Active(z)} \ {j} :
                     PosOf(book, x) < PosOf(book, y) <=> PosOf(b, x) < PosOf(b, y)
  <2> DEFINE b == Moved(j, t)
             p == PosOf(book, j)
  <2>1. t \in Nat /\ t < Count(book)
    BY <1>1
  <2>2. Like(b, book)
    BY <1>2, <2>1, MovedRotates DEF Rotates
  <2>3. p \in Nat
    BY <1>2, EntryOfJob
  <2>4. ASSUME NEW x \in Ids, Active(x), x # j
        PROVE  /\ PosOf(book, x) \in Nat /\ PosOf(book, x) # p
               /\ PosOf(b, x) = Shifted(p, t, PosOf(book, x))
    BY <1>2, <2>1, <2>4, EntryOfJob, PositionsDiffer, MovedPositions
  <2> HIDE DEF b, p
  <2>5. \A i \in DOMAIN book : ~Active(book[i]) => b[i] = book[i]
    BY <1>1, <2>2 DEF Like
  <2>6. \A u, v \in Nat : u # p /\ v # p => (u < v <=> Shifted(p, t, u) < Shifted(p, t, v))
    BY <2>1, <2>3 DEF Shifted
  <2>7. \A x, y \in {z \in Ids : Active(z)} \ {j} :
          PosOf(book, x) < PosOf(book, y) <=> PosOf(b, x) < PosOf(b, y)
    BY <2>4, <2>6
  <2> QED
    BY <2>5, <2>7 DEF b
<1> QED
  BY <1>2 DEF ReorderIsMove
----------------------------------------------------------------------------
(* What JobServer assumes of a reorder.                                    *)

IndexOf(b, x) == CHOOSE i \in DOMAIN b : b[i] = x

\* JobServer!IsQueueMove, for the book and the records of this module.
IsQueueMove(b, j) ==
  LET act == {x \in Ids : Active(x)}
  IN /\ \A i \in DOMAIN book : book[i] \notin act => b[i] = book[i]
     /\ \A x \in act : \E i \in DOMAIN b : b[i] = x
     /\ \A x, y \in act \ {j} : IndexOf(book, x) < IndexOf(book, y) <=> IndexOf(b, x) < IndexOf(b, y)

\* Active entries are in the order of their positions.
LEMMA IndexOrder ==
  ASSUME NEW b \in Seq(Ids), NEW x \in Ids, NEW y \in Ids, Active(x), Active(y),
         \E i \in DOMAIN b : b[i] = x, \E i \in DOMAIN b : b[i] = y
  PROVE  IndexOf(b, x) < IndexOf(b, y) <=> PosOf(b, x) < PosOf(b, y)
<1> DEFINE i == IndexOf(b, x)
           k == IndexOf(b, y)
<1>1. Len(b) \in Nat /\ DOMAIN b = 1 .. Len(b)
  OBVIOUS
<1>2. i \in 1 .. Len(b) /\ b[i] = x
  BY <1>1 DEF IndexOf
<1>3. k \in 1 .. Len(b) /\ b[k] = y
  BY <1>1 DEF IndexOf
<1>4. PosOf(b, x) = PosAt(b, i) /\ PosOf(b, y) = PosAt(b, k)
  BY DEF PosOf, IndexOf
<1> HIDE DEF i, k
<1>5. i \in Nat \ {0} /\ k \in Nat \ {0} /\ Active(b[i]) /\ Active(b[k])
  BY <1>2, <1>3
<1>6. PosAt(b, i) \in Nat /\ PosAt(b, k) \in Nat
  BY <1>5, PosAtNext
<1>7. i < k => PosAt(b, i) < PosAt(b, k)
  BY <1>5, PosAtGrows
<1>8. k < i => PosAt(b, k) < PosAt(b, i)
  BY <1>5, PosAtGrows
<1>9. i < k <=> PosAt(b, i) < PosAt(b, k)
  BY <1>5, <1>6, <1>7, <1>8
<1> QED
  BY <1>4, <1>9 DEF i, k

LEMMA MovedIsQueueMove ==
  ASSUME BookOrder, NEW j \in Ids, Active(j), NEW t \in Nat, t < Count(book)
  PROVE  Moved(j, t) \in [DOMAIN book -> Ids] /\ IsQueueMove(Moved(j, t), j)
<1> DEFINE b == Moved(j, t)
           act == {x \in Ids : Active(x)}
<1>1. book \in Seq(Ids) /\ DOMAIN book = 1 .. Len(book)
  BY DEF BookOrder
<1>2. Like(b, book)
  BY MovedRotates DEF Rotates
<1>3. t \in 0 .. ActiveCount - 1
  BY <1>1, CountIsActiveCount
<1>4. /\ \A i \in DOMAIN book : ~Active(book[i]) => b[i] = book[i]
      /\ \A x, y \in act \ {j} : PosOf(book, x) < PosOf(book, y) <=> PosOf(b, x) < PosOf(b, y)
  BY <1>3, MoveFact DEF ReorderIsMove
<1> HIDE DEF b
<1>5. b \in Seq(Ids) /\ DOMAIN b = 1 .. Len(book)
  BY <1>2 DEF Like
<1>6. \A x \in act : \E i \in DOMAIN book : book[i] = x
  BY DEF Active, InBook
<1>7. \A x \in act : \E i \in DOMAIN b : b[i] = x
  <2> SUFFICES ASSUME NEW x \in act PROVE \E i \in DOMAIN b : b[i] = x
    OBVIOUS
  <2>1. PICK i \in 1 .. Len(book) : book[i] = x
    BY <1>1, <1>6
  <2>2. \E k \in 1 .. Len(book) : book[i] = b[k]
    BY <1>2 DEF Like
  <2> QED
    BY <1>5, <2>1, <2>2
<1>8. ASSUME NEW x \in act \ {j}, NEW y \in act \ {j}
      PROVE  IndexOf(book, x) < IndexOf(book, y) <=> IndexOf(b, x) < IndexOf(b, y)
  <2>1. x \in Ids /\ y \in Ids /\ Active(x) /\ Active(y)
    OBVIOUS
  <2>2. IndexOf(book, x) < IndexOf(book, y) <=> PosOf(book, x) < PosOf(book, y)
    BY <1>1, <1>6, <2>1, IndexOrder
  <2>3. IndexOf(b, x) < IndexOf(b, y) <=> PosOf(b, x) < PosOf(b, y)
    BY <1>5, <1>7, <2>1, IndexOrder
  <2> QED
    BY <1>4, <2>2, <2>3
<1>9. \A i \in DOMAIN book : book[i] \notin act => b[i] = book[i]
  BY <1>1, <1>4
<1>10. IsQueueMove(b, j)
  BY <1>7, <1>8, <1>9 DEF IsQueueMove
<1>11. b \in [DOMAIN book -> Ids]
  <2>1. b \in [1 .. Len(b) -> Ids] /\ DOMAIN b = 1 .. Len(b)
    BY <1>5
  <2> QED
    BY <1>1, <1>5, <2>1
<1> QED
  BY <1>10, <1>11 DEF b

\* A reorder moves its entry to a position of the active queue.
LEMMA ReorderTarget ==
  ASSUME BookOrder, NEW j \in Ids, Reorder(j)
  PROVE  \E t \in Nat : t < Count(book) /\ book' = Moved(j, t)
<1>1. book \in Seq(Ids) /\ Active(j)
  BY DEF BookOrder, Reorder
<1>2. CASE \E t \in 0 .. ActiveCount - 1 : book' = Moved(j, t)
  <2>1. ActiveCount = Count(book) /\ ActiveCount \in Nat
    BY <1>1, CountIsActiveCount
  <2>2. \A t \in 0 .. ActiveCount - 1 : t \in Nat /\ t < Count(book)
    BY <2>1
  <2> QED
    BY <1>2, <2>2
<1>3. CASE \E b \in Ids : Active(b) /\ book' = Moved(j, TargetBefore(j, b))
  BY <1>1, <1>3, TargetInQueue
<1> QED
  BY <1>2, <1>3 DEF Reorder

----------------------------------------------------------------------------
(* The invariant.                                                          *)

\* Ids are fresh: what the book holds was given out in this session, above all that the
\* session found, and never twice.
BookInv ==
  /\ TypeOK
  /\ Distinct(book) /\ Len(book) <= counter
  /\ \A i \in DOMAIN book : book[i] <= counter
  /\ ~up => book = <<>>
  /\ up => \A j \in Ids : prior[j] # "none" \/ j \in reserved => j <= counter
  /\ NoReissue

\* The part of the invariant about the disk, the records' states and the save.
LEMMA RecordTypes ==
  ASSUME BookInv, Next
  PROVE  /\ session' \in 0 .. MaxSessions /\ up' \in BOOLEAN
         /\ prior' \in [Ids -> {"none"} \cup Final]
         /\ state' \in [Ids -> RowState \cup {"queued"}]
         /\ due' \subseteq Ids /\ saving' \in BOOLEAN
         /\ table' \in [Ids -> RowState]
         /\ image' \in [Ids -> 0 .. MaxSessions] /\ others' \subseteq Ids /\ reserved' \subseteq Ids
         /\ orphan' \in (Ids \cup {0}) \X (0 .. MaxSessions)
<1> USE DEF memory, disk
<1>1. /\ session \in 0 .. MaxSessions /\ up \in BOOLEAN /\ counter \in 0 .. MaxId
      /\ prior \in [Ids -> {"none"} \cup Final]
      /\ book \in Seq(Ids) /\ state \in [Ids -> RowState \cup {"queued"}]
      /\ due \subseteq Ids /\ saving \in BOOLEAN
      /\ table \in [Ids -> RowState]
      /\ image \in [Ids -> 0 .. MaxSessions] /\ others \subseteq Ids /\ reserved \subseteq Ids
      /\ orphan \in (Ids \cup {0}) \X (0 .. MaxSessions)
  BY DEF BookInv, TypeOK
<1>2. MaxId \in Nat /\ MaxSessions \in Nat
  BY BookAssumption
<1>3. NoRows \in [Ids -> {"none"}] /\ counter + 1 \in Nat
  BY <1>1, <1>2 DEF NoRows
<1>4. \A f \in [Ids -> RowState \cup {"queued"}] : \A j : \A v \in RowState \cup {"queued"} :
        [f EXCEPT ![j] = v] \in [Ids -> RowState \cup {"queued"}]
  OBVIOUS
<1>5. CASE Restart
  <2>1. session' \in 0 .. MaxSessions
    BY <1>1, <1>2, <1>5 DEF Restart
  <2>2. Loaded \in [Ids -> {"none"} \cup Final]
    BY <1>1 DEF Loaded, RowState, Final
  <2> QED
    BY <1>1, <1>5, <2>1, <2>2 DEF Restart
<1>6. CASE Crash
  <2>1. orphan' \in (Ids \cup {0}) \X (0 .. MaxSessions)
    BY <1>1, <1>2, <1>6 DEF Crash, NoOrphan
  <2> QED
    BY <1>1, <1>3, <1>6, <2>1 DEF Crash, RowState, Final
<1>7. CASE OrphanWrites
  <2>1. orphan' \in (Ids \cup {0}) \X (0 .. MaxSessions) /\ orphan[2] \in 0 .. MaxSessions
    BY <1>1, <1>2, <1>7 DEF OrphanWrites, NoOrphan
  <2>2. image' \in [Ids -> 0 .. MaxSessions]
    BY <1>1, <1>7, <2>1 DEF OrphanWrites
  <2> QED
    BY <1>1, <1>7, <2>1, <2>2 DEF OrphanWrites
<1>8. CASE Enqueue
  BY <1>1, <1>4, <1>8 DEF Enqueue
<1>9. CASE TakeId
  <2>1. counter + 1 \in Ids
    BY <1>1, <1>2, <1>9 DEF TakeId, Ids
  <2> QED
    BY <1>1, <1>9, <2>1 DEF TakeId
<1>10. CASE Promote
  BY <1>1, <1>4, <1>10 DEF Promote, RowState
<1>11. ASSUME NEW j \in Ids, WorkerWrites(j) \/ End(j) \/ CancelQueued(j) \/ Remove(j) \/ Reorder(j)
       PROVE  /\ session' \in 0 .. MaxSessions /\ up' \in BOOLEAN
              /\ prior' \in [Ids -> {"none"} \cup Final]
              /\ state' \in [Ids -> RowState \cup {"queued"}]
              /\ due' \subseteq Ids /\ saving' \in BOOLEAN
              /\ table' \in [Ids -> RowState]
              /\ image' \in [Ids -> 0 .. MaxSessions] /\ others' \subseteq Ids /\ reserved' \subseteq Ids
              /\ orphan' \in (Ids \cup {0}) \X (0 .. MaxSessions)
  <2>1. CASE WorkerWrites(j)
    BY <1>1, <2>1 DEF WorkerWrites
  <2>2. CASE End(j)
    BY <1>1, <1>4, <2>2 DEF End, RowState, Final
  <2>3. CASE CancelQueued(j)
    BY <1>1, <1>4, <2>3 DEF CancelQueued, RowState, Final
  <2>4. CASE Remove(j)
    BY <1>1, <1>4, <2>4 DEF Remove, RowState
  <2>5. CASE Reorder(j)
    BY <1>1, <2>5 DEF Reorder
  <2> QED
    BY <1>11, <2>1, <2>2, <2>3, <2>4, <2>5
<1>12. ASSUME NEW j \in Ids, SaveDrop(j)
       PROVE  /\ session' = session /\ up' = up /\ prior' = prior /\ state' = state /\ image' = image
              /\ others' = others /\ reserved' = reserved /\ orphan' = orphan
              /\ due' \subseteq Ids /\ saving' \in BOOLEAN /\ table' \in [Ids -> RowState]
  <2>1. table' \in {NoRows, table} /\ saving' \in BOOLEAN /\ due' = due \ {j}
    BY <1>1, <1>12 DEF SaveDrop
  <2>2. NoRows \in [Ids -> RowState]
    BY DEF NoRows, RowState
  <2>3. UNCHANGED <<session, up, prior, state, image, others, reserved, orphan>>
    BY <1>12 DEF SaveDrop
  <2> QED
    BY <1>1, <2>1, <2>2, <2>3
<1>13. CASE SaveInsert
  <2>1. Rows \in [Ids -> RowState]
    BY <1>1 DEF Rows, RowState, Final
  <2> QED
    BY <1>1, <1>13, <2>1 DEF SaveInsert
<1>14. CASE \E j \in Ids : WorkerWrites(j) \/ End(j) \/ CancelQueued(j) \/ Remove(j) \/ Reorder(j)
  BY <1>11, <1>14
<1>15. CASE \E j \in Ids : SaveDrop(j)
  BY <1>1, <1>12, <1>15
<1> QED
  BY <1>5, <1>6, <1>7, <1>8, <1>9, <1>10, <1>13, <1>14, <1>15 DEF Next

\* Taking one entry out of the book.
LEMMA EntryTakenOut ==
  ASSUME NEW b \in Seq(Ids), Distinct(b), NEW i \in 1 .. Len(b)
  PROVE  LET c == SubSeq(b, 1, i - 1) \o SubSeq(b, i + 1, Len(b))
         IN /\ c \in Seq(Ids) /\ Distinct(c) /\ Len(c) <= Len(b)
            /\ \A k \in 1 .. Len(c) : \E n \in 1 .. Len(b) : c[k] = b[n]
<1> DEFINE c == SubSeq(b, 1, i - 1) \o SubSeq(b, i + 1, Len(b))
           u == SubSeq(b, 1, i - 1)
           v == SubSeq(b, i + 1, Len(b))
<1>1. Len(b) \in Nat /\ i \in Nat \ {0} /\ i <= Len(b)
  OBVIOUS
<1>2. \A k \in 1 .. Len(b) : b[k] \in Ids
  OBVIOUS
<1>3. /\ u \in Seq(Ids) /\ Len(u) = i - 1
      /\ \A k \in 1 .. i - 1 : u[k] = b[k]
  BY <1>1, <1>2
<1>4. /\ v \in Seq(Ids) /\ Len(v) = Len(b) - i
      /\ \A k \in 1 .. Len(b) - i : v[k] = b[k + i]
  BY <1>1, <1>2
<1>5. c = u \o v
  OBVIOUS
<1> HIDE DEF c, u, v
<1>6. c \in Seq(Ids) /\ Len(c) = Len(b) - 1 /\ Len(c) \in Nat /\ DOMAIN c = 1 .. Len(c)
  <2>1. u \o v \in Seq(Ids)
    BY <1>3, <1>4
  <2>2. Len(u \o v) = Len(u) + Len(v)
    BY <1>3, <1>4, ConcatProperties
  <2>3. (i - 1) + (Len(b) - i) = Len(b) - 1 /\ Len(b) - 1 \in Nat
    BY <1>1
  <2>4. c \in Seq(Ids) /\ Len(c) = Len(b) - 1
    BY <1>3, <1>4, <1>5, <2>1, <2>2, <2>3
  <2> QED
    BY <2>3, <2>4
<1>7. \A k \in 1 .. Len(c) : c[k] = b[IF k < i THEN k ELSE k + 1]
  <2> SUFFICES ASSUME NEW k \in 1 .. Len(c) PROVE c[k] = b[IF k < i THEN k ELSE k + 1]
    OBVIOUS
  <2>1. CASE k < i
    BY <1>1, <1>3, <1>4, <1>5, <1>6, <2>1
  <2>2. CASE ~(k < i)
    <3>1. c[k] = v[k - (i - 1)]
      <4>1. k \in 1 .. Len(u) + Len(v) /\ ~(k <= Len(u))
        BY <1>1, <1>3, <1>4, <1>6, <2>2
      <4>2. (u \o v)[k] = v[k - Len(u)]
        BY <1>3, <1>4, <4>1, ConcatProperties
      <4> QED
        BY <1>3, <1>5, <4>2
    <3>2. k - (i - 1) \in 1 .. Len(b) - i /\ (k - (i - 1)) + i = k + 1
      BY <1>1, <1>6, <2>2
    <3> QED
      BY <1>4, <2>2, <3>1, <3>2
  <2> QED
    BY <2>1, <2>2
<1>8. Distinct(c)
  <2> SUFFICES ASSUME NEW k \in 1 .. Len(c), NEW n \in 1 .. Len(c), c[k] = c[n] PROVE k = n
    BY <1>6 DEF Distinct
  <2>1. \A x, y \in 1 .. Len(b) : b[x] = b[y] => x = y
    BY DEF Distinct
  <2> DEFINE x == IF k < i THEN k ELSE k + 1
             y == IF n < i THEN n ELSE n + 1
  <2>2. x \in 1 .. Len(b) /\ y \in 1 .. Len(b) /\ (x = y => k = n)
    BY <1>1, <1>6
  <2>3. b[x] = b[y]
    BY <1>7
  <2> QED
    BY <2>1, <2>2, <2>3
<1>9. ASSUME NEW k \in 1 .. Len(c) PROVE \E n \in 1 .. Len(b) : c[k] = b[n]
  <2>1. (IF k < i THEN k ELSE k + 1) \in 1 .. Len(b)
    BY <1>1, <1>6
  <2> QED
    BY <1>7, <2>1
<1>10. Len(c) <= Len(b)
  BY <1>1, <1>6
<1> QED
  BY <1>6, <1>8, <1>9, <1>10 DEF c

\* The invariant carries over to a book that has entries of the old one only.
LEMMA FewerEntries ==
  ASSUME BookInv, book' \in Seq(Ids), Distinct(book'), Len(book') <= Len(book),
         \A k \in 1 .. Len(book') : \E n \in 1 .. Len(book) : book'[k] = book[n],
         UNCHANGED <<up, counter, prior, reserved>>
  PROVE  /\ counter' \in 0 .. MaxId /\ Len(book') <= counter'
         /\ \A i \in DOMAIN book' : book'[i] <= counter'
         /\ ~up' => book' = <<>>
         /\ up' => \A j \in Ids : prior'[j] # "none" \/ j \in reserved' => j <= counter'
         /\ NoReissue'
<1>1. counter \in 0 .. MaxId /\ book \in Seq(Ids) /\ MaxId \in Nat
  BY BookAssumption DEF BookInv, TypeOK
<1>2. Len(book) \in Nat /\ Len(book') \in Nat /\ DOMAIN book = 1 .. Len(book) /\ DOMAIN book' = 1 .. Len(book')
  BY <1>1
<1>3. Len(book') <= counter'
  BY <1>1, <1>2 DEF BookInv
<1>4. \A i \in DOMAIN book' : book'[i] <= counter'
  BY <1>2 DEF BookInv
<1>5. ASSUME ~up' PROVE book' = <<>>
  <2>1. Len(book) = 0
    BY <1>5 DEF BookInv
  <2>2. Len(book') = 0
    BY <1>2, <2>1
  <2> QED
    BY <2>2
<1>6. NoReissue'
  BY <1>2 DEF BookInv, NoReissue, InBook
<1> QED
  BY <1>1, <1>3, <1>4, <1>5, <1>6 DEF BookInv

\* Every step keeps the ids fresh.
LEMMA IdsStayFresh ==
  ASSUME BookInv, Next
  PROVE  /\ counter' \in 0 .. MaxId /\ book' \in Seq(Ids)
         /\ Distinct(book') /\ Len(book') <= counter'
         /\ \A i \in DOMAIN book' : book'[i] <= counter'
         /\ ~up' => book' = <<>>
         /\ up' => \A j \in Ids : prior'[j] # "none" \/ j \in reserved' => j <= counter'
         /\ NoReissue'
<1> USE DEF memory, disk
<1> DEFINE Fresh == /\ counter' \in 0 .. MaxId /\ book' \in Seq(Ids)
                    /\ Distinct(book') /\ Len(book') <= counter'
                    /\ \A i \in DOMAIN book' : book'[i] <= counter'
                    /\ ~up' => book' = <<>>
                    /\ up' => \A j \in Ids : prior'[j] # "none" \/ j \in reserved' => j <= counter'
                    /\ NoReissue'
<1>1. /\ counter \in 0 .. MaxId /\ MaxId \in Nat /\ book \in Seq(Ids)
      /\ Len(book) \in Nat /\ DOMAIN book = 1 .. Len(book) /\ counter \in Nat
  BY BookAssumption DEF BookInv, TypeOK
<1>2. Distinct(book)
  BY DEF BookInv
<1>3. CASE UNCHANGED <<up, counter, prior, book, reserved>>
  <2>1. \A k \in 1 .. Len(book) : \E n \in 1 .. Len(book) : book[k] = book[n]
    OBVIOUS
  <2> QED
    BY <1>1, <1>2, <1>3, <2>1, FewerEntries
<1>4. CASE Restart
  <2>1. book = <<>> /\ book' = <<>>
    BY <1>4 DEF Restart, BookInv
  <2>2. prior' = Loaded /\ counter' = Recovered /\ up' = TRUE
        /\ reserved' = {j \in Ids : Named(j)}
    BY <1>4 DEF Restart
  <2>3. {j \in Ids : Loaded[j] # "none" \/ Named(j)} \in SUBSET Ids
    OBVIOUS
  <2>4. /\ Recovered \in 0 .. MaxId
        /\ \A x \in {j \in Ids : Loaded[j] # "none" \/ Named(j)} : x <= Recovered
    BY <2>3, TopOfIds DEF Recovered
  <2>5. book' \in Seq(Ids) /\ Len(book') = 0 /\ DOMAIN book' = {}
    BY <2>1
  <2>6. Distinct(book') /\ Len(book') <= counter' /\ \A i \in DOMAIN book' : book'[i] <= counter'
    BY <1>1, <2>2, <2>4, <2>5 DEF Distinct
  <2>7. NoReissue'
    BY <2>5 DEF NoReissue, InBook
  <2>8. \A j \in Ids : prior'[j] # "none" \/ j \in reserved' => j <= counter'
    BY <2>2, <2>4
  <2> QED
    BY <2>2, <2>4, <2>5, <2>6, <2>7, <2>8
<1>5. CASE Crash
  <2>1. book' = <<>> /\ counter' = 0 /\ up' = FALSE
    BY <1>5 DEF Crash
  <2>2. book' \in Seq(Ids) /\ Len(book') = 0 /\ DOMAIN book' = {}
    BY <2>1
  <2>3. Distinct(book') /\ Len(book') <= counter' /\ \A i \in DOMAIN book' : book'[i] <= counter'
    BY <2>1, <2>2 DEF Distinct
  <2>4. NoReissue'
    BY <2>2 DEF NoReissue, InBook
  <2> QED
    BY <1>1, <2>1, <2>2, <2>3, <2>4
<1>6. CASE Enqueue
  <2>1. /\ counter' = counter + 1 /\ book' = Append(book, counter + 1)
        /\ up /\ up' = up /\ prior' = prior /\ reserved' = reserved /\ counter < MaxId
    BY <1>6 DEF Enqueue, Unlocked
  <2>2. counter + 1 \in Ids /\ counter' \in 0 .. MaxId /\ counter' \in Nat
    BY <1>1, <2>1 DEF Ids
  <2>3. /\ book' \in Seq(Ids) /\ Len(book') = Len(book) + 1 /\ DOMAIN book' = 1 .. Len(book) + 1
        /\ book'[Len(book) + 1] = counter + 1
        /\ \A i \in 1 .. Len(book) : book'[i] = book[i]
    BY <1>1, <2>1, <2>2
  <2>4. \A i \in 1 .. Len(book) : book[i] <= counter /\ book[i] \in Nat
    BY <1>1 DEF BookInv, Ids
  <2>5. Distinct(book')
    <3> SUFFICES ASSUME NEW i \in 1 .. Len(book) + 1, NEW k \in 1 .. Len(book) + 1, book'[i] = book'[k]
                 PROVE  i = k
      BY <2>3 DEF Distinct
    <3>1. \A x, y \in 1 .. Len(book) : book[x] = book[y] => x = y
      BY <1>1, <1>2 DEF Distinct
    <3>2. \A x \in 1 .. Len(book) : book'[x] # counter + 1
      BY <1>1, <2>3, <2>4
    <3> QED
      BY <1>1, <2>3, <3>1, <3>2
  <2>6. Len(book') <= counter'
    BY <1>1, <2>1, <2>3 DEF BookInv
  <2>7. \A i \in DOMAIN book' : book'[i] <= counter'
    BY <1>1, <2>1, <2>2, <2>3, <2>4
  <2>8. \A j \in Ids : prior[j] # "none" \/ j \in reserved => j <= counter
    BY <2>1 DEF BookInv
  <2>9. \A j \in Ids : prior'[j] # "none" \/ j \in reserved' => j <= counter'
    BY <1>1, <2>1, <2>8 DEF Ids
  <2>10. NoReissue'
    <3> SUFFICES ASSUME NEW j \in Ids, NEW i \in 1 .. Len(book) + 1, book'[i] = j
                 PROVE  prior'[j] = "none" /\ j \notin reserved'
      BY <2>3 DEF NoReissue, InBook
    <3>1. CASE i = Len(book) + 1
      BY <1>1, <2>1, <2>3, <2>8, <3>1
    <3>2. CASE i # Len(book) + 1
      <4>1. i \in 1 .. Len(book) /\ book[i] = j
        BY <1>1, <2>3, <3>2
      <4> QED
        BY <1>1, <2>1, <4>1 DEF BookInv, NoReissue, InBook
    <3> QED
      BY <3>1, <3>2
  <2> QED
    BY <2>1, <2>2, <2>3, <2>5, <2>6, <2>7, <2>9, <2>10
<1>7. CASE TakeId
  <2>1. /\ counter' = counter + 1 /\ counter' \in 0 .. MaxId /\ up
        /\ UNCHANGED <<up, prior, book, reserved>>
    BY <1>1, <1>7 DEF TakeId
  <2>2. Len(book') <= counter'
    BY <1>1, <2>1 DEF BookInv
  <2>3. \A i \in DOMAIN book' : book'[i] <= counter'
    BY <1>1, <2>1 DEF BookInv, Ids
  <2>4. \A j \in Ids : prior'[j] # "none" \/ j \in reserved' => j <= counter'
    BY <1>1, <2>1 DEF BookInv, Ids
  <2>5. NoReissue'
    BY <2>1 DEF BookInv, NoReissue, InBook
  <2> QED
    BY <1>1, <1>2, <2>1, <2>2, <2>3, <2>4, <2>5
<1>8. ASSUME NEW j \in Ids, Remove(j)
      PROVE  Fresh
  <2>1. PICK i \in 1 .. Len(book) : book' = SubSeq(book, 1, i - 1) \o SubSeq(book, i + 1, Len(book))
    BY <1>1, <1>8 DEF Remove
  <2>2. UNCHANGED <<up, counter, prior, reserved>>
    BY <1>8 DEF Remove
  <2>3. /\ book' \in Seq(Ids) /\ Distinct(book') /\ Len(book') <= Len(book)
        /\ \A k \in 1 .. Len(book') : \E n \in 1 .. Len(book) : book'[k] = book[n]
    BY <1>1, <1>2, <2>1, EntryTakenOut
  <2> QED
    BY <2>2, <2>3, FewerEntries
<1>9. ASSUME NEW j \in Ids, Reorder(j)
      PROVE  Fresh
  <2>1. BookOrder
    BY <1>1, <1>2 DEF BookOrder, BookInv
  <2>2. Active(j) /\ UNCHANGED <<up, counter, prior, reserved>>
    BY <1>9 DEF Reorder
  <2>3. \E t \in Nat : t < Count(book) /\ book' = Moved(j, t)
    BY <1>9, <2>1, ReorderTarget
  <2>4. PICK t \in Nat : t < Count(book) /\ book' = Moved(j, t)
    BY <2>3
  <2>5. Like(book', book)
    BY <2>1, <2>2, <2>4, MovedRotates DEF Rotates
  <2>6. /\ book' \in Seq(Ids) /\ Distinct(book') /\ Len(book') <= Len(book)
        /\ \A k \in 1 .. Len(book') : \E n \in 1 .. Len(book) : book'[k] = book[n]
    BY <1>1, <2>5 DEF Like
  <2> QED
    BY <2>2, <2>6, FewerEntries
<1>10. CASE OrphanWrites \/ Promote \/ SaveInsert
  BY <1>3, <1>10 DEF OrphanWrites, Promote, SaveInsert
<1>11. ASSUME NEW j \in Ids, WorkerWrites(j) \/ End(j) \/ CancelQueued(j) \/ SaveDrop(j)
       PROVE  Fresh
  BY <1>3, <1>11 DEF WorkerWrites, End, CancelQueued, SaveDrop
<1> HIDE DEF Fresh
<1>12. Fresh
  <2>1. Restart \/ Crash \/ Enqueue \/ TakeId => Fresh
    BY <1>4, <1>5, <1>6, <1>7 DEF Fresh
  <2>2. OrphanWrites \/ Promote \/ SaveInsert => Fresh
    BY <1>10 DEF Fresh
  <2> QED
    BY <1>8, <1>9, <1>11, <2>1, <2>2 DEF Next
<1> QED
  BY <1>12 DEF Fresh

\* The ids of a session are above all that it found, and its book holds none twice.
THEOREM BookInvariance == Spec => []BookInv
<1>1. Init => BookInv
  <2> SUFFICES ASSUME Init PROVE BookInv
    OBVIOUS
  <2>1. MaxId \in Nat /\ MaxSessions \in Nat
    BY BookAssumption
  <2>2. NoRows \in [Ids -> {"none"}]
    BY DEF NoRows
  <2>3. book = <<>> /\ DOMAIN book = {} /\ Len(book) = 0 /\ book \in Seq(Ids)
    BY DEF Init
  <2>4. TypeOK
    <3>1. orphan \in (Ids \cup {0}) \X (0 .. MaxSessions)
      BY <2>1 DEF Init, NoOrphan
    <3>2. image \in [Ids -> 0 .. MaxSessions]
      BY <2>1 DEF Init
    <3>3. NoRows \in [Ids -> RowState] /\ NoRows \in [Ids -> {"none"} \cup Final]
      BY <2>2 DEF RowState
    <3>4. NoRows \in [Ids -> RowState \cup {"queued"}]
      BY <3>3
    <3>5. /\ session \in 0 .. MaxSessions /\ up \in BOOLEAN /\ counter \in 0 .. MaxId
          /\ due \subseteq Ids /\ saving \in BOOLEAN /\ others \subseteq Ids /\ reserved \subseteq Ids
      <4>1. session = 0 /\ counter = 0 /\ up = FALSE /\ saving = FALSE
        BY DEF Init
      <4>2. due = {} /\ others = {} /\ reserved = {}
        BY DEF Init
      <4>3. session \in 0 .. MaxSessions /\ counter \in 0 .. MaxId
        BY <2>1, <4>1
      <4>4. up \in BOOLEAN /\ saving \in BOOLEAN
        BY <4>1
      <4> QED
        BY <4>2, <4>3, <4>4
    <3>6. prior = NoRows /\ state = NoRows /\ table = NoRows
      BY DEF Init
    <3> QED
      BY <2>3, <3>1, <3>2, <3>3, <3>4, <3>5, <3>6 DEF TypeOK
  <2> QED
    BY <2>3, <2>4 DEF Init, BookInv, NoReissue, InBook, Distinct
<1>2. BookInv /\ [Next]_vars => BookInv'
  <2> SUFFICES ASSUME BookInv, [Next]_vars PROVE BookInv'
    OBVIOUS
  <2>1. CASE Next
    BY <2>1, RecordTypes, IdsStayFresh DEF BookInv, TypeOK, Distinct
  <2>2. CASE UNCHANGED vars
    BY <2>2 DEF vars, memory, disk, BookInv, TypeOK, NoReissue, InBook, Distinct
  <2> QED
    BY <2>1, <2>2
<1> QED
  BY <1>1, <1>2, PTL DEF Spec

\* Every variable of the book has its type, whatever a reorder makes of it.
THEOREM BookTypes == Spec => []TypeOK
<1>1. BookInv => TypeOK
  BY DEF BookInv
<1> QED
  BY <1>1, BookInvariance, PTL

\* enqueue_generate: a new id never collides with a prior row, nor with an artifact that
\* was on disk when the session began (max_prior_id and max_existing_output_id).
THEOREM IdsAreNew == Spec => []NoReissue
<1>1. BookInv => NoReissue
  BY DEF BookInv
<1> QED
  BY <1>1, BookInvariance, PTL

\* save_jobs_db: a rewrite that completes holds every row of the earlier sessions, as it was.
THEOREM RowsAreKept == Spec => HistoryIsKept
<1>1. BookInv /\ [Next]_vars =>
        [saving /\ table' # table => \A j \in Ids : prior[j] # "none" => table'[j] = prior[j]]_vars
  <2> SUFFICES ASSUME BookInv, Next, saving, table' # table, NEW j \in Ids, prior[j] # "none"
               PROVE  table'[j] = prior[j]
    BY DEF vars
  <2>1. SaveInsert
    BY DEF Next, Restart, Crash, OrphanWrites, Enqueue, TakeId, Promote, WorkerWrites, End,
           CancelQueued, Remove, Reorder, SaveDrop, Unlocked, disk
  <2>2. table' = Rows
    BY <2>1 DEF SaveInsert
  <2>3. ~InBook(j)
    BY DEF BookInv, NoReissue
  <2> QED
    BY <2>2, <2>3 DEF Rows
<1> QED
  BY <1>1, BookInvariance, PTL DEF Spec, HistoryIsKept

\* load_prior_rows, save_jobs_db: what a session finds in jobs.db is in the table whole or
\* not at all. A crash (JobBook_crash) or an SQL error may cost the history, never a part of
\* it, and the table that is left is empty.
WholeOrEmpty == up /\ table # NoRows => \A j \in Ids : prior[j] # "none" => table[j] # "none"

THEOREM RowsWholeOrNone == Spec => []WholeOrEmpty
<1>1. Init => WholeOrEmpty
  BY DEF Init, WholeOrEmpty
<1>2. BookInv /\ WholeOrEmpty /\ [Next]_vars => WholeOrEmpty'
  <2> SUFFICES ASSUME BookInv, WholeOrEmpty, [Next]_vars, up', table' # NoRows,
                      NEW j \in Ids, prior'[j] # "none"
               PROVE  table'[j] # "none"
    BY DEF WholeOrEmpty, NoRows
  <2>1. CASE Restart
    BY <2>1 DEF Restart, Loaded, disk
  <2>2. CASE Crash \/ \E x \in Ids : SaveDrop(x)
    BY <2>2 DEF Crash, SaveDrop, WholeOrEmpty
  <2>3. CASE SaveInsert
    <3>1. prior' = prior /\ up' = up /\ table' \in {Rows, table}
      BY <2>3 DEF SaveInsert
    <3>2. ~InBook(j)
      BY <3>1 DEF BookInv, NoReissue
    <3> QED
      BY <3>1, <3>2 DEF Rows, WholeOrEmpty
  <2>4. CASE UNCHANGED vars
    BY <2>4 DEF vars, memory, disk, WholeOrEmpty, NoRows
  <2>5. CASE /\ Next /\ ~Restart /\ ~Crash /\ ~SaveInsert
             /\ ~(\E x \in Ids : SaveDrop(x))
    <3>1. UNCHANGED <<up, prior, table>>
      BY <2>5 DEF Next, OrphanWrites, Enqueue, TakeId, Promote, WorkerWrites, End, CancelQueued,
         Remove, Reorder, memory, disk
    <3> QED
      BY <3>1 DEF WholeOrEmpty, NoRows
  <2> QED
    BY <2>1, <2>2, <2>3, <2>4, <2>5
<1> QED
  BY <1>1, <1>2, BookInvariance, PTL DEF Spec

\* A record belongs to an id that no artifact of an earlier session has, and an artifact
\* that the session did not find was written by its own worker.
ArtifactInv ==
  /\ ~up => state = NoRows
  /\ up => \A j \in Ids : /\ state[j] # "none" => j \notin reserved
                          /\ image[j] # 0 => j \in reserved \/ image[j] = session

\* Only an orphan breaks it.
LEMMA ArtifactStep ==
  BookInv /\ ArtifactInv /\ [Next /\ ~OrphanWrites]_vars => ArtifactInv'
<1> SUFFICES ASSUME BookInv, ArtifactInv, [Next /\ ~OrphanWrites]_vars PROVE ArtifactInv'
  OBVIOUS
<1>types. /\ state \in [Ids -> RowState \cup {"queued"}] /\ image \in [Ids -> 0 .. MaxSessions]
          /\ counter \in 0 .. MaxId /\ MaxId \in Nat
  BY BookAssumption DEF BookInv, TypeOK
<1>1. CASE Restart
  BY <1>1 DEF Restart, ArtifactInv, NoRows, Named, disk
<1>2. CASE Crash
  BY <1>2 DEF Crash, NoRows, ArtifactInv
<1>3. CASE Enqueue
  <2>1. up /\ counter + 1 \in Ids /\ counter + 1 \notin reserved
    BY <1>types, <1>3 DEF Enqueue, Unlocked, BookInv, Ids
  <2> QED
    BY <1>types, <1>3, <2>1 DEF Enqueue, ArtifactInv, disk
<1>4. ASSUME NEW j \in Ids, WorkerWrites(j) PROVE ArtifactInv'
  BY <1>types, <1>4 DEF WorkerWrites, ArtifactInv, memory
<1>5. ASSUME /\ \A j \in Ids : state'[j] # "none" => state[j] # "none"
             /\ up /\ UNCHANGED <<session, up, image, reserved>>
      PROVE  ArtifactInv'
  BY <1>5 DEF ArtifactInv
<1>6. CASE Promote
  BY <1>types, <1>5, <1>6 DEF Promote, Active, Unlocked, disk
<1>7. ASSUME NEW j \in Ids, End(j) \/ CancelQueued(j) \/ Remove(j) PROVE ArtifactInv'
  BY <1>types, <1>5, <1>7 DEF End, CancelQueued, Remove, Active, Unlocked, disk
<1>8. ASSUME UNCHANGED <<session, up, image, reserved, state>> PROVE ArtifactInv'
  BY <1>8 DEF ArtifactInv, NoRows
<1>9. ASSUME TakeId \/ SaveInsert \/ (\E j \in Ids : Reorder(j) \/ SaveDrop(j)) \/ UNCHANGED vars
      PROVE  UNCHANGED <<session, up, image, reserved, state>>
  BY <1>9 DEF TakeId, SaveInsert, Reorder, SaveDrop, vars, memory, disk
<1> QED
  BY <1>1, <1>2, <1>3, <1>4, <1>6, <1>7, <1>8, <1>9 DEF Next

\* max_existing_output_id: the worker left behind is the only way to lose a finished image
\* (JobBook_orphan). Without its late write no crash, restart or lost save leads to a job
\* whose image replaces another.
THEOREM OnlyOrphansOverwrite == Spec /\ [][~OrphanWrites]_vars => NoArtifactOverwritten
<1>1. Init => ArtifactInv
  BY DEF Init, ArtifactInv
<1>2. BookInv /\ ArtifactInv /\ [Next /\ ~OrphanWrites]_vars
        => [\A j \in Ids : image[j] # 0 => image'[j] = image[j]]_image
  <2> SUFFICES ASSUME BookInv, ArtifactInv, Next, ~OrphanWrites, NEW j \in Ids,
                      image' # image, image[j] # 0
               PROVE  image'[j] = image[j]
    BY DEF vars, disk
  <2>1. PICK x \in Ids : WorkerWrites(x)
    BY DEF Next, Restart, Crash, Enqueue, TakeId, Promote, End, CancelQueued, Remove, Reorder,
       SaveDrop, SaveInsert, disk
  <2>2. x # j
    BY <2>1 DEF WorkerWrites, ArtifactInv
  <2> QED
    BY <2>1, <2>2 DEF WorkerWrites, BookInv, TypeOK
<1>3. [Next]_vars /\ [~OrphanWrites]_vars => [Next /\ ~OrphanWrites]_vars
  OBVIOUS
<1> QED
  BY <1>1, <1>2, <1>3, ArtifactStep, BookInvariance, PTL DEF Spec, NoArtifactOverwritten

\* POST /v1/reorder: the entry lands at the position it was given, and in front of the
\* entry named by before_id, from whichever side it comes (reorder_target_position); the
\* running and finished entries stay where they are, and the other active entries keep
\* their order (move_queued_job_to_position).
THEOREM ReordersAreExact == Spec => []ReorderIsExact
<1>1. BookInv => ReorderIsExact
  <2>1. BookInv => BookOrder
    BY BookAssumption DEF BookInv, BookOrder, TypeOK
  <2> QED
    BY <2>1, LandsFact, MoveFact DEF ReorderIsExact
<1> QED
  BY <1>1, BookInvariance, PTL

\* JobServer models POST /v1/reorder as any move of one entry through the active queue
\* (IsQueueMove). The swap loop of move_queued_job_to_position is never anything else.
THEOREM ReordersMeetServer ==
  Spec => [][\A j \in Ids : Reorder(j) => book' \in [DOMAIN book -> Ids] /\ IsQueueMove(book', j)]_vars
<1> DEFINE Moves == \A j \in Ids : Reorder(j) => book' \in [DOMAIN book -> Ids] /\ IsQueueMove(book', j)
<1>1. BookInv /\ [Next]_vars => [Moves]_vars
  <2> SUFFICES ASSUME BookInv, NEW j \in Ids, Reorder(j)
               PROVE  book' \in [DOMAIN book -> Ids] /\ IsQueueMove(book', j)
    BY DEF vars
  <2>1. BookOrder
    BY BookAssumption DEF BookInv, BookOrder, TypeOK
  <2>2. PICK t \in Nat : t < Count(book) /\ book' = Moved(j, t)
    BY <2>1, ReorderTarget
  <2>3. Active(j)
    BY DEF Reorder
  <2>4. Moved(j, t) \in [DOMAIN book -> Ids] /\ IsQueueMove(Moved(j, t), j)
    BY <2>1, <2>2, <2>3, MovedIsQueueMove
  <2> QED
    BY <2>2, <2>4
<1> QED
  BY <1>1, BookInvariance, PTL DEF Spec
====
