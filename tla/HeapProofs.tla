------------------------------ MODULE HeapProofs ------------------------------
(***************************************************************************)
(* What holds of the two heaps for any sizes of headers, pages and blocks  *)
(* and any alignments that are multiples of the smaller ones.  The list of *)
(* headers is whole: each lies where the data of the one before it ends.   *)
(***************************************************************************)
EXTENDS Heap, SequenceTheorems, WellFoundedInduction, TLAPS

Aligns == Alignments \cup {0, SplitAlign}
Headers == [addr : Nat, free : BOOLEAN, size : Nat, align : Aligns]

\* Where the data of a header ends, and the next header lies.
After(h) == Data(h) + h.size

\* The list begins with the empty header of the start and has no gaps.
Whole(hs) ==
  /\ hs \in Seq(Headers) /\ Len(hs) > 0 /\ hs[1] = Header(0, TRUE, 0, 0)
  /\ \A i \in 1 .. Len(hs) - 1 : hs[i + 1].addr = After(hs[i])

-----------------------------------------------------------------------------
(* Alignment *)

LEMMA SmallestExists ==
  ASSUME NEW S \in SUBSET Nat, S # {}
  PROVE  \E x \in S : \A y \in S : x <= y
<1>1. \E x \in S : \A y \in S : ~ (<<y, x>> \in OpToRel(<, Nat))
  BY NatLessThanWellFounded, WFMin, Zenon
<1>2. PICK x \in S : \A y \in S : ~ (y < x)
  BY <1>1 DEF OpToRel
<1> QED BY <1>2

LEMMA Remainder ==
  ASSUME NEW x \in Nat, NEW a \in Nat \ {0}
  PROVE  x % a \in 0 .. a - 1 /\ x \div a \in Nat /\ x = (a * (x \div a)) + (x % a)
OBVIOUS

LEMMA Divides ==
  ASSUME NEW x \in Nat, NEW a \in Nat \ {0}
  PROVE  (x % a = 0) <=> (\E k \in Nat : x = a * k)
<1>1. x % a = 0 => x = a * (x \div a) /\ x \div a \in Nat
  BY Remainder
<1>2. ASSUME NEW k \in Nat, x = a * k
      PROVE  x % a = 0
  <2> DEFINE q == x \div a
             r == x % a
  <2>0. r \in 0 .. a - 1 /\ q \in Nat /\ x = (a * q) + r BY Remainder
  <2> HIDE DEF q, r
  <2>1. q \in Nat /\ r \in Nat /\ r < a /\ a * k = (a * q) + r BY <1>2, <2>0
  <2>2. a * (k - q) = r BY <2>1
  <2>3. CASE k <= q
    <3>1. a * k <= a * q BY <2>1, <2>3
    <3>2. r = 0 BY <2>1, <3>1
    <3> QED BY <3>2 DEF r
  <2>4. CASE k > q
    <3>1. k - q >= 1 BY <2>1, <2>4
    <3>2. a * (k - q) >= a BY <2>1, <3>1
    <3> QED BY <2>1, <2>2, <3>2
  <2> QED BY <2>1, <2>3, <2>4
<1>3. (\E k \in Nat : x = a * k) => x % a = 0
  BY <1>2
<1> QED BY <1>1, <1>3

\* What slow_align returns: the next multiple.
Multiple(y, a) == a > 1 => y % a = 0

LEMMA NextMultiple ==
  ASSUME NEW x \in Nat, NEW a \in Nat
  PROVE  /\ slow_align(x, a) \in Nat /\ x <= slow_align(x, a) /\ Multiple(slow_align(x, a), a)
         /\ \A y \in Nat : x <= y /\ Multiple(y, a) => slow_align(x, a) <= y
         /\ a <= 1 \/ Multiple(x, a) => slow_align(x, a) = x
<1>1. CASE a <= 1 \/ Multiple(x, a)
  <2>1. slow_align(x, a) = x BY <1>1 DEF slow_align, Multiple
  <2> QED BY <1>1, <2>1 DEF Multiple
<1>2. CASE a > 1 /\ x % a # 0
  <2> DEFINE q == x \div a
             r == x % a
             z == x + (a - r)
  <2>0. a \in Nat \ {0} BY <1>2
  <2>r. r \in 0 .. a - 1 /\ q \in Nat /\ x = (a * q) + r BY <2>0, Remainder
  <2>1. q \in Nat /\ r \in 1 .. a - 1 /\ x = (a * q) + r BY <1>2, <2>r
  <2>2. slow_align(x, a) = z BY <1>2 DEF slow_align
  <2> HIDE DEF q, r
  <2>3. z = a * (q + 1) /\ z \in Nat /\ x <= z BY <1>2, <2>1
  <2> HIDE DEF z
  <2>4. z % a = 0 BY <1>2, <2>1, <2>3, Divides
  <2>5. ASSUME NEW y \in Nat, x <= y, y % a = 0
        PROVE  z <= y
    <3>1. PICK k \in Nat : y = a * k BY <2>0, <2>5, Divides
    <3>2. CASE k <= q
      <4>1. a * k <= a * q BY <1>2, <2>1, <3>2
      <4> QED BY <1>2, <2>1, <2>5, <3>1, <4>1
    <3>3. CASE k >= q + 1
      <4>1. a * k >= a * (q + 1) BY <1>2, <2>1, <3>3
      <4> QED BY <2>3, <3>1, <4>1
    <3> QED BY <2>1, <3>2, <3>3
  <2> QED BY <1>2, <2>2, <2>3, <2>4, <2>5 DEF Multiple
<1> QED BY <1>1, <1>2 DEF Multiple

\* A smaller alignment skips no more.
LEMMA AlignsNest ==
  ASSUME Layout, NEW x \in Nat, NEW a \in Aligns, NEW b \in Aligns, a <= b
  PROVE  /\ a \in Nat /\ b \in Nat /\ slow_align(x, a) <= slow_align(x, b)
<1>1. a \in Nat /\ b \in Nat BY DEF Layout, Aligns
<1>2. CASE a <= 1
  BY <1>1, <1>2, NextMultiple
<1>3. CASE a > 1
  <2> DEFINE y == slow_align(x, b)
  <2>0. a \in Nat \ {0} /\ b \in Nat \ {0} /\ b > 1 BY <1>1, <1>3
  <2>y. y \in Nat /\ x <= y /\ Multiple(y, b) BY <1>1, NextMultiple
  <2> HIDE DEF y
  <2>1. y \in Nat /\ x <= y /\ y % b = 0 BY <2>0, <2>y DEF Multiple
  <2>2. b % a = 0 BY <1>1, <1>3 DEF Layout, Aligns
  <2>3. PICK m \in Nat : y = b * m BY <2>0, <2>1, Divides
  <2>4. PICK n \in Nat : b = a * n BY <2>0, <2>2, Divides
  <2>5. y = a * (n * m) /\ n * m \in Nat BY <1>1, <2>3, <2>4
  <2>6. y % a = 0 BY <2>0, <2>1, <2>5, Divides
  <2>7. slow_align(x, a) <= y BY <1>1, <2>1, <2>6, NextMultiple DEF Multiple
  <2> QED BY <1>1, <2>7 DEF y
<1> QED BY <1>1, <1>2, <1>3

LEMMA DataPlace ==
  ASSUME Layout, NEW h \in Headers
  PROVE  /\ Data(h) \in Nat /\ h.addr + HeaderSize <= Data(h)
         /\ After(h) \in Nat /\ Data(h) <= After(h)
         /\ h.addr \in Nat /\ h.size \in Nat /\ h.align \in Nat
<1>0. Aligns \subseteq Nat BY DEF Aligns, Layout
<1>1. h.addr \in Nat /\ h.size \in Nat /\ h.align \in Nat BY <1>0 DEF Headers
<1>2. h.addr + HeaderSize \in Nat BY <1>1 DEF Layout
<1>3. Data(h) \in Nat /\ h.addr + HeaderSize <= Data(h) BY <1>1, <1>2, NextMultiple DEF Data
<1> QED BY <1>1, <1>3 DEF After
-----------------------------------------------------------------------------
(* The order of the headers *)

LEMMA Elements ==
  ASSUME NEW hs, Whole(hs)
  PROVE  /\ Len(hs) \in Nat /\ DOMAIN hs = 1 .. Len(hs) /\ hs \in Seq(Headers)
         /\ \A i \in 1 .. Len(hs) : hs[i] \in Headers
BY LenProperties, ElementOfSeq DEF Whole

\* A header lies behind the data of all before it.
LEMMA InOrder ==
  ASSUME Layout, NEW hs, Whole(hs), NEW j \in 1 .. Len(hs), NEW k \in 1 .. Len(hs), j < k
  PROVE  After(hs[j]) <= hs[k].addr
<1> DEFINE Bad == {m \in Nat : j < m /\ m <= Len(hs) /\ ~ (After(hs[j]) <= hs[m].addr)}
<1>1. Len(hs) \in Nat BY Elements
<1>2. SUFFICES ASSUME Bad # {}
               PROVE  FALSE
  BY <1>1
<1>3. PICK m \in Bad : \A n \in Bad : m <= n
  <2> Bad \in SUBSET Nat OBVIOUS
  <2> HIDE DEF Bad
  <2> QED BY <1>2, SmallestExists
<1>4. PICK n \in 1 .. Len(hs) - 1 : m = n + 1 /\ j <= n
  <2> m - 1 \in 1 .. Len(hs) - 1 BY <1>1, <1>3
  <2> QED BY <1>1, <1>3
<1>5. hs[m].addr = After(hs[n]) BY <1>4 DEF Whole
<1>6. n # j BY <1>3, <1>5, Elements, DataPlace
<1>7. After(hs[j]) <= hs[n].addr
  <2>1. n \in Nat /\ j < n /\ n <= Len(hs) /\ ~ (m <= n) BY <1>1, <1>3, <1>4, <1>6
  <2>2. n \notin Bad BY <1>3, <2>1
  <2> QED BY <2>1, <2>2
<1>8. hs[n] \in Headers /\ hs[j] \in Headers BY <1>1, <1>4, Elements
<1>9. /\ hs[n].addr \in Nat /\ hs[n].addr + HeaderSize <= Data(hs[n])
      /\ Data(hs[n]) <= After(hs[n]) /\ After(hs[n]) \in Nat /\ After(hs[j]) \in Nat
      /\ Data(hs[n]) \in Nat /\ HeaderSize \in Nat
  BY <1>8, DataPlace DEF Layout
<1> QED BY <1>3, <1>5, <1>7, <1>9

\* So their data lie apart, and no two begin at one place.
LEMMA DataApart ==
  ASSUME Layout, NEW hs, Whole(hs), NEW j \in 1 .. Len(hs), NEW k \in 1 .. Len(hs), j < k
  PROVE  /\ hs[j].addr < hs[k].addr /\ After(hs[j]) < Data(hs[k]) /\ Data(hs[j]) < Data(hs[k])
<1>1. hs[j] \in Headers /\ hs[k] \in Headers BY Elements
<1>2. After(hs[j]) <= hs[k].addr BY InOrder
<1>3. HeaderSize \in Nat \ {0} BY DEF Layout
<1> QED BY <1>1, <1>2, <1>3, DataPlace

\* No free header is one in use.
Used(hs) == {h \in Range(hs) : ~h.free}

LEMMA UsedPlace ==
  ASSUME NEW hs, Whole(hs), NEW h
  PROVE  h \in Used(hs) <=> \E i \in 1 .. Len(hs) : hs[i] = h /\ ~hs[i].free
BY Elements DEF Used, Range

LEMMA UsedApart ==
  ASSUME Layout, NEW hs, Whole(hs), NEW h \in Used(hs), NEW g \in Used(hs), h # g
  PROVE  /\ After(h) < Data(g) \/ After(g) < Data(h)
         /\ Data(h) # Data(g) /\ h \in Headers /\ g \in Headers
<1>1. PICK j \in 1 .. Len(hs) : hs[j] = h BY UsedPlace
<1>2. PICK k \in 1 .. Len(hs) : hs[k] = g BY UsedPlace
<1>3. h \in Headers /\ g \in Headers BY <1>1, <1>2, Elements
<1>4. Data(h) \in Nat /\ Data(g) \in Nat BY <1>3, DataPlace
<1>5. Len(hs) \in Nat BY Elements
<1>6. CASE j < k BY <1>1, <1>2, <1>3, <1>4, <1>6, DataApart
<1>7. CASE k < j BY <1>1, <1>2, <1>3, <1>4, <1>7, DataApart
<1>8. j # k BY <1>1, <1>2
<1> QED BY <1>5, <1>6, <1>7, <1>8
-----------------------------------------------------------------------------
(* The search *)

\* Where the data of header i would begin if it had no alignment; one past the list,
\* that of the header that is appended.
Place(hs, i) == (IF i <= Len(hs) THEN hs[i].addr ELSE After(hs[Len(hs)])) + HeaderSize

IsNextAddr(f, hs) ==
  f = [i \in 1 .. Len(hs) + 1 |->
        IF i = 1 THEN HeaderSize
        ELSE slow_align(f[i - 1], hs[i - 1].align) + hs[i - 1].size + HeaderSize]

\* What is added up on the way from a header to the next.
LEMMA PlaceNext ==
  ASSUME Layout, NEW hs, Whole(hs), NEW i \in 1 .. Len(hs)
  PROVE  Place(hs, i + 1) = slow_align(Place(hs, i), hs[i].align) + hs[i].size + HeaderSize
<1>1. Len(hs) \in Nat /\ hs[i] \in Headers BY Elements
<1>2. Place(hs, i + 1) = After(hs[i]) + HeaderSize
  <2>1. CASE i = Len(hs)
    <3>1. ~ (i + 1 <= Len(hs)) BY <1>1, <2>1
    <3> QED BY <2>1, <3>1 DEF Place
  <2>2. CASE i < Len(hs)
    <3>1. i \in 1 .. Len(hs) - 1 /\ i + 1 <= Len(hs) BY <1>1, <2>2
    <3>2. hs[i + 1].addr = After(hs[i]) BY <3>1 DEF Whole
    <3> QED BY <3>1, <3>2 DEF Place
  <2> QED BY <1>1, <2>1, <2>2
<1>3. Place(hs, i) = hs[i].addr + HeaderSize BY <1>1 DEF Place
<1> QED BY <1>2, <1>3 DEF After, Data

LEMMA NextAddrDefined ==
  ASSUME Layout, NEW hs, Whole(hs)
  PROVE  IsNextAddr([i \in 1 .. Len(hs) + 1 |-> Place(hs, i)], hs)
<1> DEFINE f == [i \in 1 .. Len(hs) + 1 |-> Place(hs, i)]
<1>1. Len(hs) \in Nat \ {0} BY Elements DEF Whole
<1>2. SUFFICES ASSUME NEW i \in 1 .. Len(hs) + 1
               PROVE  f[i] = IF i = 1 THEN HeaderSize
                        ELSE slow_align(f[i - 1], hs[i - 1].align) + hs[i - 1].size + HeaderSize
  BY DEF IsNextAddr
<1>3. CASE i = 1
  <2>1. Place(hs, 1) = HeaderSize
    BY <1>1 DEF Place, Whole, Header, Layout
  <2> QED BY <1>1, <1>3, <2>1
<1>4. CASE i # 1
  <2>1. PICK j \in 1 .. Len(hs) : i = j + 1
    <3> i - 1 \in 1 .. Len(hs) BY <1>1, <1>4
    <3> QED BY <1>1
  <2>2. f[i] = Place(hs, j + 1) /\ f[j] = Place(hs, j) /\ i - 1 = j BY <1>1, <2>1
  <2> HIDE DEF f
  <2> QED BY <1>4, <2>1, <2>2, PlaceNext
<1> QED BY <1>3, <1>4

\* The sum that the search keeps is the place of the header it looks at.
LEMMA SearchPlace ==
  ASSUME Layout, NEW hs, Whole(hs), NEW i \in 1 .. Len(hs) + 1
  PROVE  NextAddr(hs)[i] = Place(hs, i)
<1> DEFINE f == CHOOSE g : IsNextAddr(g, hs)
           Bad == {m \in Nat : m \in 1 .. Len(hs) + 1 /\ f[m] # Place(hs, m)}
<1>1. Len(hs) \in Nat \ {0} BY Elements DEF Whole
<1>2. IsNextAddr(f, hs) BY NextAddrDefined
<1>3. NextAddr(hs) = f BY DEF NextAddr, IsNextAddr
<1> HIDE DEF f
<1>4. SUFFICES ASSUME Bad # {}
               PROVE  FALSE
  BY <1>1, <1>3
<1>5. PICK m \in Bad : \A n \in Bad : m <= n
  <2> Bad \in SUBSET Nat OBVIOUS
  <2> HIDE DEF Bad
  <2> QED BY <1>4, SmallestExists
<1>6. m # 1
  <2>1. f[1] = HeaderSize BY <1>1, <1>2 DEF IsNextAddr
  <2>2. Place(hs, 1) = HeaderSize
    BY <1>1 DEF Place, Whole, Header, Layout
  <2> QED BY <1>5, <2>1, <2>2
<1>7. PICK n \in 1 .. Len(hs) : m = n + 1
  <2> m - 1 \in 1 .. Len(hs) BY <1>1, <1>5, <1>6
  <2> QED BY <1>1, <1>5
<1>8. f[n] = Place(hs, n)
  <2>1. n \in Nat /\ n \in 1 .. Len(hs) + 1 /\ ~ (m <= n) BY <1>1, <1>7
  <2>2. n \notin Bad BY <1>5, <2>1
  <2> QED BY <2>1, <2>2
<1>9. f[m] = slow_align(f[n], hs[n].align) + hs[n].size + HeaderSize
  <2>1. m \in 1 .. Len(hs) + 1 /\ m - 1 = n BY <1>1, <1>7
  <2> QED BY <1>2, <1>6, <2>1 DEF IsNextAddr
<1> QED BY <1>5, <1>7, <1>8, <1>9, PlaceNext
-----------------------------------------------------------------------------
(* Every change of the list puts new headers in the place of some that follow each other *)

Splice(hs, i, n, new) == SubSeq(hs, 1, i - 1) \o new \o SubSeq(hs, n, Len(hs))

LEMMA SpliceElements ==
  ASSUME NEW S, NEW hs \in Seq(S), NEW new \in Seq(S),
         NEW i \in 1 .. Len(hs) + 1, NEW n \in i .. Len(hs) + 1
  PROVE  /\ Splice(hs, i, n, new) \in Seq(S)
         /\ Len(Splice(hs, i, n, new)) = i - 1 + Len(new) + (Len(hs) - n + 1)
         /\ \A k \in 1 .. i - 1 : Splice(hs, i, n, new)[k] = hs[k]
         /\ \A k \in 1 .. Len(new) : Splice(hs, i, n, new)[i - 1 + k] = new[k]
         /\ \A k \in n .. Len(hs) : Splice(hs, i, n, new)[i - 1 + Len(new) + (k - n + 1)] = hs[k]
<1> DEFINE a == SubSeq(hs, 1, i - 1)
           c == SubSeq(hs, n, Len(hs))
<1>1. Len(hs) \in Nat /\ Len(new) \in Nat BY LenProperties
<1>2. \A k \in 1 .. Len(hs) : hs[k] \in S BY ElementOfSeq
<1>3. /\ a \in Seq(S) /\ Len(a) = i - 1
      /\ \A k \in 1 .. i - 1 : a[k] = hs[k]
  <2>1. \A k \in 1 .. i - 1 : hs[k] \in S BY <1>1, <1>2
  <2>2. i - 1 \in Nat BY <1>1
  <2>3. /\ a \in Seq(S) /\ Len(a) = IF 1 <= i - 1 THEN (i - 1) - 1 + 1 ELSE 0
        /\ \A k \in 1 .. (i - 1) - 1 + 1 : a[k] = hs[1 + k - 1]
    BY <2>1, <2>2, SubSeqProperties
  <2> HIDE DEF a
  <2> QED BY <2>2, <2>3
<1>4. /\ c \in Seq(S) /\ Len(c) = Len(hs) - n + 1
      /\ \A k \in 1 .. Len(hs) - n + 1 : c[k] = hs[n + k - 1]
  <2>1. \A k \in n .. Len(hs) : hs[k] \in S BY <1>1, <1>2
  <2>2. n \in Nat BY <1>1
  <2>3. /\ c \in Seq(S) /\ Len(c) = IF n <= Len(hs) THEN Len(hs) - n + 1 ELSE 0
        /\ \A k \in 1 .. Len(hs) - n + 1 : c[k] = hs[n + k - 1]
    BY <1>1, <2>1, <2>2, SubSeqProperties
  <2> HIDE DEF c
  <2> QED BY <1>1, <2>2, <2>3
<1> HIDE DEF a, c
<1> DEFINE ab == a \o new
<1>5. /\ ab \in Seq(S) /\ Len(ab) = i - 1 + Len(new)
      /\ \A k \in 1 .. i - 1 + Len(new) : ab[k] = IF k <= i - 1 THEN a[k] ELSE new[k - (i - 1)]
  <2>1. /\ ab \in Seq(S) /\ Len(ab) = Len(a) + Len(new)
        /\ \A k \in 1 .. Len(a) + Len(new) : ab[k] = IF k <= Len(a) THEN a[k] ELSE new[k - Len(a)]
    BY <1>3, ConcatProperties, Zenon
  <2> HIDE DEF ab
  <2> QED BY <1>3, <2>1
<1> HIDE DEF ab
<1> DEFINE gs == ab \o c
<1>6. /\ gs \in Seq(S) /\ Len(gs) = i - 1 + Len(new) + (Len(hs) - n + 1)
      /\ \A k \in 1 .. Len(gs) :
           gs[k] = IF k <= i - 1 + Len(new) THEN ab[k] ELSE c[k - (i - 1 + Len(new))]
  <2>1. /\ gs \in Seq(S) /\ Len(gs) = Len(ab) + Len(c)
        /\ \A k \in 1 .. Len(ab) + Len(c) : gs[k] = IF k <= Len(ab) THEN ab[k] ELSE c[k - Len(ab)]
    BY <1>4, <1>5, ConcatProperties, Zenon
  <2> HIDE DEF gs
  <2> QED BY <1>4, <1>5, <2>1
<1>7. Splice(hs, i, n, new) = gs BY DEF Splice, ab, a, c
<1> HIDE DEF gs
<1>8. ASSUME NEW k \in 1 .. i - 1
      PROVE  gs[k] = hs[k]
  <2>1. k \in 1 .. Len(gs) /\ k \in 1 .. i - 1 + Len(new) /\ k <= i - 1 + Len(new) /\ k <= i - 1
    BY <1>1, <1>6
  <2> QED BY <1>3, <1>5, <1>6, <2>1
<1>9. ASSUME NEW k \in 1 .. Len(new)
      PROVE  gs[i - 1 + k] = new[k]
  <2>1. /\ i - 1 + k \in 1 .. Len(gs) /\ i - 1 + k <= i - 1 + Len(new)
        /\ i - 1 + k \in 1 .. i - 1 + Len(new) /\ ~ (i - 1 + k <= i - 1)
        /\ i - 1 + k - (i - 1) = k
    BY <1>1, <1>6
  <2> QED BY <1>5, <1>6, <2>1
<1>10. ASSUME NEW k \in n .. Len(hs)
       PROVE  gs[i - 1 + Len(new) + (k - n + 1)] = hs[k]
  <2> DEFINE m == i - 1 + Len(new) + (k - n + 1)
  <2>1. /\ m \in 1 .. Len(gs) /\ ~ (m <= i - 1 + Len(new)) /\ m - (i - 1 + Len(new)) = k - n + 1
        /\ k - n + 1 \in 1 .. Len(hs) - n + 1 /\ n + (k - n + 1) - 1 = k
    BY <1>1, <1>6
  <2> HIDE DEF m
  <2> QED BY <1>4, <1>6, <2>1 DEF m
<1> QED BY <1>6, <1>7, <1>8, <1>9, <1>10

\* The new headers leave no gap: they begin where those before end, and end where those
\* after begin.  The first header of the list stays.
Joins(hs, i, n, new) ==
  /\ i \in 2 .. Len(hs) + 1 /\ n \in i .. Len(hs) + 1 /\ new \in Seq(Headers)
  /\ Len(new) > 0 => new[1].addr = After(hs[i - 1])
  /\ \A k \in 1 .. Len(new) - 1 : new[k + 1].addr = After(new[k])
  /\ n <= Len(hs) => Len(new) > 0 /\ After(new[Len(new)]) = hs[n].addr

LEMMA Spliced ==
  ASSUME NEW hs, Whole(hs), NEW i, NEW n, NEW new, Joins(hs, i, n, new)
  PROVE  LET gs == Splice(hs, i, n, new) IN
         /\ gs \in Seq(Headers) /\ Len(gs) = i - 1 + Len(new) + (Len(hs) - n + 1)
         /\ \A k \in 1 .. i - 1 : gs[k] = hs[k]
         /\ \A k \in 1 .. Len(new) : gs[i - 1 + k] = new[k]
         /\ \A k \in n .. Len(hs) : gs[i - 1 + Len(new) + (k - n + 1)] = hs[k]
         /\ Len(hs) \in Nat \ {0} /\ Len(new) \in Nat /\ i \in Nat /\ n \in Nat
<1>1. hs \in Seq(Headers) /\ Len(hs) \in Nat \ {0} BY Elements DEF Whole
<1>2. new \in Seq(Headers) /\ i \in 2 .. Len(hs) + 1 /\ n \in i .. Len(hs) + 1 BY DEF Joins
<1>3. i \in 1 .. Len(hs) + 1 /\ i \in Nat /\ n \in Nat BY <1>1, <1>2
<1>4. Len(new) \in Nat BY <1>2, LenProperties
<1> DEFINE gs == Splice(hs, i, n, new)
<1>5. gs \in Seq(Headers) BY <1>1, <1>2, <1>3, SpliceElements
<1>6. Len(gs) = i - 1 + Len(new) + (Len(hs) - n + 1) BY <1>1, <1>2, <1>3, SpliceElements
<1>7. \A k \in 1 .. i - 1 : gs[k] = hs[k] BY <1>1, <1>2, <1>3, SpliceElements
<1>8. \A k \in 1 .. Len(new) : gs[i - 1 + k] = new[k] BY <1>1, <1>2, <1>3, SpliceElements
<1>9. \A k \in n .. Len(hs) : gs[i - 1 + Len(new) + (k - n + 1)] = hs[k]
  BY <1>1, <1>2, <1>3, SpliceElements
<1> HIDE DEF gs
<1>10. gs = Splice(hs, i, n, new) BY DEF gs
<1> QED BY <1>1, <1>3, <1>4, <1>5, <1>6, <1>7, <1>8, <1>9, <1>10, Zenon

LEMMA SpliceWhole ==
  ASSUME NEW hs, Whole(hs), NEW i, NEW n, NEW new, Joins(hs, i, n, new)
  PROVE  Whole(Splice(hs, i, n, new))
<1> DEFINE gs == Splice(hs, i, n, new)
           m == Len(new)
<1>1. /\ gs \in Seq(Headers) /\ Len(gs) = i - 1 + m + (Len(hs) - n + 1)
      /\ \A k \in 1 .. i - 1 : gs[k] = hs[k]
      /\ \A k \in 1 .. m : gs[i - 1 + k] = new[k]
      /\ \A k \in n .. Len(hs) : gs[i - 1 + m + (k - n + 1)] = hs[k]
      /\ Len(hs) \in Nat \ {0} /\ m \in Nat /\ i \in Nat /\ n \in Nat
  BY Spliced, Zenon
<1>2. /\ i \in 2 .. Len(hs) + 1 /\ n \in i .. Len(hs) + 1
      /\ m > 0 => new[1].addr = After(hs[i - 1])
      /\ \A k \in 1 .. m - 1 : new[k + 1].addr = After(new[k])
      /\ n <= Len(hs) => m > 0 /\ After(new[m]) = hs[n].addr
  BY DEF Joins
<1> HIDE DEF gs, m
<1>3. Len(gs) > 0 /\ gs[1] = Header(0, TRUE, 0, 0)
  <2>1. 1 \in 1 .. i - 1 /\ Len(gs) > 0 BY <1>1, <1>2
  <2>2. gs[1] = hs[1] BY <1>1, <2>1
  <2> QED BY <2>1, <2>2 DEF Whole
<1>4. \A k \in 1 .. Len(hs) - 1 : hs[k + 1].addr = After(hs[k]) BY DEF Whole
<1>5. ASSUME NEW k \in 1 .. Len(gs) - 1
      PROVE  gs[k + 1].addr = After(gs[k])
  <2>1. CASE k \in 1 .. i - 2
    <3>1. k \in 1 .. i - 1 /\ k + 1 \in 1 .. i - 1 /\ k \in 1 .. Len(hs) - 1 BY <1>1, <1>2, <2>1
    <3>2. gs[k] = hs[k] /\ gs[k + 1] = hs[k + 1] BY <1>1, <3>1
    <3> QED BY <1>4, <3>1, <3>2
  <2>2. CASE k = i - 1
    <3>1. m > 0 BY <1>1, <1>2, <2>2
    <3>2. k \in 1 .. i - 1 /\ 1 \in 1 .. m /\ k + 1 = i - 1 + 1 BY <1>1, <1>2, <2>2, <3>1
    <3>3. gs[k] = hs[i - 1] /\ gs[k + 1] = new[1] BY <1>1, <2>2, <3>2
    <3> QED BY <1>2, <3>1, <3>3
  <2>3. CASE k \in i .. i - 1 + m - 1
    <3>1. PICK j \in 1 .. m - 1 : k = i - 1 + j
      <4>1. k - (i - 1) \in 1 .. m - 1 BY <1>1, <2>3
      <4> QED BY <1>1, <4>1
    <3>2. j \in 1 .. m /\ j + 1 \in 1 .. m /\ k + 1 = i - 1 + (j + 1) BY <1>1, <3>1
    <3>3. gs[k] = new[j] /\ gs[k + 1] = new[j + 1] BY <1>1, <3>1, <3>2
    <3> QED BY <1>2, <3>1, <3>3
  <2>4. CASE k = i - 1 + m /\ m > 0
    <3>1. n <= Len(hs) /\ m \in 1 .. m /\ n \in n .. Len(hs) BY <1>1, <1>2, <2>4
    <3>2. k + 1 = i - 1 + m + (n - n + 1) BY <1>1, <2>4
    <3>3. gs[k] = new[m] /\ gs[k + 1] = hs[n] BY <1>1, <2>4, <3>1, <3>2
    <3> QED BY <1>2, <3>1, <3>3
  <2>5. CASE k >= i + m
    <3>1. PICK j \in n .. Len(hs) - 1 : k = i - 1 + m + (j - n + 1)
      <4>1. k - (i - 1 + m) - 1 + n \in n .. Len(hs) - 1 BY <1>1, <2>5
      <4> QED BY <1>1, <4>1
    <3>2. /\ j \in n .. Len(hs) /\ j + 1 \in n .. Len(hs) /\ j \in 1 .. Len(hs) - 1
          /\ k + 1 = i - 1 + m + (j + 1 - n + 1)
      BY <1>1, <1>2, <3>1
    <3>3. gs[k] = hs[j] /\ gs[k + 1] = hs[j + 1] BY <1>1, <3>1, <3>2
    <3> QED BY <1>4, <3>2, <3>3
  <2>6. m \in Nat /\ i \in Nat /\ k \in Nat /\ k >= 1 BY <1>1
  <2>7. \/ k \in 1 .. i - 2 \/ k = i - 1 \/ k \in i .. i - 1 + m - 1
        \/ (k = i - 1 + m /\ m > 0) \/ k >= i + m
    BY <2>6
  <2> QED BY <2>1, <2>2, <2>3, <2>4, <2>5, <2>7
<1> QED BY <1>1, <1>3, <1>5 DEF Whole, gs

\* The headers in use are those outside the part that went, and the new ones.
LEMMA SpliceUsed ==
  ASSUME NEW hs, Whole(hs), NEW i, NEW n, NEW new, Joins(hs, i, n, new), NEW h
  PROVE  h \in Used(Splice(hs, i, n, new)) <=>
           \/ \E k \in (1 .. i - 1) \cup (n .. Len(hs)) : hs[k] = h /\ ~hs[k].free
           \/ \E k \in 1 .. Len(new) : new[k] = h /\ ~new[k].free
<1> DEFINE gs == Splice(hs, i, n, new)
           m == Len(new)
<1>1. /\ gs \in Seq(Headers) /\ Len(gs) = i - 1 + m + (Len(hs) - n + 1)
      /\ \A k \in 1 .. i - 1 : gs[k] = hs[k]
      /\ \A k \in 1 .. m : gs[i - 1 + k] = new[k]
      /\ \A k \in n .. Len(hs) : gs[i - 1 + m + (k - n + 1)] = hs[k]
      /\ Len(hs) \in Nat \ {0} /\ m \in Nat /\ i \in Nat /\ n \in Nat
  BY Spliced, Zenon
<1>2. i \in 2 .. Len(hs) + 1 /\ n \in i .. Len(hs) + 1 BY DEF Joins
<1>3. h \in Used(gs) <=> \E k \in 1 .. Len(gs) : gs[k] = h /\ ~gs[k].free
  BY SpliceWhole, UsedPlace
<1> HIDE DEF gs, m
<1>4. ASSUME NEW k \in 1 .. Len(gs)
      PROVE  \/ \E j \in (1 .. i - 1) \cup (n .. Len(hs)) : gs[k] = hs[j]
             \/ \E j \in 1 .. m : gs[k] = new[j]
  <2>1. CASE k \in 1 .. i - 1 BY <1>1, <2>1
  <2>2. CASE k \in i .. i - 1 + m
    <3>1. k - (i - 1) \in 1 .. m /\ k = i - 1 + (k - (i - 1)) BY <1>1, <2>2
    <3> QED BY <1>1, <3>1
  <2>3. CASE k >= i + m
    <3> DEFINE j == k - (i - 1 + m) - 1 + n
    <3>1. j \in n .. Len(hs) /\ k = i - 1 + m + (j - n + 1) BY <1>1, <2>3
    <3> HIDE DEF j
    <3>2. gs[k] = hs[j] BY <1>1, <3>1
    <3> QED BY <3>1, <3>2
  <2> QED BY <1>1, <2>1, <2>2, <2>3
<1>5. ASSUME NEW j \in (1 .. i - 1) \cup (n .. Len(hs))
      PROVE  \E k \in 1 .. Len(gs) : gs[k] = hs[j]
  <2>1. CASE j \in 1 .. i - 1
    <3>1. j \in 1 .. Len(gs) BY <1>1, <1>2, <2>1
    <3> QED BY <1>1, <2>1, <3>1
  <2>2. CASE j \in n .. Len(hs)
    <3>1. i - 1 + m + (j - n + 1) \in 1 .. Len(gs) BY <1>1, <1>2, <2>2
    <3> QED BY <1>1, <2>2, <3>1
  <2> QED BY <2>1, <2>2
<1>6. ASSUME NEW j \in 1 .. m
      PROVE  \E k \in 1 .. Len(gs) : gs[k] = new[j]
  <2>1. i - 1 + j \in 1 .. Len(gs) BY <1>1, <1>2
  <2> QED BY <1>1, <2>1
<1>7. h \in Used(gs) <=>
        \/ \E k \in (1 .. i - 1) \cup (n .. Len(hs)) : hs[k] = h /\ ~hs[k].free
        \/ \E k \in 1 .. m : new[k] = h /\ ~new[k].free
  BY <1>3, <1>4, <1>5, <1>6
<1> QED BY <1>7 DEF gs, m

\* Where the list ends.
Till(hs) == After(hs[Len(hs)])

LEMMA SpliceTill ==
  ASSUME NEW hs, Whole(hs), NEW i, NEW n, NEW new, Joins(hs, i, n, new)
  PROVE  Till(Splice(hs, i, n, new)) =
           IF n <= Len(hs) THEN Till(hs)
           ELSE IF Len(new) > 0 THEN After(new[Len(new)])
           ELSE After(hs[i - 1])
<1> DEFINE gs == Splice(hs, i, n, new)
           m == Len(new)
<1>1. /\ gs \in Seq(Headers) /\ Len(gs) = i - 1 + m + (Len(hs) - n + 1)
      /\ \A k \in 1 .. i - 1 : gs[k] = hs[k]
      /\ \A k \in 1 .. m : gs[i - 1 + k] = new[k]
      /\ \A k \in n .. Len(hs) : gs[i - 1 + m + (k - n + 1)] = hs[k]
      /\ Len(hs) \in Nat \ {0} /\ m \in Nat /\ i \in Nat /\ n \in Nat
  BY Spliced, Zenon
<1>2. i \in 2 .. Len(hs) + 1 /\ n \in i .. Len(hs) + 1 BY DEF Joins
<1> HIDE DEF gs, m
<1>3. gs[Len(gs)] = IF n <= Len(hs) THEN hs[Len(hs)] ELSE IF m > 0 THEN new[m] ELSE hs[i - 1]
  <2>1. CASE n <= Len(hs)
    <3>1. Len(hs) \in n .. Len(hs) /\ Len(gs) = i - 1 + m + (Len(hs) - n + 1) BY <1>1, <1>2, <2>1
    <3> QED BY <1>1, <2>1, <3>1
  <2>2. CASE ~ (n <= Len(hs)) /\ m > 0
    <3>1. m \in 1 .. m /\ Len(gs) = i - 1 + m BY <1>1, <1>2, <2>2
    <3> QED BY <1>1, <2>2, <3>1
  <2>3. CASE ~ (n <= Len(hs)) /\ m = 0
    <3>1. i - 1 \in 1 .. i - 1 /\ Len(gs) = i - 1 BY <1>1, <1>2, <2>3
    <3> QED BY <1>1, <2>3, <3>1
  <2> QED BY <1>1, <2>1, <2>2, <2>3
<1> QED BY <1>3 DEF Till, gs, m
-----------------------------------------------------------------------------
(* Taking a free header *)

LEMMA OneHeader ==
  ASSUME NEW h \in Headers
  PROVE  <<h>> \in Seq(Headers) /\ Len(<<h>>) = 1 /\ <<h>>[1] = h
OBVIOUS

LEMMA TwoHeaders ==
  ASSUME NEW h \in Headers, NEW g \in Headers
  PROVE  <<h, g>> \in Seq(Headers) /\ Len(<<h, g>>) = 2 /\ <<h, g>>[1] = h /\ <<h, g>>[2] = g
OBVIOUS

LEMMA SameParts ==
  ASSUME NEW S, NEW s, NEW t, NEW a \in Int, NEW b \in Int, NEW c \in Int, NEW d \in Int,
         d - c = b - a, \A k \in a .. b : t[k] \in S /\ s[c + (k - a)] = t[k]
  PROVE  SubSeq(s, c, d) = SubSeq(t, a, b)
<1>1. \A k \in c .. d : s[k] \in S
  <2> SUFFICES ASSUME NEW k \in c .. d
               PROVE  s[k] \in S
    OBVIOUS
  <2>1. a + (k - c) \in a .. b /\ k = c + ((a + (k - c)) - a) OBVIOUS
  <2>2. s[c + ((a + (k - c)) - a)] \in S BY <2>1
  <2> QED BY <2>1, <2>2
<1>2. \A k \in a .. b : t[k] \in S OBVIOUS
<1>3. SubSeq(s, c, d) \in Seq(S) BY <1>1, SubSeqProperties
<1>4. Len(SubSeq(s, c, d)) = IF c <= d THEN d - c + 1 ELSE 0 BY <1>1, SubSeqProperties
<1>5. \A k \in 1 .. d - c + 1 : SubSeq(s, c, d)[k] = s[c + k - 1] BY <1>1, SubSeqProperties
<1>6. SubSeq(t, a, b) \in Seq(S) BY <1>2, SubSeqProperties
<1>7. Len(SubSeq(t, a, b)) = IF a <= b THEN b - a + 1 ELSE 0 BY <1>2, SubSeqProperties
<1>8. \A k \in 1 .. b - a + 1 : SubSeq(t, a, b)[k] = t[a + k - 1] BY <1>2, SubSeqProperties
<1> DEFINE u == SubSeq(s, c, d)
           v == SubSeq(t, a, b)
<1> HIDE DEF u, v
<1>9. u \in Seq(S) /\ v \in Seq(S) BY <1>3, <1>6 DEF u, v
<1>10. Len(u) = (IF c <= d THEN d - c + 1 ELSE 0) BY <1>4 DEF u
<1>11. Len(v) = (IF a <= b THEN b - a + 1 ELSE 0) BY <1>7 DEF v
<1>12. \A k \in 1 .. d - c + 1 : u[k] = s[c + k - 1] BY <1>5 DEF u
<1>13. \A k \in 1 .. b - a + 1 : v[k] = t[a + k - 1] BY <1>8 DEF v
<1>14. Len(u) = Len(v) BY <1>10, <1>11
<1>15. ASSUME NEW k \in 1 .. Len(u)
       PROVE  u[k] = v[k]
  <2>1. k \in 1 .. d - c + 1 /\ k \in 1 .. b - a + 1 BY <1>10
  <2>2. a + k - 1 \in a .. b /\ c + k - 1 = c + ((a + k - 1) - a) BY <2>1
  <2>3. s[c + ((a + k - 1) - a)] = t[a + k - 1] BY <2>2
  <2> QED BY <1>12, <1>13, <2>1, <2>2, <2>3
<1>16. u = v BY <1>9, <1>14, <1>15, SeqEqual
<1> QED BY <1>16 DEF u, v

\* A change of header i alone does not show outside the part that holds it.
LEMMA SpliceChanged ==
  ASSUME NEW hs \in Seq(Headers), NEW gs \in Seq(Headers), Len(gs) = Len(hs),
         NEW i \in 1 .. Len(hs), \A k \in 1 .. Len(hs) : k # i => gs[k] = hs[k],
         NEW n \in i + 1 .. Len(hs) + 1, NEW new \in Seq(Headers)
  PROVE  Splice(gs, i, n, new) = Splice(hs, i, n, new)
<1>1. Len(hs) \in Nat /\ \A k \in 1 .. Len(hs) : hs[k] \in Headers
  BY LenProperties, ElementOfSeq
<1>2. SubSeq(gs, 1, i - 1) = SubSeq(hs, 1, i - 1)
  <2>1. \A k \in 1 .. i - 1 : hs[k] \in Headers /\ gs[1 + (k - 1)] = hs[k] BY <1>1
  <2>2. 1 \in Int /\ i - 1 \in Int BY <1>1
  <2> QED BY <2>1, <2>2, SameParts
<1>3. SubSeq(gs, n, Len(gs)) = SubSeq(hs, n, Len(hs))
  <2>1. \A k \in n .. Len(hs) : hs[k] \in Headers /\ gs[n + (k - n)] = hs[k] BY <1>1
  <2>2. n \in Int /\ Len(hs) \in Int /\ Len(gs) = Len(hs) BY <1>1
  <2> QED BY <2>1, <2>2, SameParts
<1> QED BY <1>2, <1>3 DEF Splice

\* group_free is a splice up to header n, the next in use, or the end of the list.
Groups(hs, i, at, n, h) ==
  /\ \A j \in i + 1 .. n - 1 : hs[j].free
  /\ h = IF n <= Len(hs) THEN [hs[i] EXCEPT !.size = hs[n].addr - at] ELSE hs[i]
  /\ group_free(hs, i, at) = Splice(hs, i, n, <<h>>)

LEMMA Grouped ==
  ASSUME NEW hs \in Seq(Headers), NEW i \in 1 .. Len(hs), NEW at \in Nat,
         \A n \in i + 1 .. Len(hs) : at <= hs[n].addr
  PROVE  \E n \in i + 1 .. Len(hs) + 1, h \in Headers : Groups(hs, i, at, n, h)
<1> DEFINE inUse == {j \in i + 1 .. Len(hs) : ~hs[j].free}
           next  == CHOOSE j \in inUse : \A k \in inUse : j <= k
<1>1. Len(hs) \in Nat /\ \A j \in 1 .. Len(hs) : hs[j] \in Headers
  BY LenProperties, ElementOfSeq
<1>2. CASE inUse = {}
  <2>1. group_free(hs, i, at) = SubSeq(hs, 1, i) BY <1>2 DEF group_free
  <2>2. SubSeq(hs, 1, i) = SubSeq(hs, 1, i - 1) \o <<hs[i]>>
    <3>1. 1 \in 1 .. Len(hs) /\ i \in 1 .. Len(hs) BY <1>1
    <3> QED BY <3>1, SubSeqRecursiveSecond
  <2>3. SubSeq(hs, Len(hs) + 1, Len(hs)) = <<>> BY <1>1, SubSeqEmpty
  <2>4. SubSeq(hs, 1, i) \in Seq(Headers)
    <3>1. i \in Int /\ 1 \in Int /\ \A j \in 1 .. i : hs[j] \in Headers BY <1>1
    <3> QED BY <3>1, SubSeqProperties
  <2>5. SubSeq(hs, 1, i) \o <<>> = SubSeq(hs, 1, i) BY <2>4, ConcatEmptySeq
  <2>6. group_free(hs, i, at) = Splice(hs, i, Len(hs) + 1, <<hs[i]>>)
    BY <2>1, <2>2, <2>3, <2>5 DEF Splice
  <2>7. Len(hs) + 1 \in i + 1 .. Len(hs) + 1 /\ hs[i] \in Headers /\ ~ (Len(hs) + 1 <= Len(hs))
    BY <1>1
  <2>8. \A j \in i + 1 .. Len(hs) + 1 - 1 : hs[j].free BY <1>1, <1>2
  <2>9. Groups(hs, i, at, Len(hs) + 1, hs[i]) BY <2>6, <2>7, <2>8 DEF Groups
  <2> QED BY <2>7, <2>9
<1>3. CASE inUse # {}
  <2>1. PICK n \in inUse : \A k \in inUse : n <= k
    <3> inUse \in SUBSET Nat BY <1>1
    <3> HIDE DEF inUse
    <3> QED BY <1>3, SmallestExists
  <2>2. next = n
    <3>1. inUse \subseteq Int BY <1>1
    <3> HIDE DEF inUse
    <3>2. next \in inUse /\ \A k \in inUse : next <= k BY <2>1
    <3> HIDE DEF next
    <3>3. next \in Int /\ n \in Int BY <3>1, <3>2
    <3>4. n <= next /\ next <= n BY <2>1, <3>2
    <3> QED BY <3>3, <3>4
  <2> DEFINE h == [hs[i] EXCEPT !.size = hs[n].addr - at]
  <2>3. group_free(hs, i, at) = Append(SubSeq(hs, 1, i - 1), h) \o SubSeq(hs, n, Len(hs))
    <3>1. group_free(hs, i, at)
            = Append(SubSeq(hs, 1, i - 1), [hs[i] EXCEPT !.size = hs[next].addr - at])
                \o SubSeq(hs, next, Len(hs))
      BY <1>3 DEF group_free, JoinedSize
    <3> HIDE DEF next
    <3> QED BY <2>2, <3>1
  <2>4. n \in i + 1 .. Len(hs) /\ n \in i + 1 .. Len(hs) + 1 /\ n <= Len(hs) BY <1>1, <2>1
  <2>5. \A j \in i + 1 .. n - 1 : hs[j].free
    <3>1. SUFFICES ASSUME NEW j \in i + 1 .. n - 1, j \in inUse
                   PROVE  FALSE
      BY <1>1, <2>4
    <3> QED BY <1>1, <2>1, <2>4, <3>1
  <2>6. h \in Headers
    <3>1. hs[i] \in Headers /\ hs[n] \in Headers BY <1>1, <2>4
    <3>2. hs[n].addr - at \in Nat BY <2>4, <3>1 DEF Headers
    <3> QED BY <3>1, <3>2 DEF Headers
  <2> HIDE DEF h, inUse, next
  <2>7. SubSeq(hs, 1, i - 1) \in Seq(Headers)
    <3>1. i - 1 \in Int /\ 1 \in Int /\ \A j \in 1 .. i - 1 : hs[j] \in Headers BY <1>1
    <3> QED BY <3>1, SubSeqProperties
  <2>8. Append(SubSeq(hs, 1, i - 1), h) = SubSeq(hs, 1, i - 1) \o <<h>>
    BY <2>6, <2>7, AppendIsConcat
  <2>9. group_free(hs, i, at) = Splice(hs, i, n, <<h>>) BY <2>3, <2>8 DEF Splice
  <2>10. h = IF n <= Len(hs) THEN [hs[i] EXCEPT !.size = hs[n].addr - at] ELSE hs[i]
    BY <2>4 DEF h
  <2>11. Groups(hs, i, at, n, h) BY <2>5, <2>9, <2>10 DEF Groups
  <2> QED BY <2>4, <2>6, <2>11
<1> QED BY <1>2, <1>3
\* A list of which one header has changed.
LEMMA OneChanged ==
  ASSUME NEW hs \in Seq(Headers), NEW gs \in Seq(Headers), Len(gs) = Len(hs),
         NEW i \in 1 .. Len(hs), \A k \in 1 .. Len(hs) : k # i => gs[k] = hs[k]
  PROVE  gs = Splice(hs, i, i + 1, <<gs[i]>>)
<1>1. Len(hs) \in Nat /\ Len(gs) \in Nat /\ Len(gs) > 0 BY LenProperties
<1>2. SubSeq(gs, 1, Len(gs)) = gs BY SubSeqFull
<1>3. SubSeq(gs, 1, i) \o SubSeq(gs, i + 1, Len(gs)) = SubSeq(gs, 1, Len(gs))
  <2>1. /\ 1 \in 1 .. Len(gs) + 1 /\ i \in 1 - 1 .. Len(gs) /\ Len(gs) \in i .. Len(gs)
    BY <1>1
  <2> QED BY <2>1, ConcatAdjacentSubSeq
<1>4. SubSeq(gs, 1, i) = SubSeq(gs, 1, i - 1) \o <<gs[i]>>
  <2>1. 1 \in 1 .. Len(gs) /\ i \in 1 .. Len(gs) BY <1>1
  <2> QED BY <2>1, SubSeqRecursiveSecond
<1>5. gs = Splice(gs, i, i + 1, <<gs[i]>>) BY <1>2, <1>3, <1>4 DEF Splice
<1>6. gs[i] \in Headers BY ElementOfSeq
<1> DEFINE new == <<gs[i]>>
<1>7. new \in Seq(Headers) BY <1>6, OneHeader
<1>8. i + 1 \in i + 1 .. Len(hs) + 1 BY <1>1
<1> HIDE DEF new
<1>9. Splice(gs, i, i + 1, new) = Splice(hs, i, i + 1, new) BY <1>7, <1>8, SpliceChanged
<1> QED BY <1>5, <1>9 DEF new

LEMMA HeaderIs ==
  ASSUME NEW h \in Headers
  PROVE  h = Header(h.addr, h.free, h.size, h.align)
BY DEF Header, Headers

LEMMA Realigned ==
  ASSUME NEW h \in Headers, NEW align \in Aligns
  PROVE  [[h EXCEPT !.free = FALSE] EXCEPT !.align = align] = Header(h.addr, FALSE, h.size, align)
<1> DEFINE f == [h EXCEPT !.free = FALSE]
           g == [f EXCEPT !.align = align]
<1>1. f \in Headers /\ f.addr = h.addr /\ ~f.free /\ f.size = h.size BY DEF Headers
<1> HIDE DEF f
<1>2. g \in Headers /\ g.addr = f.addr /\ g.free = f.free /\ g.size = f.size /\ g.align = align
  BY <1>1 DEF Headers
<1> HIDE DEF g
<1>3. g = Header(g.addr, g.free, g.size, g.align) BY <1>2, HeaderIs
<1>4. g.free = FALSE BY <1>1, <1>2 DEF Headers
<1>5. g = Header(h.addr, FALSE, h.size, align) BY <1>1, <1>2, <1>3, <1>4
<1> QED BY <1>5 DEF f, g

\* Split leaves a header as it is, or puts another behind its data, where no alignment
\* moves that one's data.
Splits(hs, i, n, h, at, size, align) ==
  /\ slow_align(at + size + HeaderSize, align) = at + size + HeaderSize
  /\ size + HeaderSize < h.size
  /\ Split(Splice(hs, i, n, <<h>>), i, at, size)
       = Splice(hs, i, n,
           <<[h EXCEPT !.size = size], Header(at + size, TRUE, Rest(h, size), align)>>)

LEMMA SplitPart ==
  ASSUME Layout, NEW hs \in Seq(Headers), NEW i \in 1 .. Len(hs), NEW n \in i + 1 .. Len(hs) + 1,
         NEW h \in Headers, NEW at \in Nat, NEW size \in Nat, size <= h.size
  PROVE  \/ Split(Splice(hs, i, n, <<h>>), i, at, size) = Splice(hs, i, n, <<h>>)
         \/ \E align \in {0, SplitAlign} : Splits(hs, i, n, h, at, size, align)
<1> DEFINE one == <<h>>
           g == Splice(hs, i, n, one)
<1>1. Len(hs) \in Nat /\ \A k \in 1 .. Len(hs) : hs[k] \in Headers
  BY LenProperties, ElementOfSeq
<1>2. one \in Seq(Headers) /\ Len(one) = 1 /\ one[1] = h BY OneHeader
<1>3. i \in 1 .. Len(hs) + 1 /\ n \in i .. Len(hs) + 1 BY <1>1
<1>4. one \in Seq(Headers) BY <1>2
<1> HIDE DEF one
<1>5. g \in Seq(Headers) BY <1>3, <1>4, SpliceElements
<1>6. Len(g) = i - 1 + Len(one) + (Len(hs) - n + 1) BY <1>3, <1>4, SpliceElements
<1>7. \A k \in 1 .. i - 1 : g[k] = hs[k] BY <1>3, <1>4, SpliceElements
<1>8. \A k \in 1 .. Len(one) : g[i - 1 + k] = one[k] BY <1>3, <1>4, SpliceElements
<1>9. \A k \in n .. Len(hs) : g[i - 1 + Len(one) + (k - n + 1)] = hs[k]
  BY <1>3, <1>4, SpliceElements
<1> HIDE DEF g
<1>10. g[i] = h
  <2>1. 1 \in 1 .. Len(one) /\ i - 1 + 1 = i BY <1>2
  <2> QED BY <1>2, <1>8, <2>1
<1>11. SubSeq(g, 1, i - 1) = SubSeq(hs, 1, i - 1)
  <2>1. \A k \in 1 .. i - 1 : hs[k] \in Headers /\ g[1 + (k - 1)] = hs[k] BY <1>1, <1>7
  <2>2. 1 \in Int /\ i - 1 \in Int BY <1>1
  <2> QED BY <2>1, <2>2, SameParts
<1>12. SubSeq(g, i + 1, Len(g)) = SubSeq(hs, n, Len(hs))
  <2>1. \A k \in n .. Len(hs) : hs[k] \in Headers /\ g[i + 1 + (k - n)] = hs[k]
    <3> SUFFICES ASSUME NEW k \in n .. Len(hs)
                 PROVE  hs[k] \in Headers /\ g[i + 1 + (k - n)] = hs[k]
      OBVIOUS
    <3>1. i - 1 + Len(one) + (k - n + 1) = i + 1 + (k - n) BY <1>1, <1>2
    <3>2. g[i - 1 + Len(one) + (k - n + 1)] = hs[k] BY <1>9
    <3>3. k \in 1 .. Len(hs) BY <1>1
    <3> QED BY <1>1, <3>1, <3>2, <3>3
  <2>2. /\ n \in Int /\ Len(hs) \in Int /\ i + 1 \in Int /\ Len(g) \in Int
        /\ Len(g) - (i + 1) = Len(hs) - n
    BY <1>1, <1>2, <1>6
  <2> QED BY <2>1, <2>2, SameParts
<1> DEFINE align == IF (at + size + HeaderSize) % SplitAlign = 0 THEN SplitAlign ELSE 0
<1>13. align \in {0, SplitAlign} OBVIOUS
<1>14. slow_align(at + size + HeaderSize, align) = at + size + HeaderSize
  BY DEF slow_align
<1>15. h.size - size \in Nat
  BY DEF Headers
<1>16. CASE h.size - size \in 0 .. HeaderSize
  <2>1. Split(g, i, at, size) = g BY <1>10, <1>16 DEF Split
  <2> QED BY <2>1 DEF g, one
<1>17. CASE h.size - size \notin 0 .. HeaderSize
  <2>1. Split(g, i, at, size)
          = SubSeq(g, 1, i - 1)
              \o <<[h EXCEPT !.size = size], Header(at + size, TRUE, Rest(h, size), align)>>
              \o SubSeq(g, i + 1, Len(g))
    BY <1>10, <1>17 DEF Split
  <2> HIDE DEF align
  <2>2. Split(g, i, at, size)
          = Splice(hs, i, n,
              <<[h EXCEPT !.size = size], Header(at + size, TRUE, Rest(h, size), align)>>)
    BY <1>11, <1>12, <2>1 DEF Splice
  <2>3. size + HeaderSize < h.size BY <1>15, <1>17 DEF Headers, Layout
  <2>4. Splits(hs, i, n, h, at, size, align) BY <1>14, <2>2, <2>3 DEF Splits, g, one
  <2> QED BY <1>13, <2>4 DEF align
<1> QED BY <1>16, <1>17
\* What malloc needs of the new list: whole, with every header that was in use, and one that
\* was not, for the block.
Takes(hs, gs, at, size) ==
  /\ Whole(gs) /\ Used(hs) \subseteq Used(gs)
  /\ \E h \in Used(gs) \ Used(hs) : Data(h) = at /\ h.size >= size

LEMMA SpliceTakes ==
  ASSUME Layout, NEW hs, Whole(hs), NEW i, NEW n, NEW new, Joins(hs, i, n, new),
         n > i \/ i = Len(hs) + 1, \A j \in i .. n - 1 : hs[j].free,
         NEW at, NEW size, Len(new) > 0, ~new[1].free, Data(new[1]) = at, new[1].size >= size
  PROVE  Takes(hs, Splice(hs, i, n, new), at, size)
<1> DEFINE gs == Splice(hs, i, n, new)
<1>1. Whole(gs) BY SpliceWhole
<1>2. Len(hs) \in Nat /\ \A k \in 1 .. Len(hs) : hs[k] \in Headers BY Elements
<1>3. i \in 2 .. Len(hs) + 1 /\ n \in i .. Len(hs) + 1 /\ new[1].addr = After(hs[i - 1])
  BY DEF Joins
<1>4. ASSUME NEW h \in Used(hs)
      PROVE  h \in Used(gs)
  <2>1. PICK k \in 1 .. Len(hs) : hs[k] = h /\ ~hs[k].free BY UsedPlace
  <2>2. k \in (1 .. i - 1) \cup (n .. Len(hs)) BY <1>2, <1>3, <2>1
  <2> QED BY <2>1, <2>2, SpliceUsed
<1>5. new[1] \in Used(gs)
  <2>1. 1 \in 1 .. Len(new)
    <3>1. Len(new) \in Nat BY LenProperties DEF Joins
    <3> QED BY <3>1
  <2> QED BY <2>1, SpliceUsed
<1>6. new[1] \notin Used(hs)
  <2>1. SUFFICES ASSUME NEW k \in 1 .. Len(hs), hs[k] = new[1], ~hs[k].free
                 PROVE  FALSE
    BY UsedPlace
  <2>2. hs[k] \in Headers /\ i - 1 \in 1 .. Len(hs) /\ hs[i - 1] \in Headers BY <1>2, <1>3
  <2>3. hs[k].addr = After(hs[i - 1]) /\ hs[k].addr \in Nat BY <1>3, <2>1, <2>2, DataPlace
  <2>4. hs[i - 1].addr < After(hs[i - 1])
    <3>1. HeaderSize \in Nat \ {0} BY DEF Layout
    <3> QED BY <2>2, <3>1, DataPlace
  <2>5. CASE k = i - 1 BY <2>2, <2>3, <2>4, <2>5, DataPlace
  <2>6. CASE k < i - 1
    <3>1. hs[k].addr < hs[i - 1].addr BY <2>2, <2>6, DataApart
    <3>2. hs[i - 1].addr \in Nat /\ After(hs[i - 1]) \in Nat BY <2>2, DataPlace
    <3> QED BY <2>3, <2>4, <3>1, <3>2
  <2>7. CASE k >= i
    <3>1. i \in 1 .. Len(hs) /\ i - 1 \in 1 .. Len(hs) - 1 /\ i = i - 1 + 1 BY <1>2, <1>3, <2>7
    <3>2. hs[i].addr = After(hs[i - 1])
      <4>1. hs[(i - 1) + 1].addr = After(hs[i - 1]) BY <3>1 DEF Whole
      <4> QED BY <3>1, <4>1
    <3>3. k = i
      <4>1. ~ (k > i)
        <5>1. ASSUME k > i
              PROVE  hs[i].addr < hs[k].addr
          BY <3>1, <5>1, DataApart
        <5> QED BY <2>3, <3>2, <5>1
      <4> QED BY <1>3, <2>7, <4>1
    <3>4. i \in i .. n - 1 BY <1>2, <1>3, <3>1
    <3> QED BY <2>1, <3>3, <3>4
  <2> QED BY <1>3, <2>5, <2>6, <2>7
<1> HIDE DEF gs
<1>7. Takes(hs, gs, at, size) BY <1>1, <1>4, <1>5, <1>6 DEF Takes
<1> QED BY <1>7 DEF gs

\* A header that fits: after the free ones behind it have joined it, header h with the
\* request's alignment is in the place of headers i to n - 1.
Grows(hs, i, at, align, taken, n, h) ==
  /\ \A j \in i .. n - 1 : hs[j].free
  /\ h = Header(hs[i].addr, FALSE, h.size, align) /\ h.size >= hs[i].size
  /\ IF n <= Len(hs) THEN at + h.size = hs[n].addr ELSE h.size = hs[i].size
  /\ (IF i < Len(hs) THEN group_free(taken, i, at) ELSE taken) = Splice(hs, i, n, <<h>>)

Fitted(hs, i, at, align) ==
  /\ Whole(hs) /\ i \in 2 .. Len(hs) /\ hs[i].free /\ align \in Aligns
  /\ at \in Nat /\ at = slow_align(hs[i].addr + HeaderSize, align) /\ at <= Data(hs[i])

LEMMA FitGrows ==
  ASSUME Layout, NEW hs, NEW i, NEW at, NEW align, Fitted(hs, i, at, align)
  PROVE  \E n \in i + 1 .. Len(hs) + 1, h \in Headers :
           Grows(hs, i, at, align, [hs EXCEPT ![i].free = FALSE, ![i].align = align], n, h)
<1> DEFINE taken == [hs EXCEPT ![i].free = FALSE, ![i].align = align]
           t == Header(hs[i].addr, FALSE, hs[i].size, align)
<1>1. /\ Whole(hs) /\ i \in 2 .. Len(hs) /\ hs[i].free /\ align \in Aligns
      /\ at \in Nat /\ at = slow_align(hs[i].addr + HeaderSize, align) /\ at <= Data(hs[i])
  BY DEF Fitted
<1>2. /\ Len(hs) \in Nat /\ \A k \in 1 .. Len(hs) : hs[k] \in Headers
      /\ hs \in Seq(Headers) /\ DOMAIN hs = 1 .. Len(hs) /\ i \in 1 .. Len(hs) /\ i \in Nat
  BY <1>1, Elements
<1>3. t \in Headers BY <1>1, <1>2 DEF Header, Headers
<1>4. taken = [hs EXCEPT ![i] = t]
  <2> DEFINE freed == [hs EXCEPT ![i].free = FALSE]
             f == [hs[i] EXCEPT !.free = FALSE]
  <2>1. freed = [hs EXCEPT ![i] = f] OBVIOUS
  <2>2. freed[i] = f BY <1>2, <2>1
  <2>3. taken = [freed EXCEPT ![i] = [freed[i] EXCEPT !.align = align]] OBVIOUS
  <2>4. [f EXCEPT !.align = align] = t
    <3>1. hs[i] \in Headers BY <1>2
    <3> QED BY <1>1, <3>1, Realigned
  <2> HIDE DEF freed, f, taken, t
  <2>5. taken = [freed EXCEPT ![i] = t] BY <2>2, <2>3, <2>4
  <2> QED BY <2>1, <2>5
<1> HIDE DEF taken
<1>5. /\ taken \in Seq(Headers) /\ Len(taken) = Len(hs) /\ taken[i] = t
      /\ \A k \in 1 .. Len(hs) : k # i => taken[k] = hs[k]
  <2> HIDE DEF t
  <2>1. taken \in Seq(Headers) /\ Len(taken) = Len(hs) BY <1>2, <1>3, <1>4, ExceptSeq
  <2> QED BY <1>2, <1>4, <2>1
<1>6. CASE i < Len(hs)
  <2>1. \A n \in i + 1 .. Len(taken) : at <= taken[n].addr
    <3> SUFFICES ASSUME NEW n \in i + 1 .. Len(hs)
                 PROVE  at <= taken[n].addr
      BY <1>5
    <3>1. n \in 1 .. Len(hs) /\ i < n /\ n # i BY <1>2
    <3>2. After(hs[i]) <= hs[n].addr BY <1>1, <1>2, <3>1, InOrder
    <3>3. Data(hs[i]) <= After(hs[i]) /\ Data(hs[i]) \in Nat /\ After(hs[i]) \in Nat
          /\ hs[n].addr \in Nat
      BY <1>2, <3>1, DataPlace
    <3>4. taken[n] = hs[n] BY <1>5, <3>1
    <3> QED BY <1>1, <3>2, <3>3, <3>4
  <2>2. i \in 1 .. Len(taken) BY <1>2, <1>5
  <2>3. PICK n \in i + 1 .. Len(taken) + 1, h \in Headers : Groups(taken, i, at, n, h)
    BY <1>1, <1>5, <2>1, <2>2, Grouped
  <2>4. n \in i + 1 .. Len(hs) + 1 BY <1>5
  <2>5. \A j \in i .. n - 1 : hs[j].free
    <3> SUFFICES ASSUME NEW j \in i .. n - 1
                 PROVE  hs[j].free
      OBVIOUS
    <3>1. CASE j = i BY <1>1, <3>1
    <3>2. CASE j # i
      <4>1. j \in i + 1 .. n - 1 /\ j \in 1 .. Len(hs) BY <1>2, <2>4, <3>2
      <4>2. taken[j].free BY <2>3, <4>1 DEF Groups
      <4> QED BY <1>5, <3>2, <4>1, <4>2
    <3> QED BY <3>1, <3>2
  <2>6. group_free(taken, i, at) = Splice(hs, i, n, <<h>>)
    <3>1. group_free(taken, i, at) = Splice(taken, i, n, <<h>>) BY <2>3 DEF Groups
    <3>2. <<h>> \in Seq(Headers) BY OneHeader
    <3>3. Splice(taken, i, n, <<h>>) = Splice(hs, i, n, <<h>>)
      <4> DEFINE new == <<h>>
      <4> HIDE DEF new
      <4>1. new \in Seq(Headers) BY <3>2 DEF new
      <4>2. Splice(taken, i, n, new) = Splice(hs, i, n, new)
        BY <1>2, <1>5, <2>4, <4>1, SpliceChanged
      <4> QED BY <4>2 DEF new
    <3> QED BY <3>1, <3>3
  <2>7. CASE n <= Len(hs)
    <3>1. h = [t EXCEPT !.size = hs[n].addr - at]
      <4>1. h = [taken[i] EXCEPT !.size = taken[n].addr - at] BY <1>5, <2>3, <2>7 DEF Groups
      <4>2. taken[n] = hs[n] /\ taken[i] = t BY <1>2, <1>5, <2>4, <2>7
      <4> HIDE DEF t
      <4> QED BY <4>1, <4>2
    <3>2. n \in 1 .. Len(hs) /\ i < n BY <1>2, <2>4, <2>7
    <3>3. After(hs[i]) <= hs[n].addr BY <1>1, <1>2, <3>2, InOrder
    <3>4. hs[n].addr \in Nat /\ hs[i].size \in Nat /\ Data(hs[i]) \in Nat
      BY <1>2, <3>2, DataPlace
    <3>5. h.size = hs[n].addr - at /\ h = Header(hs[i].addr, FALSE, h.size, align)
      BY <3>1 DEF Header
    <3>6. at + h.size = hs[n].addr /\ h.size >= hs[i].size
      BY <1>1, <3>3, <3>4, <3>5 DEF After
    <3>7. Grows(hs, i, at, align, taken, n, h) BY <1>6, <2>5, <2>6, <2>7, <3>5, <3>6 DEF Grows
    <3> QED BY <2>4, <3>7 DEF taken
  <2>8. CASE ~ (n <= Len(hs))
    <3>1. h = t
      <4> HIDE DEF t
      <4> QED BY <1>5, <2>3, <2>8 DEF Groups
    <3>2. h.size = hs[i].size /\ h = Header(hs[i].addr, FALSE, h.size, align)
      BY <3>1 DEF Header
    <3>3. h.size >= hs[i].size BY <1>2, <3>2, DataPlace
    <3>7. Grows(hs, i, at, align, taken, n, h) BY <1>6, <2>5, <2>6, <2>8, <3>2, <3>3 DEF Grows
    <3> QED BY <2>4, <3>7 DEF taken
  <2> QED BY <2>7, <2>8
<1>7. CASE i = Len(hs)
  <2>1. Len(hs) + 1 \in i + 1 .. Len(hs) + 1 /\ ~ (Len(hs) + 1 <= Len(hs)) BY <1>2, <1>7
  <2>2. \A j \in i .. Len(hs) + 1 - 1 : hs[j].free BY <1>1, <1>2, <1>7
  <2>3. t.size = hs[i].size /\ t = Header(hs[i].addr, FALSE, t.size, align) BY DEF Header
  <2> HIDE DEF t
  <2>4. t.size >= hs[i].size
    <3>1. hs[i].size \in Nat BY <1>2, DataPlace
    <3> QED BY <2>3, <3>1
  <2>5. taken = Splice(hs, i, Len(hs) + 1, <<t>>)
    <3>1. taken = Splice(hs, i, i + 1, <<taken[i]>>) BY <1>2, <1>5, OneChanged
    <3> QED BY <1>5, <1>7, <3>1
  <2>6. Grows(hs, i, at, align, taken, Len(hs) + 1, t) BY <1>7, <2>1, <2>2, <2>3, <2>4, <2>5 DEF Grows
  <2> QED BY <1>3, <2>1, <2>6 DEF taken
<1>8. i < Len(hs) \/ i = Len(hs)
  <2>1. Len(hs) \in Nat BY <1>2
  <2> QED BY <1>1, <2>1
<1> QED BY <1>6, <1>7, <1>8, Zenon
\* What stands in the place of the header that fits: the block's header, which may be split.
Stands(hs, i, at, align, size, h, new) ==
  /\ new \in Seq(Headers) /\ Len(new) > 0
  /\ new[1].addr = hs[i].addr /\ ~new[1].free /\ new[1].align = align /\ new[1].size >= size
  /\ \A k \in 1 .. Len(new) - 1 : new[k + 1].addr = After(new[k])
  /\ After(new[Len(new)]) = at + h.size

LEMMA StandsTakes ==
  ASSUME Layout, NEW hs, NEW i, NEW at, NEW align, Fitted(hs, i, at, align), NEW size \in Nat,
         NEW taken, NEW n \in i + 1 .. Len(hs) + 1, NEW h \in Headers,
         Grows(hs, i, at, align, taken, n, h), NEW new, Stands(hs, i, at, align, size, h, new)
  PROVE  /\ Takes(hs, Splice(hs, i, n, new), at, size)
         /\ Till(Splice(hs, i, n, new)) <= Till(hs)
<1>1. /\ Whole(hs) /\ i \in 2 .. Len(hs) /\ at \in Nat
      /\ at = slow_align(hs[i].addr + HeaderSize, align) /\ at <= Data(hs[i])
  BY DEF Fitted
<1>2. /\ Len(hs) \in Nat /\ \A k \in 1 .. Len(hs) : hs[k] \in Headers
  BY <1>1, Elements
<1>3. i - 1 \in 1 .. Len(hs) - 1 /\ i = i - 1 + 1 BY <1>1, <1>2
<1>4. hs[i].addr = After(hs[i - 1])
  <2>1. hs[(i - 1) + 1].addr = After(hs[i - 1]) BY <1>1, <1>3 DEF Whole
  <2> QED BY <1>3, <2>1
<1>5. Joins(hs, i, n, new)
  <2>1. i \in 2 .. Len(hs) + 1 /\ n \in i .. Len(hs) + 1 BY <1>1, <1>2
  <2>2. n <= Len(hs) => Len(new) > 0 /\ After(new[Len(new)]) = hs[n].addr
    BY DEF Grows, Stands
  <2> QED BY <1>4, <2>1, <2>2 DEF Joins, Stands
<1>6. Data(new[1]) = at BY <1>1 DEF Stands, Data
<1>7. n > i BY <1>1, <1>2
<1>8. Takes(hs, Splice(hs, i, n, new), at, size)
  BY <1>1, <1>5, <1>6, <1>7, SpliceTakes DEF Grows, Stands
<1>9. Till(hs) \in Nat /\ After(hs[i]) <= Till(hs)
  <2>1. Len(hs) \in 1 .. Len(hs) /\ i \in 1 .. Len(hs) BY <1>1, <1>2
  <2>2. Till(hs) \in Nat BY <1>2, <2>1, DataPlace DEF Till
  <2>3. CASE i = Len(hs) BY <2>2, <2>3 DEF Till
  <2>4. CASE i < Len(hs)
    <3>1. After(hs[i]) < Data(hs[Len(hs)]) BY <1>1, <2>1, <2>4, DataApart
    <3>2. /\ After(hs[i]) \in Nat /\ Data(hs[Len(hs)]) \in Nat
          /\ Data(hs[Len(hs)]) <= After(hs[Len(hs)]) /\ After(hs[Len(hs)]) \in Nat
      BY <1>2, <2>1, DataPlace
    <3> QED BY <3>1, <3>2 DEF Till
  <2> QED BY <1>1, <1>2, <2>2, <2>3, <2>4
<1>10. Till(Splice(hs, i, n, new)) <= Till(hs)
  <2>1. CASE n <= Len(hs)
    <3>1. Till(Splice(hs, i, n, new)) = Till(hs) BY <1>1, <1>5, <2>1, SpliceTill
    <3> QED BY <1>9, <3>1
  <2>2. CASE ~ (n <= Len(hs))
    <3>1. Till(Splice(hs, i, n, new)) = After(new[Len(new)])
      BY <1>1, <1>5, <2>2, SpliceTill DEF Stands
    <3>2. After(new[Len(new)]) = at + hs[i].size BY <2>2 DEF Grows, Stands
    <3>3. hs[i].size \in Nat /\ Data(hs[i]) \in Nat BY <1>1, <1>2, DataPlace
    <3>4. at + hs[i].size <= After(hs[i]) BY <1>1, <3>3 DEF After
    <3>5. After(hs[i]) \in Nat BY <1>1, <1>2, DataPlace
    <3> QED BY <1>1, <1>9, <3>1, <3>2, <3>3, <3>4, <3>5
  <2> QED BY <2>1, <2>2
<1> QED BY <1>8, <1>10

LEMMA FitTakes ==
  ASSUME Layout, NEW hs, NEW i, NEW at, NEW align, Fitted(hs, i, at, align),
         NEW size \in Nat, size <= hs[i].size
  PROVE  /\ Takes(hs, Taken(hs, i, at, size, align), at, size)
         /\ Till(Taken(hs, i, at, size, align)) <= Till(hs)
<1> DEFINE taken == [hs EXCEPT ![i].free = FALSE, ![i].align = align]
           gs == Taken(hs, i, at, size, align)
<1>1. /\ Whole(hs) /\ i \in 2 .. Len(hs) /\ at \in Nat /\ align \in Aligns
      /\ at = slow_align(hs[i].addr + HeaderSize, align)
  BY DEF Fitted
<1>2. /\ hs \in Seq(Headers) /\ i \in 1 .. Len(hs) /\ hs[i] \in Headers
  <2>1. Len(hs) \in Nat /\ hs \in Seq(Headers) BY <1>1, Elements
  <2>2. i \in 1 .. Len(hs) BY <1>1, <2>1
  <2> QED BY <1>1, <2>1, <2>2, Elements
<1>3. PICK n \in i + 1 .. Len(hs) + 1, h \in Headers : Grows(hs, i, at, align, taken, n, h)
  BY FitGrows
<1>4. gs = Split(Splice(hs, i, n, <<h>>), i, at, size)
  <2>1. gs = Split(IF i < Len(hs) THEN group_free(taken, i, at) ELSE taken, i, at, size)
    BY DEF Taken
  <2> HIDE DEF taken, gs
  <2> QED BY <1>3, <2>1 DEF Grows
<1>5. /\ h = Header(hs[i].addr, FALSE, h.size, align) /\ h.size >= hs[i].size
      /\ h.addr = hs[i].addr /\ h.free = FALSE /\ h.align = align /\ h.size \in Nat
  <2>1. h = Header(hs[i].addr, FALSE, h.size, align) /\ h.size >= hs[i].size BY <1>3 DEF Grows
  <2>2. h.addr = hs[i].addr /\ h.free = FALSE /\ h.align = align BY <2>1 DEF Header
  <2> QED BY <2>1, <2>2 DEF Headers
<1>6. size <= h.size
  <2>1. hs[i].size \in Nat BY <1>2, DataPlace
  <2> QED BY <1>5, <2>1
<1>7. Data(h) = at BY <1>1, <1>5 DEF Data
<1> HIDE DEF taken, gs
<1>8. CASE gs = Splice(hs, i, n, <<h>>)
  <2> DEFINE new == <<h>>
  <2>1. new \in Seq(Headers) /\ Len(new) = 1 /\ new[1] = h BY OneHeader
  <2> HIDE DEF new
  <2>2. After(new[Len(new)]) = at + h.size BY <1>7, <2>1 DEF After
  <2>3. Stands(hs, i, at, align, size, h, new) BY <1>5, <1>6, <2>1, <2>2 DEF Stands
  <2>4. gs = Splice(hs, i, n, new) BY <1>8 DEF new
  <2> QED BY <1>3, <2>3, <2>4, StandsTakes DEF gs
<1>9. ASSUME NEW a \in {0, SplitAlign}, Splits(hs, i, n, h, at, size, a)
      PROVE  /\ Takes(hs, gs, at, size) /\ Till(gs) <= Till(hs)
  <2> DEFINE f == [h EXCEPT !.size = size]
             r == Header(at + size, TRUE, Rest(h, size), a)
             new == <<f, r>>
  <2>1. /\ slow_align(at + size + HeaderSize, a) = at + size + HeaderSize
        /\ size + HeaderSize < h.size
        /\ gs = Splice(hs, i, n, new)
    BY <1>4, <1>9 DEF Splits
  <2>2. /\ f \in Headers /\ f.addr = hs[i].addr /\ f.free = FALSE /\ f.align = align
        /\ f.size = size
    BY <1>5 DEF Headers
  <2>3. HeaderSize \in Nat BY DEF Layout
  <2>4. /\ r \in Headers /\ r.addr = at + size /\ r.size = h.size - size - HeaderSize
        /\ r.align = a
    <3>1. h.size - size - HeaderSize \in Nat BY <1>5, <2>1, <2>3
    <3>2. at + size \in Nat /\ a \in Aligns BY <1>1 DEF Aligns
    <3> QED BY <3>1, <3>2 DEF Header, Headers, Rest
  <2> HIDE DEF f, r
  <2>5. new \in Seq(Headers) /\ Len(new) = 2 /\ new[1] = f /\ new[2] = r BY <2>2, <2>4, TwoHeaders
  <2> HIDE DEF new
  <2>6. Data(f) = at /\ After(f) = at + size BY <1>1, <2>2 DEF Data, After
  <2>7. Data(r) = at + size + HeaderSize BY <2>1, <2>4 DEF Data
  <2>8. After(r) = at + h.size BY <1>1, <1>5, <2>3, <2>4, <2>7 DEF After
  <2>9. Stands(hs, i, at, align, size, h, new)
    <3>1. \A k \in 1 .. Len(new) - 1 : new[k + 1].addr = After(new[k])
      <4>1. \A k \in 1 .. Len(new) - 1 : k = 1 /\ k + 1 = 2 BY <2>5
      <4> QED BY <2>4, <2>5, <2>6, <4>1
    <3>2. After(new[Len(new)]) = at + h.size BY <2>5, <2>8
    <3>3. new[1].size >= size BY <2>2, <2>5
    <3> QED BY <2>2, <2>5, <3>1, <3>2, <3>3 DEF Stands
  <2> QED BY <1>3, <2>1, <2>9, StandsTakes
<1>10. gs = Splice(hs, i, n, <<h>>) \/ \E a \in {0, SplitAlign} : Splits(hs, i, n, h, at, size, a)
  <2>1. \/ Split(Splice(hs, i, n, <<h>>), i, at, size) = Splice(hs, i, n, <<h>>)
        \/ \E a \in {0, SplitAlign} : Splits(hs, i, n, h, at, size, a)
    BY <1>1, <1>2, <1>6, SplitPart
  <2> QED BY <1>4, <2>1
<1> QED BY <1>8, <1>9, <1>10 DEF gs
-----------------------------------------------------------------------------
(* What malloc finds *)

LEMMA EndOfList ==
  ASSUME Layout, NEW hs, Whole(hs)
  PROVE  /\ Till(hs) \in Nat /\ Len(hs) \in 1 .. Len(hs)
         /\ \A i \in 1 .. Len(hs) : After(hs[i]) <= Till(hs)
<1>1. Len(hs) \in 1 .. Len(hs) /\ \A k \in 1 .. Len(hs) : hs[k] \in Headers
  BY Elements DEF Whole
<1>2. Till(hs) \in Nat BY <1>1, DataPlace DEF Till
<1>3. ASSUME NEW i \in 1 .. Len(hs)
      PROVE  After(hs[i]) <= Till(hs)
  <2>1. CASE i = Len(hs) BY <1>2, <2>1 DEF Till
  <2>2. CASE i < Len(hs)
    <3>1. After(hs[i]) < Data(hs[Len(hs)]) BY <1>1, <2>2, DataApart
    <3>2. /\ After(hs[i]) \in Nat /\ Data(hs[Len(hs)]) \in Nat
          /\ Data(hs[Len(hs)]) <= After(hs[Len(hs)]) /\ After(hs[Len(hs)]) \in Nat
      BY <1>1, DataPlace
    <3> QED BY <3>1, <3>2 DEF Till
  <2> QED BY <1>1, <2>1, <2>2
<1> QED BY <1>1, <1>2, <1>3

\* Behind the list the new header's place is where its data ends.
LEMMA AppendTakes ==
  ASSUME Layout, NEW hs, Whole(hs), NEW size \in Nat, NEW align \in Aligns
  PROVE  LET at == slow_align(Till(hs) + HeaderSize, align)
             gs == Append(hs, Header(Till(hs), FALSE, size, align))
         IN Takes(hs, gs, at, size) /\ Till(gs) = at + size
<1> DEFINE at == slow_align(Till(hs) + HeaderSize, align)
           h == Header(Till(hs), FALSE, size, align)
           new == <<h>>
           n == Len(hs) + 1
<1>1. Till(hs) \in Nat BY EndOfList
<1>2. h \in Headers /\ h.addr = Till(hs) /\ h.free = FALSE /\ h.size = size /\ h.align = align
  BY <1>1 DEF Header, Headers
<1>3. Len(hs) \in Nat \ {0} /\ hs \in Seq(Headers) BY Elements DEF Whole
<1> HIDE DEF h
<1>4. Append(hs, h) = Splice(hs, n, n, new)
  <2>1. Append(hs, h) = hs \o new BY <1>2, <1>3, AppendIsConcat
  <2>2. n - 1 = Len(hs) /\ n \in Int /\ Len(hs) \in Int /\ Len(hs) < n BY <1>3
  <2>3. SubSeq(hs, 1, n - 1) = hs BY <1>3, <2>2, SubSeqFull
  <2> HIDE DEF n
  <2>4. SubSeq(hs, n, Len(hs)) = <<>> BY <2>2, SubSeqEmpty
  <2>5. new \in Seq(Headers) BY <1>2, OneHeader
  <2>6. hs \o new \in Seq(Headers) BY <1>3, <2>5, ConcatProperties
  <2>7. (hs \o new) \o <<>> = hs \o new BY <2>6, ConcatEmptySeq
  <2> QED BY <2>1, <2>3, <2>4, <2>7 DEF Splice
<1>5. new \in Seq(Headers) /\ Len(new) = 1 /\ new[1] = h BY <1>2, OneHeader
<1>6. n - 1 = Len(hs) /\ n \in 2 .. Len(hs) + 1 /\ n \in n .. Len(hs) + 1 /\ ~ (n <= Len(hs))
  BY <1>3
<1>7. \A j \in n .. n - 1 : hs[j].free BY <1>3
<1> HIDE DEF new
<1>8. Joins(hs, n, n, new)
  <2>1. new[1].addr = After(hs[n - 1]) BY <1>2, <1>5, <1>6 DEF Till
  <2>2. \A k \in 1 .. Len(new) - 1 : new[k + 1].addr = After(new[k]) BY <1>5
  <2> QED BY <1>5, <1>6, <2>1, <2>2 DEF Joins
<1>9. Data(new[1]) = at BY <1>2, <1>5 DEF Data
<1>10. Takes(hs, Splice(hs, n, n, new), at, size)
  <2>1. n = Len(hs) + 1 /\ Len(new) > 0 /\ ~new[1].free /\ new[1].size >= size
    BY <1>2, <1>5
  <2> HIDE DEF n, at
  <2> QED BY <1>7, <1>8, <1>9, <2>1, SpliceTakes
<1>11. Till(Splice(hs, n, n, new)) = at + size
  <2>1. Till(Splice(hs, n, n, new)) = After(new[Len(new)])
    <3>1. ~ (n <= Len(hs)) /\ Len(new) > 0 BY <1>5, <1>6
    <3> HIDE DEF n
    <3> QED BY <1>8, <3>1, SpliceTill
  <2> QED BY <1>2, <1>5, <1>9, <2>1 DEF After
<1> QED BY <1>4, <1>10, <1>11 DEF h

\* What a search gives: a header that was there, or one that the list's end makes room for.
Finds(hs, found, size, align) ==
  /\ Takes(hs, found.list, found.at, size)
  /\ \/ found.end = end /\ Till(found.list) <= Till(hs)
     \/ /\ found.at = slow_align(Till(hs) + HeaderSize, align)
        /\ Till(found.list) = found.at + size
        /\ found.end = IF Till(hs) + HeaderSize + size >= end /\ libc
                         THEN end + Growth(size) ELSE end

LEMMA SearchFinds ==
  ASSUME Layout, NEW hs, Whole(hs), NEW size \in Sizes, NEW align \in Aligns
  PROVE  Finds(hs, find_free(hs, size, align), size, align)
<1> DEFINE next    == NextAddr(hs)
           fitting == {i \in DOMAIN hs : Fits(hs[i], size, align)}
           first   == CHOOSE j \in fitting : \A k \in fitting : j <= k
           new     == next[Len(hs) + 1]
           found   == find_free(hs, size, align)
<1>1. /\ Len(hs) \in Nat \ {0} /\ DOMAIN hs = 1 .. Len(hs) /\ hs \in Seq(Headers)
      /\ \A k \in 1 .. Len(hs) : hs[k] \in Headers
  BY Elements DEF Whole
<1>2. size \in Nat \ {0} /\ HeaderSize \in Nat BY DEF Layout
<1>3. CASE fitting # {}
  <2>1. PICK i \in fitting : \A k \in fitting : i <= k
    <3> fitting \in SUBSET Nat BY <1>1
    <3> HIDE DEF fitting
    <3> QED BY <1>3, SmallestExists
  <2>2. first = i
    <3>1. fitting \subseteq Int BY <1>1
    <3> HIDE DEF fitting
    <3>2. first \in fitting /\ \A k \in fitting : first <= k BY <2>1
    <3> HIDE DEF first
    <3> QED BY <2>1, <3>1, <3>2
  <2> DEFINE at == slow_align(next[i], align)
  <2>3. found = Found(Taken(hs, i, at, size, align), at, end)
    <3>1. found = Found(Taken(hs, first, slow_align(next[first], align), size, align),
                        slow_align(next[first], align), end)
      BY <1>3 DEF find_free
    <3> HIDE DEF found, first, next
    <3> QED BY <2>2, <3>1
  <2>4. i \in 1 .. Len(hs) /\ hs[i].free /\ hs[i].size >= size /\ hs[i].align >= align
    BY <1>1, <2>1 DEF Fits
  <2>5. i # 1
    <3>1. hs[1].size = 0 BY DEF Whole, Header
    <3> QED BY <1>2, <2>4, <3>1
  <2>6. next[i] = hs[i].addr + HeaderSize
    <3>1. i \in 1 .. Len(hs) + 1 /\ i <= Len(hs) BY <1>1, <2>4
    <3> QED BY <3>1, SearchPlace DEF Place
  <2> HIDE DEF next, first, fitting
  <2>7. Fitted(hs, i, at, align)
    <3>1. i \in 2 .. Len(hs) BY <1>1, <2>4, <2>5
    <3>2. hs[i] \in Headers BY <1>1, <2>4
    <3>3. hs[i].addr + HeaderSize \in Nat /\ align \in Nat /\ hs[i].align \in Aligns
      BY <1>2, <3>2, DataPlace DEF Headers, Aligns, Layout
    <3>4. at = slow_align(hs[i].addr + HeaderSize, align) BY <2>6
    <3>5. at \in Nat BY <3>3, <3>4, NextMultiple
    <3>6. at <= Data(hs[i])
      <4>1. slow_align(hs[i].addr + HeaderSize, align)
              <= slow_align(hs[i].addr + HeaderSize, hs[i].align)
        BY <2>4, <3>3, AlignsNest
      <4> QED BY <3>4, <4>1 DEF Data
    <3> HIDE DEF at
    <3> QED BY <2>4, <3>1, <3>4, <3>5, <3>6 DEF Fitted
  <2> HIDE DEF at
  <2>8. /\ Takes(hs, Taken(hs, i, at, size, align), at, size)
        /\ Till(Taken(hs, i, at, size, align)) <= Till(hs)
    <3>1. size \in Nat /\ size <= hs[i].size
      <4>1. hs[i].size \in Nat BY <1>1, <2>4, DataPlace
      <4> QED BY <1>2, <2>4, <4>1
    <3> QED BY <2>7, <3>1, FitTakes
  <2> HIDE DEF found
  <2>9. found.list = Taken(hs, i, at, size, align) /\ found.at = at /\ found.end = end
    BY <2>3 DEF Found
  <2>10. Finds(hs, found, size, align) BY <2>8, <2>9 DEF Finds
  <2> QED BY <2>10 DEF found
<1>4. CASE fitting = {}
  <2> DEFINE at == slow_align(Till(hs) + HeaderSize, align)
             gs == Append(hs, Header(Till(hs), FALSE, size, align))
  <2>1. new = Till(hs) + HeaderSize /\ Till(hs) \in Nat
    <3>1. Len(hs) + 1 \in 1 .. Len(hs) + 1 /\ ~ (Len(hs) + 1 <= Len(hs)) BY <1>1
    <3>2. NextAddr(hs)[Len(hs) + 1] = Place(hs, Len(hs) + 1) BY <3>1, SearchPlace
    <3> QED BY <3>1, <3>2, EndOfList DEF Place, Till
  <2>2. found = Found(Append(hs, Header(new - HeaderSize, FALSE, size, align)),
                      slow_align(new, align),
                      IF new + size >= end /\ libc THEN end + Growth(size) ELSE end)
    BY <1>4 DEF find_free
  <2> HIDE DEF new, found, fitting, next, first
  <2>3. new - HeaderSize = Till(hs) BY <1>2, <2>1
  <2>4. /\ found.list = gs /\ found.at = at
        /\ found.end = IF Till(hs) + HeaderSize + size >= end /\ libc
                         THEN end + Growth(size) ELSE end
    <3>1. found = Found(gs, at, IF new + size >= end /\ libc THEN end + Growth(size) ELSE end)
      BY <2>1, <2>2, <2>3
    <3> HIDE DEF gs, at
    <3> QED BY <2>1, <3>1 DEF Found
  <2>5. Takes(hs, gs, at, size) /\ Till(gs) = at + size BY <1>2, AppendTakes
  <2> HIDE DEF gs
  <2>6. Finds(hs, found, size, align) BY <2>4, <2>5 DEF Finds
  <2> QED BY <2>6 DEF found
<1> QED BY <1>3, <1>4
-----------------------------------------------------------------------------
(* What free leaves *)

\* The list stays whole, with every header that was in use but h, and gets no longer.
Frees(hs, gs, h) ==
  /\ Whole(gs) /\ Till(gs) <= Till(hs)
  /\ \A g \in Used(hs) : g = h \/ g \in Used(gs)

LEMMA SpliceFrees ==
  ASSUME Layout, NEW hs, Whole(hs), NEW i \in 1 .. Len(hs), NEW n \in i + 1 .. Len(hs) + 1,
         NEW new, Joins(hs, i, n, new), \A j \in i + 1 .. n - 1 : hs[j].free,
         Len(new) > 0 => After(new[Len(new)]) <= Till(hs)
  PROVE  Frees(hs, Splice(hs, i, n, new), hs[i])
<1> DEFINE gs == Splice(hs, i, n, new)
<1>1. Whole(gs) BY SpliceWhole
<1>2. Len(hs) \in Nat BY Elements
<1>3. ASSUME NEW g \in Used(hs), g # hs[i]
      PROVE  g \in Used(gs)
  <2>1. PICK k \in 1 .. Len(hs) : hs[k] = g /\ ~hs[k].free BY UsedPlace
  <2>2. k \in (1 .. i - 1) \cup (n .. Len(hs)) BY <1>2, <1>3, <2>1
  <2> QED BY <2>1, <2>2, SpliceUsed
<1>4. Till(gs) <= Till(hs)
  <2>1. Till(gs) = IF n <= Len(hs) THEN Till(hs)
                   ELSE IF Len(new) > 0 THEN After(new[Len(new)]) ELSE After(hs[i - 1])
    BY SpliceTill
  <2>2. i - 1 \in 1 .. Len(hs) BY <1>2 DEF Joins
  <2>3. Till(hs) \in Nat /\ After(hs[i - 1]) <= Till(hs) BY <2>2, EndOfList
  <2> HIDE DEF gs
  <2> QED BY <2>1, <2>3
<1> HIDE DEF gs
<1>5. Frees(hs, gs, hs[i]) BY <1>1, <1>3, <1>4 DEF Frees
<1> QED BY <1>5 DEF gs

LEMMA FreedFrees ==
  ASSUME Layout, NEW hs, Whole(hs), NEW i \in 1 .. Len(hs), ~hs[i].free
  PROVE  Frees(hs, Freed(hs, i), hs[i])
<1> DEFINE freed == [hs EXCEPT ![i].free = TRUE]
           f == [hs[i] EXCEPT !.free = TRUE]
<1>1. /\ Len(hs) \in Nat \ {0} /\ DOMAIN hs = 1 .. Len(hs) /\ hs \in Seq(Headers)
      /\ \A k \in 1 .. Len(hs) : hs[k] \in Headers
  BY Elements DEF Whole
<1>2. i \in 2 .. Len(hs)
  <2>1. hs[1].free BY DEF Whole, Header
  <2> QED BY <1>1, <2>1
<1>3. i - 1 \in 1 .. Len(hs) - 1 /\ i = i - 1 + 1 BY <1>1, <1>2
<1>4. hs[i].addr = After(hs[i - 1])
  <2>1. hs[(i - 1) + 1].addr = After(hs[i - 1]) BY <1>3 DEF Whole
  <2> QED BY <1>3, <2>1
<1>5. hs[i] \in Headers BY <1>1
<1>6. /\ f \in Headers /\ f.addr = hs[i].addr /\ f.align = hs[i].align /\ f.size = hs[i].size
  BY <1>5 DEF Headers
<1>7. Data(f) = Data(hs[i]) /\ After(f) = After(hs[i])
  <2> HIDE DEF f
  <2> QED BY <1>6 DEF Data, After
<1>8. freed = [hs EXCEPT ![i] = f] OBVIOUS
<1> HIDE DEF f, freed
<1>9. /\ freed \in Seq(Headers) /\ Len(freed) = Len(hs) /\ freed[i] = f
      /\ \A k \in 1 .. Len(hs) : k # i => freed[k] = hs[k]
  <2>1. freed \in Seq(Headers) /\ Len(freed) = Len(hs) BY <1>1, <1>6, <1>8, ExceptSeq
  <2> QED BY <1>1, <1>8, <2>1
<1>10. CASE i = Len(hs)
  <2> DEFINE n == Len(hs) + 1
             new == <<>>
  <2>1. Freed(hs, i) = SubSeq(hs, 1, i - 1) BY <1>10 DEF Freed
  <2>2. SubSeq(hs, 1, i - 1) \in Seq(Headers)
    <3>1. i - 1 \in Int /\ 1 \in Int /\ \A j \in 1 .. i - 1 : hs[j] \in Headers BY <1>1, <1>2
    <3> QED BY <3>1, SubSeqProperties
  <2>3. n \in Int /\ Len(hs) \in Int /\ Len(hs) < n /\ n \in i + 1 .. Len(hs) + 1
        /\ i \in 2 .. Len(hs) + 1 /\ n \in i .. Len(hs) + 1 /\ ~ (n <= Len(hs))
        /\ \A j \in i + 1 .. n - 1 : hs[j].free
    BY <1>1, <1>2, <1>10
  <2>4. new \in Seq(Headers) /\ Len(new) = 0 BY EmptySeq
  <2> HIDE DEF n
  <2>5. SubSeq(hs, n, Len(hs)) = <<>> BY <2>3, SubSeqEmpty
  <2>6. SubSeq(hs, 1, i - 1) \o <<>> = SubSeq(hs, 1, i - 1) BY <2>2, ConcatEmptySeq
  <2> HIDE DEF new
  <2>7. Freed(hs, i) = Splice(hs, i, n, new) BY <2>1, <2>5, <2>6 DEF Splice, new
  <2>8. Joins(hs, i, n, new) BY <2>3, <2>4 DEF Joins
  <2>9. ~ (Len(new) > 0) BY <2>4
  <2> QED BY <2>3, <2>7, <2>8, <2>9, SpliceFrees
<1>11. CASE i # Len(hs) /\ libc
  <2> DEFINE at == Data(hs[i])
  <2>1. Freed(hs, i) = group_free(freed, i, at) BY <1>11 DEF Freed, freed
  <2>2. at \in Nat /\ at <= After(hs[i]) /\ After(hs[i]) \in Nat BY <1>5, DataPlace
  <2> HIDE DEF at
  <2>3. \A n \in i + 1 .. Len(freed) : freed[n] = hs[n] /\ n \in 1 .. Len(hs) /\ i < n
    BY <1>1, <1>2, <1>9
  <2>4. \A n \in i + 1 .. Len(freed) : at <= freed[n].addr
    <3> SUFFICES ASSUME NEW n \in i + 1 .. Len(freed)
                 PROVE  at <= freed[n].addr
      OBVIOUS
    <3>1. n \in 1 .. Len(hs) /\ i < n /\ freed[n] = hs[n] BY <2>3
    <3>2. After(hs[i]) <= hs[n].addr BY <3>1, InOrder
    <3>3. hs[n].addr \in Nat BY <1>1, <3>1, DataPlace
    <3> QED BY <2>2, <3>1, <3>2, <3>3
  <2>5. PICK n \in i + 1 .. Len(freed) + 1, h \in Headers : Groups(freed, i, at, n, h)
    <3>1. i \in 1 .. Len(freed) BY <1>9
    <3> QED BY <1>9, <2>2, <2>4, <3>1, Grouped
  <2>6. n \in i + 1 .. Len(hs) + 1 BY <1>9
  <2>7. \A j \in i + 1 .. n - 1 : hs[j].free
    <3> SUFFICES ASSUME NEW j \in i + 1 .. n - 1
                 PROVE  hs[j].free
      OBVIOUS
    <3>1. j \in i + 1 .. Len(freed) BY <1>1, <1>2, <1>9, <2>6
    <3>2. freed[j].free BY <2>5 DEF Groups
    <3> QED BY <2>3, <3>1, <3>2
  <2> DEFINE new == <<h>>
  <2>8. new \in Seq(Headers) /\ Len(new) = 1 /\ new[1] = h BY OneHeader
  <2>9. Freed(hs, i) = Splice(freed, i, n, new) BY <2>1, <2>5 DEF Groups
  <2> HIDE DEF new
  <2>10. Splice(freed, i, n, new) = Splice(hs, i, n, new) BY <1>1, <1>9, <2>6, <2>8, SpliceChanged
  <2>11. h.addr = hs[i].addr /\ h.align = hs[i].align /\ h.size \in Nat
         /\ IF n <= Len(hs) THEN at + h.size = hs[n].addr ELSE h = f
    <3>1. CASE n <= Len(hs)
      <4>1. h = [freed[i] EXCEPT !.size = freed[n].addr - at]
        BY <1>9, <2>5, <3>1 DEF Groups
      <4>2. freed[n] = hs[n] /\ n \in 1 .. Len(hs) BY <1>9, <2>3, <2>6, <3>1
      <4>3. h = [f EXCEPT !.size = hs[n].addr - at] BY <1>9, <4>1, <4>2
      <4>4. h.addr = f.addr /\ h.align = f.align /\ h.size = hs[n].addr - at
        BY <1>6, <4>3 DEF Headers
      <4>5. hs[n].addr \in Nat BY <1>1, <4>2, DataPlace
      <4> QED BY <1>6, <2>2, <3>1, <4>4, <4>5 DEF Headers
    <3>2. CASE ~ (n <= Len(hs))
      <4>1. h = f BY <1>9, <2>5, <3>2 DEF Groups
      <4> QED BY <1>6, <3>2, <4>1 DEF Headers
    <3> QED BY <3>1, <3>2
  <2>12. Data(h) = at /\ After(h) = at + h.size BY <2>11 DEF Data, After, at
  <2>13. Joins(hs, i, n, new)
    <3>1. i \in 2 .. Len(hs) + 1 /\ n \in i .. Len(hs) + 1 BY <1>1, <1>2, <2>6
    <3>2. n <= Len(hs) => Len(new) > 0 /\ After(new[Len(new)]) = hs[n].addr
      BY <2>8, <2>11, <2>12
    <3>3. \A k \in 1 .. Len(new) - 1 : new[k + 1].addr = After(new[k]) BY <2>8
    <3> QED BY <1>4, <2>8, <2>11, <3>1, <3>2, <3>3 DEF Joins
  <2>14. After(new[Len(new)]) <= Till(hs)
    <3>1. CASE n <= Len(hs)
      <4>1. n \in 1 .. Len(hs) BY <1>1, <1>2, <2>6, <3>1
      <4>2. hs[n].addr \in Nat /\ hs[n] \in Headers /\ After(hs[n]) <= Till(hs) /\ Till(hs) \in Nat
        BY <1>1, <4>1, DataPlace, EndOfList
      <4>3. hs[n].addr <= After(hs[n]) /\ After(hs[n]) \in Nat
        <5>1. HeaderSize \in Nat BY DEF Layout
        <5> QED BY <4>2, <5>1, DataPlace
      <4> QED BY <2>8, <2>11, <2>12, <3>1, <4>2, <4>3
    <3>2. CASE ~ (n <= Len(hs))
      <4>1. After(hs[i]) <= Till(hs) BY EndOfList
      <4> QED BY <1>7, <2>8, <2>11, <3>2, <4>1
    <3> QED BY <3>1, <3>2
  <2> QED BY <2>6, <2>7, <2>9, <2>10, <2>13, <2>14, SpliceFrees
<1>12. CASE i # Len(hs) /\ ~libc
  <2> DEFINE new == <<f>>
             n == i + 1
  <2>1. Freed(hs, i) = freed BY <1>12 DEF Freed, freed
  <2>2. freed = Splice(hs, i, i + 1, <<freed[i]>>) BY <1>1, <1>9, OneChanged
  <2>3. Freed(hs, i) = Splice(hs, i, n, new) BY <1>9, <2>1, <2>2
  <2>4. new \in Seq(Headers) /\ Len(new) = 1 /\ new[1] = f BY <1>6, OneHeader
  <2> HIDE DEF new
  <2>5. /\ i \in 2 .. Len(hs) + 1 /\ n \in i .. Len(hs) + 1 /\ n \in i + 1 .. Len(hs) + 1
        /\ i \in 1 .. Len(hs) - 1 /\ \A j \in i + 1 .. n - 1 : hs[j].free
    <3>1. Len(hs) \in Nat BY <1>1
    <3>2. i \in Nat /\ i < Len(hs) /\ i >= 2 BY <1>2, <1>12, <3>1
    <3>3. i + 1 .. n - 1 = {} BY <3>2
    <3> QED BY <3>1, <3>2, <3>3
  <2>6. hs[n].addr = After(hs[i]) BY <2>5 DEF Whole
  <2>7. Joins(hs, i, n, new)
    <3>1. n <= Len(hs) => Len(new) > 0 /\ After(new[Len(new)]) = hs[n].addr
      BY <1>7, <2>4, <2>6
    <3>2. \A k \in 1 .. Len(new) - 1 : new[k + 1].addr = After(new[k]) BY <2>4
    <3> HIDE DEF n
    <3> QED BY <1>4, <1>6, <2>4, <2>5, <3>1, <3>2 DEF Joins
  <2>8. After(new[Len(new)]) <= Till(hs) BY <1>7, <2>4, EndOfList
  <2> HIDE DEF n
  <2> QED BY <2>3, <2>5, <2>7, <2>8, SpliceFrees
<1> QED BY <1>10, <1>11, <1>12
-----------------------------------------------------------------------------
(* The invariant *)

\* A header in use keeps a block's room.
Keeps(h, b) == Data(h) = b.at /\ h.size >= b.size

Blocks == [at : Nat, size : Sizes]

\* The list is whole, and every block is where a header in use keeps its room.
Kept(hs, bs) == \A b \in bs : \E h \in Used(hs) : Keeps(h, b)

IInv ==
  /\ Whole(list) /\ ~lost /\ blocks \subseteq Blocks /\ Kept(list, blocks)
  /\ \A b, c \in blocks : b.at = c.at => b = c

LEMMA InitInv == ASSUME Layout PROVE Init => IInv
<1> SUFFICES ASSUME Init
             PROVE  IInv
  OBVIOUS
<1> DEFINE h == Header(0, TRUE, 0, 0)
<1>1. h \in Headers BY DEF Header, Headers, Aligns
<1> HIDE DEF h
<1>2. list = <<h>> BY DEF Init, h
<1>3. list \in Seq(Headers) /\ Len(list) = 1 /\ list[1] = h BY <1>1, <1>2, OneHeader
<1>4. Whole(list)
  <2>1. list[1] = Header(0, TRUE, 0, 0) BY <1>3 DEF h
  <2>2. \A i \in 1 .. Len(list) - 1 : list[i + 1].addr = After(list[i]) BY <1>3
  <2> QED BY <1>3, <2>1, <2>2 DEF Whole
<1> QED BY <1>4 DEF Init, IInv, Kept

\* Where malloc finds room no block lies, and every block stays kept.
LEMMA NewBlock ==
  ASSUME Layout, IInv, NEW gs, NEW at, NEW size \in Sizes, Takes(list, gs, at, size)
  PROVE  /\ Block(at, size) \in Blocks /\ Whole(gs)
         /\ Kept(gs, blocks \cup {Block(at, size)})
         /\ \A b \in blocks : Abstract!Apart(b, Block(at, size)) /\ b.at # at
<1> DEFINE new == Block(at, size)
<1>1. Whole(gs) /\ Used(list) \subseteq Used(gs) BY DEF Takes
<1>2. PICK h \in Used(gs) \ Used(list) : Data(h) = at /\ h.size >= size BY DEF Takes
<1>3. new.at = at /\ new.size = size BY DEF Block
<1>4. h \in Headers /\ size \in Nat
  <2>1. \E i \in 1 .. Len(gs) : gs[i] = h BY <1>1, <1>2, UsedPlace
  <2> QED BY <1>1, <2>1, Elements DEF Layout
<1>5. at \in Nat /\ h.size \in Nat BY <1>2, <1>4, DataPlace
<1>6. new \in Blocks BY <1>5 DEF Block, Blocks
<1> HIDE DEF new
<1>7. Keeps(h, new) BY <1>2, <1>3 DEF Keeps
<1>8. Kept(gs, blocks \cup {new})
  <2> SUFFICES ASSUME NEW b \in blocks \cup {new}
               PROVE  \E g \in Used(gs) : Keeps(g, b)
    BY DEF Kept
  <2>1. CASE b = new BY <1>2, <1>7, <2>1
  <2>2. CASE b \in blocks
    <3>1. \E g \in Used(list) : Keeps(g, b) BY <2>2 DEF IInv, Kept
    <3> QED BY <1>1, <3>1
  <2> QED BY <2>1, <2>2
<1>9. ASSUME NEW b \in blocks
      PROVE  Abstract!Apart(b, new) /\ b.at # at
  <2>1. PICK g \in Used(list) : Keeps(g, b) BY DEF IInv, Kept
  <2>2. g # h /\ g \in Used(gs) BY <1>1, <1>2, <2>1
  <2>3. /\ After(h) < Data(g) \/ After(g) < Data(h)
        /\ Data(h) # Data(g) /\ h \in Headers /\ g \in Headers
    BY <1>1, <1>2, <2>2, UsedApart
  <2>4. b.size \in Nat /\ Data(g) = b.at /\ g.size >= b.size
    BY <2>1 DEF Keeps, IInv, Blocks, Layout
  <2>5. g.size \in Nat /\ Data(g) \in Nat BY <2>3, DataPlace
  <2>6. After(g) = b.at + g.size /\ After(h) = at + h.size BY <1>2, <2>4 DEF After
  <2> QED BY <1>2, <1>3, <1>4, <1>5, <2>3, <2>4, <2>5, <2>6 DEF Abstract!Apart
<1> QED BY <1>1, <1>6, <1>8, <1>9 DEF new

\* free finds the header that keeps the block.
LEMMA FreeFinds ==
  ASSUME Layout, NEW hs, Whole(hs), NEW h \in Used(hs)
  PROVE  /\ HeadersOf(hs, Data(h)) # {} /\ FirstHeader(hs, Data(h)) \in 1 .. Len(hs)
         /\ hs[FirstHeader(hs, Data(h))] = h /\ ~h.free
<1>1. PICK i \in 1 .. Len(hs) : hs[i] = h /\ ~hs[i].free BY UsedPlace
<1>2. /\ Len(hs) \in Nat /\ DOMAIN hs = 1 .. Len(hs)
      /\ \A k \in 1 .. Len(hs) : hs[k] \in Headers
  BY Elements
<1>3. ASSUME NEW j \in 1 .. Len(hs), Data(hs[j]) = Data(h)
      PROVE  j = i
  <2>1. Data(hs[j]) \in Nat /\ Data(hs[i]) \in Nat BY <1>2, DataPlace
  <2>2. ~ (j < i)
    <3> SUFFICES ASSUME j < i
                 PROVE  FALSE
      OBVIOUS
    <3>1. Data(hs[j]) < Data(hs[i]) BY DataApart
    <3> QED BY <1>1, <1>3, <2>1, <3>1
  <2>3. ~ (i < j)
    <3> SUFFICES ASSUME i < j
                 PROVE  FALSE
      OBVIOUS
    <3>1. Data(hs[i]) < Data(hs[j]) BY DataApart
    <3> QED BY <1>1, <1>3, <2>1, <3>1
  <2>4. i \in Nat /\ j \in Nat BY <1>2
  <2> QED BY <2>2, <2>3, <2>4
<1>4. HeadersOf(hs, Data(h)) = {i} BY <1>1, <1>2, <1>3 DEF HeadersOf
<1>5. FirstHeader(hs, Data(h)) = i
  <2>1. i <= i BY <1>2
  <2> QED BY <1>4, <2>1 DEF FirstHeader
<1> QED BY <1>1, <1>4, <1>5

\* The blocks but the one that is freed stay kept.
LEMMA BlockFreed ==
  ASSUME Layout, NEW hs, Whole(hs), NEW bs, bs \subseteq Blocks, Kept(hs, bs), NEW b \in bs,
         \A c, d \in bs : c.at = d.at => c = d
  PROVE  LET gs == Freed(hs, FirstHeader(hs, b.at)) IN
         /\ HeadersOf(hs, b.at) # {}
         /\ Whole(gs) /\ Kept(gs, bs \ {b}) /\ Till(gs) <= Till(hs)
<1> DEFINE i == FirstHeader(hs, b.at)
           gs == Freed(hs, i)
<1>1. PICK h \in Used(hs) : Keeps(h, b) BY DEF Kept
<1>2. Data(h) = b.at BY <1>1 DEF Keeps
<1>3. HeadersOf(hs, b.at) # {} /\ i \in 1 .. Len(hs) /\ hs[i] = h /\ ~h.free
  BY <1>1, <1>2, FreeFinds
<1> HIDE DEF i
<1>4. Frees(hs, gs, h) BY <1>3, FreedFrees
<1> HIDE DEF gs
<1>5. Whole(gs) /\ Till(gs) <= Till(hs) BY <1>4 DEF Frees
<1>6. Kept(gs, bs \ {b})
  <2> SUFFICES ASSUME NEW c \in bs \ {b}
               PROVE  \E g \in Used(gs) : Keeps(g, c)
    BY DEF Kept
  <2>1. PICK g \in Used(hs) : Keeps(g, c) BY DEF Kept
  <2>2. g # h BY <1>2, <2>1 DEF Keeps
  <2>3. g \in Used(gs) BY <1>4, <2>1, <2>2 DEF Frees
  <2> QED BY <2>1, <2>3
<1> QED BY <1>3, <1>5, <1>6 DEF gs, i
\* What a step does to the blocks is what an allocator may do, and keeps the invariant.
LEMMA MallocStep ==
  ASSUME Layout, IInv, NEW size \in Sizes, NEW align \in RequestAlignments, malloc(size, align)
  PROVE  IInv' /\ \E b \in Abstract!Come : Abstract!Allocate(b.at, b.size)
<1> DEFINE found == find_free(list, size, align)
           new == Block(found.at, size)
<1>1. align \in Aligns BY DEF RequestAlignments, Aligns
<1>2. Whole(list) BY DEF IInv
<1>3. Finds(list, found, size, align) BY <1>1, <1>2, SearchFinds
<1>4. ~lost /\ list' = found.list /\ blocks' = blocks \cup {new} /\ lost' = lost
  BY DEF malloc
<1> HIDE DEF found
<1>5. Takes(list, found.list, found.at, size) BY <1>3 DEF Finds
<1>6. /\ new \in Blocks /\ Whole(found.list) /\ Kept(found.list, blocks \cup {new})
      /\ \A b \in blocks : Abstract!Apart(b, new) /\ b.at # found.at
  BY <1>5, NewBlock
<1>7. new.at = found.at /\ new.size = size /\ new = [at |-> found.at, size |-> size]
  BY DEF Block
<1> HIDE DEF new
<1>8. \A b, c \in blocks \cup {new} : b.at = c.at => b = c BY <1>6, <1>7 DEF IInv
<1>9. IInv'
  <2>1. blocks \cup {new} \subseteq Blocks BY <1>6 DEF IInv
  <2> QED BY <1>4, <1>6, <1>8, <2>1 DEF IInv
<1>10. new \in Abstract!Come BY <1>4, <1>6, <1>7 DEF Abstract!Come
<1>11. Abstract!Allocate(new.at, new.size)
  <2>1. size > 0 BY DEF Layout
  <2> QED BY <1>4, <1>6, <1>7, <2>1 DEF Abstract!Allocate
<1> QED BY <1>9, <1>10, <1>11

LEMMA FreeStep ==
  ASSUME Layout, IInv, NEW b \in blocks, free(b)
  PROVE  IInv' /\ Abstract!Free(b) /\ Till(list') <= Till(list)
<1>1. /\ Whole(list) /\ blocks \subseteq Blocks /\ Kept(list, blocks)
      /\ \A c, d \in blocks : c.at = d.at => c = d
  BY DEF IInv
<1> DEFINE gs == Freed(list, FirstHeader(list, b.at))
<1>2. /\ HeadersOf(list, b.at) # {} /\ Whole(gs) /\ Kept(gs, blocks \ {b})
      /\ Till(gs) <= Till(list)
  BY <1>1, BlockFreed
<1>3. lost' = FALSE /\ list' = gs /\ blocks' = blocks \ {b} BY <1>2 DEF free
<1> HIDE DEF gs
<1>4. IInv' BY <1>1, <1>2, <1>3 DEF IInv
<1> QED BY <1>2, <1>3, <1>4 DEF Abstract!Free

LEMMA ReallocStep ==
  ASSUME Layout, IInv, NEW b \in blocks, NEW size \in Sizes, NEW align \in RequestAlignments,
         realloc(b, size, align)
  PROVE  /\ IInv' /\ \E c \in Abstract!Come : Abstract!Move(b, c.at, c.size)
         /\ Till(list') <= Till(find_free(list, size, align).list)
<1> DEFINE found == find_free(list, size, align)
           new == Block(found.at, size)
           gs == found.list
           ks == Freed(gs, FirstHeader(gs, b.at))
<1>1. align \in Aligns BY DEF RequestAlignments, Aligns
<1>2. Whole(list) BY DEF IInv
<1>3. Finds(list, found, size, align) BY <1>1, <1>2, SearchFinds
<1>4. ~lost /\ list' = ks /\ blocks' = (blocks \ {b}) \cup {new} /\ lost' = lost
  BY DEF realloc
<1> HIDE DEF found
<1>5. Takes(list, found.list, found.at, size) BY <1>3 DEF Finds
<1>6. /\ new \in Blocks /\ Whole(gs) /\ Kept(gs, blocks \cup {new})
      /\ \A c \in blocks : Abstract!Apart(c, new) /\ c.at # found.at
  BY <1>5, NewBlock
<1>7. new.at = found.at /\ new.size = size /\ new = [at |-> found.at, size |-> size]
  BY DEF Block
<1> HIDE DEF new
<1> DEFINE bs == blocks \cup {new}
<1>8. \A c, d \in bs : c.at = d.at => c = d BY <1>6, <1>7 DEF IInv
<1>9. bs \subseteq Blocks BY <1>6 DEF IInv
<1>10. b \in bs /\ bs \ {b} = (blocks \ {b}) \cup {new}
  BY <1>6, <1>7
<1> HIDE DEF bs, gs
<1>11. /\ Whole(ks) /\ Kept(ks, bs \ {b}) /\ Till(ks) <= Till(gs)
  <2>1. Kept(gs, bs) BY <1>6 DEF bs
  <2> QED BY <1>6, <1>8, <1>9, <1>10, <2>1, BlockFreed
<1> HIDE DEF ks
<1>12. IInv'
  <2>1. blocks' = bs \ {b} BY <1>4, <1>10
  <2>2. Whole(list') /\ ~lost' /\ Kept(list', blocks') BY <1>4, <1>11, <2>1
  <2>3. blocks' \subseteq Blocks /\ \A c, d \in blocks' : c.at = d.at => c = d BY <1>8, <1>9, <2>1
  <2> QED BY <2>2, <2>3 DEF IInv
<1>13. new \in Abstract!Come BY <1>4, <1>6, <1>7 DEF Abstract!Come
<1>14. Abstract!Move(b, new.at, new.size)
  <2>1. size > 0 BY DEF Layout
  <2> QED BY <1>4, <1>6, <1>7, <2>1 DEF Abstract!Move
<1>15. Till(list') <= Till(found.list) BY <1>4, <1>11 DEF gs
<1> QED BY <1>12, <1>13, <1>14, <1>15 DEF found

LEMMA StepInv ==
  ASSUME Layout, IInv, [Next]_vars
  PROVE  IInv' /\ [Abstract!Next]_blocks
<1>1. CASE UNCHANGED vars BY <1>1 DEF IInv, Whole, Kept, Used, Keeps, vars
<1>2. ASSUME NEW size \in Sizes, NEW align \in RequestAlignments, malloc(size, align)
      PROVE  IInv' /\ Abstract!Next
  BY <1>2, MallocStep DEF Abstract!Next
<1>3. ASSUME NEW b \in blocks, free(b)
      PROVE  IInv' /\ Abstract!Next
  BY <1>3, FreeStep DEF Abstract!Next
<1>4. ASSUME NEW b \in blocks, NEW size \in Sizes, NEW align \in RequestAlignments,
             realloc(b, size, align)
      PROVE  IInv' /\ Abstract!Next
  BY <1>4, ReallocStep DEF Abstract!Next
<1> QED BY <1>1, <1>2, <1>3, <1>4 DEF Next

\* Always, the headers have no gap and every block has one.
LEMMA ListInOrder == ASSUME Layout PROVE Spec => []IInv
<1>1. Init => IInv BY InitInv
<1>2. IInv /\ [Next]_vars => IInv' BY StepInv
<1> QED BY <1>1, <1>2, PTL DEF Spec

-----------------------------------------------------------------------------
(* The theorems *)

\* malloc, free and realloc implement an allocator: no block is given out over one in use,
\* for any sizes and alignments, and however the free headers were split, joined and realigned.
THEOREM HeapAllocates == ASSUME Layout PROVE Spec => IsAllocator
<1>1. Init => Abstract!Init BY DEF Init, Abstract!Init
<1>2. IInv /\ [Next]_vars => [Abstract!Next]_blocks BY StepInv
<1> QED BY <1>1, <1>2, ListInOrder, PTL DEF Spec, IsAllocator, Abstract!Spec

\* No canary is overwritten, the search and the links agree on where each header is, and free
\* finds every block: the list of both heaps stays whole.
THEOREM ListStaysWhole == ASSUME Layout PROVE Spec => []ListWhole
<1>1. ASSUME IInv
      PROVE  ListWhole
  <2>1. /\ Whole(list) /\ ~lost /\ blocks \subseteq Blocks /\ Kept(list, blocks) BY <1>1 DEF IInv
  <2>2. /\ Len(list) \in Nat /\ DOMAIN list = 1 .. Len(list)
        /\ \A k \in 1 .. Len(list) : list[k] \in Headers
    BY <2>1, Elements
  <2>3. HeadersApart
    <3> SUFFICES ASSUME NEW i \in 1 .. Len(list), i < Len(list)
                 PROVE  (IF list[i].free THEN list[i].addr + HeaderSize
                                         ELSE Data(list[i]) + list[i].size) <= list[i + 1].addr
      BY <2>2 DEF HeadersApart
    <3>1. i \in 1 .. Len(list) - 1 BY <2>2
    <3>2. list[i + 1].addr = After(list[i]) BY <2>1, <3>1 DEF Whole
    <3>3. /\ list[i].addr + HeaderSize <= Data(list[i]) /\ Data(list[i]) <= After(list[i])
          /\ list[i].addr \in Nat /\ Data(list[i]) \in Nat /\ After(list[i]) \in Nat
      BY <2>2, DataPlace
    <3>4. HeaderSize \in Nat BY DEF Layout
    <3>5. CASE list[i].free BY <3>2, <3>3, <3>4, <3>5
    <3>6. CASE ~list[i].free BY <3>2, <3>3, <3>6 DEF After
    <3> QED BY <3>5, <3>6
  <2>4. SearchKnowsPlace
    <3> SUFFICES ASSUME NEW i \in 1 .. Len(list)
                 PROVE  NextAddr(list)[i] = list[i].addr + HeaderSize
      BY <2>2 DEF SearchKnowsPlace
    <3>1. i \in 1 .. Len(list) + 1 /\ i <= Len(list) BY <2>2
    <3> QED BY <2>1, <3>1, SearchPlace DEF Place
  <2>5. BlocksHaveHeaders
    <3> SUFFICES ASSUME NEW b \in blocks
                 PROVE  \E i \in DOMAIN list :
                          ~list[i].free /\ Data(list[i]) = b.at /\ list[i].size >= b.size
      BY <2>1 DEF BlocksHaveHeaders
    <3>1. PICK h \in Used(list) : Keeps(h, b) BY <2>1 DEF Kept
    <3>2. PICK i \in 1 .. Len(list) : list[i] = h /\ ~list[i].free BY <2>1, <3>1, UsedPlace
    <3> QED BY <2>2, <3>1, <3>2 DEF Keeps
  <2> QED BY <2>3, <2>4, <2>5 DEF ListWhole
<1> QED BY <1>1, ListInOrder, PTL
===============================================================================
