---------------------------- MODULE HashTableProofs ----------------------------
(***************************************************************************)
(* What holds of a HashTable for any keys, values and hashes, and however  *)
(* far it grows.                                                           *)
(***************************************************************************)
EXTENDS HashTable, FiniteSetTheorems, SequenceTheorems, WellFoundedInduction, TLAPS

Entries == [key : Keys, val : Values]
Buckets == [chain : Seq(Entries), left : Keys \cup {Missing}]

\* A key is in a chain once, and the entry lies in the bucket its hash says.
Once(chain) == \A i, j \in DOMAIN chain : chain[i].key = chain[j].key => i = j
Placed(chain, i, bits) == \A j \in DOMAIN chain : fib_map(chain[j].key, bits) = i

\* A table of 2^bits buckets whose entries are where get looks for them.
InOrder(buckets, bits) ==
  /\ buckets \in [Slots(bits) -> Buckets]
  /\ \A i \in Slots(bits) : Once(buckets[i].chain) /\ Placed(buckets[i].chain, i, bits)

IInv == m_container_bits \in 0 .. MaxBits /\ InOrder(m_buckets, m_container_bits)

-----------------------------------------------------------------------------
(* Powers of two and the buckets they number *)

\* A set of naturals that is not empty has a smallest element: induction, where it is needed,
\* is by the smallest counterexample.
LEMMA SmallestExists ==
  ASSUME NEW S \in SUBSET Nat, S # {}
  PROVE  \E x \in S : \A y \in S : x <= y
<1>1. \E x \in S : \A y \in S : ~ (<<y, x>> \in OpToRel(<, Nat))
  BY NatLessThanWellFounded, WFMin, Zenon
<1>2. PICK x \in S : \A y \in S : ~ (y < x)
  BY <1>1 DEF OpToRel
<1> QED BY <1>2

LEMMA NoSubsetOfNone == 2^0 = 1
OBVIOUS

\* From the number of subsets of a set with one element more.
LEMMA PowersDouble ==
  ASSUME NEW n \in Nat
  PROVE  2^n \in Nat \ {0} /\ 2^(n + 1) = 2 * 2^n
<1> DEFINE S == 1 .. n
           T == 1 .. n + 1
           With == {s \cup {n + 1} : s \in SUBSET S}
           f == [s \in SUBSET S |-> s \cup {n + 1}]
<1>1. IsFiniteSet(S) /\ Cardinality(S) = n /\ IsFiniteSet(T) /\ Cardinality(T) = n + 1
  BY FS_Interval
<1>2. /\ IsFiniteSet(SUBSET S) /\ Cardinality(SUBSET S) = 2^n
      /\ IsFiniteSet(SUBSET T) /\ Cardinality(SUBSET T) = 2^(n + 1)
  <2> HIDE DEF S, T
  <2> QED BY <1>1, FS_SUBSET
<1>3. ExistsBijection(SUBSET S, With)
  <2>1. f \in [SUBSET S -> With] OBVIOUS
  <2>2. ASSUME NEW s \in SUBSET S, NEW t \in SUBSET S, f[s] = f[t]
        PROVE  s = t
    <3>1. n + 1 \notin s /\ n + 1 \notin t OBVIOUS
    <3>2. s \cup {n + 1} = t \cup {n + 1} BY <2>2
    <3> QED BY <3>1, <3>2
  <2>3. \A u \in With : \E s \in SUBSET S : f[s] = u OBVIOUS
  <2>4. f \in Bijection(SUBSET S, With)
    <3> HIDE DEF S, With, f
    <3> QED BY <2>1, <2>2, <2>3 DEF Bijection, Injection, Surjection, IsInjective
  <2> QED BY <2>4 DEF ExistsBijection
<1>4. IsFiniteSet(With) /\ Cardinality(With) = 2^n
  <2> HIDE DEF S, With
  <2> QED BY <1>2, <1>3, FS_Bijection
<1>5. SUBSET T = (SUBSET S) \cup With /\ (SUBSET S) \cap With = {}
  <2>1. ASSUME NEW t \in SUBSET T
        PROVE  t \in (SUBSET S) \cup With
    <3>1. CASE n + 1 \in t
      <4>1. t \ {n + 1} \in SUBSET S /\ t = (t \ {n + 1}) \cup {n + 1} BY <3>1
      <4> QED BY <4>1
    <3>2. CASE n + 1 \notin t
      <4>1. t \in SUBSET S BY <3>2
      <4> QED BY <4>1
    <3> QED BY <3>1, <3>2
  <2>2. S \subseteq T /\ n + 1 \in T /\ n + 1 \notin S OBVIOUS
  <2>3. (SUBSET S) \cup With \subseteq SUBSET T
    <3> HIDE DEF S, T
    <3> QED BY <2>2
  <2>4. (SUBSET S) \cap With = {}
    <3> HIDE DEF S
    <3> QED BY <2>2
  <2> HIDE DEF S, T, With
  <2> QED BY <2>1, <2>3, <2>4
<1>6. Cardinality(SUBSET T) = 2^n + 2^n - Cardinality({})
  <2> HIDE DEF S, T, With
  <2> QED BY <1>2, <1>4, <1>5, FS_Union
<1>7. 2^n \in Nat
  <2> HIDE DEF S
  <2> QED BY <1>2, FS_CardinalityType
<1>8. 2^n # 0
  <2> HIDE DEF S
  <2> QED BY <1>2, FS_EmptySet, {} \in SUBSET S
<1> QED BY <1>2, <1>6, <1>7, <1>8, FS_EmptySet

LEMMA Quotient ==
  ASSUME NEW h \in Nat, NEW d \in Nat \ {0}
  PROVE  /\ h \div d \in Nat
         /\ h \div (2 * d) = (h \div d) \div 2
OBVIOUS

LEMMA Halves ==
  ASSUME Hashing, NEW k \in Keys, NEW b \in Nat, b < HashBits
  PROVE  /\ fib_map(k, b + 1) \in Nat
         /\ fib_map(k, b) = fib_map(k, b + 1) \div 2
<1> DEFINE n == HashBits - (b + 1)
<1>1. n \in Nat /\ HashBits - b = n + 1 BY DEF Hashing
<1>2. 2^n \in Nat \ {0} /\ 2^(n + 1) = 2 * 2^n
  <2> HIDE DEF n
  <2> QED BY <1>1, PowersDouble
<1>3. Hash[k] \in Nat
  <2>1. 2^HashBits \in Nat BY PowersDouble DEF Hashing
  <2> QED BY <2>1 DEF Hashing
<1>4. fib_map(k, b + 1) = Hash[k] \div 2^n /\ fib_map(k, b) = Hash[k] \div 2^(n + 1)
  BY <1>1 DEF fib_map
<1> HIDE DEF n
<1> QED BY <1>2, <1>3, <1>4, Quotient

LEMMA BucketOfKey ==
  ASSUME Hashing, NEW k \in Keys, NEW bits \in 0 .. HashBits
  PROVE  fib_map(k, bits) \in Slots(bits)
<1> DEFINE Outside == {b \in Nat : b <= HashBits /\ fib_map(k, b) \notin 0 .. 2^b - 1}
<1>1. SUFFICES Outside = {}
  BY DEF Slots, Hashing
<1>2. SUFFICES ASSUME Outside # {}
               PROVE  FALSE
  OBVIOUS
<1>3. PICK b \in Outside : \A c \in Outside : b <= c
  <2> Outside \in SUBSET Nat OBVIOUS
  <2> HIDE DEF Outside
  <2> QED BY <1>2, SmallestExists
<1>4. b # 0
  <2> SUFFICES ASSUME b = 0
               PROVE  fib_map(k, 0) \in 0 .. 2^0 - 1
    BY <1>3
  <2>1. 2^HashBits \in Nat \ {0} /\ Hash[k] \in 0 .. 2^HashBits - 1
    BY PowersDouble DEF Hashing
  <2>2. \A h, d \in Nat : h < d => h \div d = 0
    OBVIOUS
  <2>3. fib_map(k, 0) = Hash[k] \div 2^HashBits
    BY HashBits - 0 = HashBits DEF fib_map, Hashing
  <2> QED BY <2>1, <2>2, <2>3, NoSubsetOfNone
<1>5. PICK a \in Nat : b = a + 1
  BY <1>3, <1>4, b - 1 \in Nat
<1>6. fib_map(k, a) \in 0 .. 2^a - 1
  <2>1. a <= HashBits /\ ~ (b <= a) BY <1>3, <1>5 DEF Hashing
  <2> QED BY <1>3, <2>1
<1>7. 2^a \in Nat /\ 2^b = 2 * 2^a
  BY <1>5, PowersDouble
<1>8. fib_map(k, b) \in Nat /\ fib_map(k, a) = fib_map(k, b) \div 2
  BY <1>3, <1>5, Halves DEF Hashing
<1> QED BY <1>3, <1>6, <1>7, <1>8
-----------------------------------------------------------------------------
(* What a chain holds *)

Holds(chain, e) == \E j \in DOMAIN chain : chain[j] = e

Find(chain, key) ==
  IF Positions(chain, key) = {} THEN Missing
  ELSE chain[CHOOSE i \in Positions(chain, key) : TRUE].val

LEMMA GetFinds == ASSUME NEW key PROVE get(key) = Find(Chain(key), key)
BY DEF get, Find

LEMMA FoundOnce ==
  ASSUME NEW chain \in Seq(Entries), Once(chain), NEW j \in DOMAIN chain
  PROVE  Positions(chain, chain[j].key) = {j} /\ Find(chain, chain[j].key) = chain[j].val
<1>1. Positions(chain, chain[j].key) = {j} BY DEF Once, Positions
<1>2. (CHOOSE i \in {j} : TRUE) = j OBVIOUS
<1> QED BY <1>1, <1>2 DEF Find

LEMMA FoundHeld ==
  ASSUME NEW chain \in Seq(Entries), Once(chain), NEW e \in Entries, Holds(chain, e)
  PROVE  Find(chain, e.key) = e.val
BY FoundOnce DEF Holds

LEMMA NotFound ==
  ASSUME Hashing, NEW chain \in Seq(Entries), Once(chain), NEW key \in Keys
  PROVE  /\ Find(chain, key) = Missing <=> Positions(chain, key) = {}
         /\ Positions(chain, key) = {} <=> \A e \in Entries : e.key = key => ~Holds(chain, e)
<1>1. \A j \in DOMAIN chain : chain[j] \in Entries BY ElementOfSeq
<1>2. Positions(chain, key) = {} => Find(chain, key) = Missing BY DEF Find
<1>3. ASSUME NEW j \in Positions(chain, key)
      PROVE  /\ Find(chain, key) # Missing
             /\ chain[j] \in Entries /\ chain[j].key = key /\ Holds(chain, chain[j])
  <2>1. j \in DOMAIN chain /\ chain[j].key = key BY DEF Positions
  <2>2. Find(chain, key) = chain[j].val BY <2>1, FoundOnce
  <2>3. chain[j].val \in Values BY <1>1, <2>1 DEF Entries
  <2> QED BY <1>1, <2>1, <2>2, <2>3 DEF Hashing, Holds
<1>4. ASSUME NEW e \in Entries, e.key = key, Holds(chain, e)
      PROVE  Positions(chain, key) # {}
  BY <1>4 DEF Holds, Positions
<1> QED BY <1>2, <1>3, <1>4

\* What get finds depends on the entries of the chain only, not on their order.
LEMMA SameFound ==
  ASSUME Hashing, NEW key \in Keys,
         NEW c \in Seq(Entries), Once(c), NEW d \in Seq(Entries), Once(d),
         \A e \in Entries : e.key = key => (Holds(c, e) <=> Holds(d, e))
  PROVE  Find(c, key) = Find(d, key)
<1>1. CASE Positions(c, key) = {} BY <1>1, NotFound
<1>2. CASE Positions(c, key) # {}
  <2>1. PICK e \in Entries : e.key = key /\ Holds(c, e) BY <1>2, NotFound
  <2>2. Holds(d, e) BY <2>1
  <2> QED BY <2>1, <2>2, FoundHeld
<1> QED BY <1>1, <1>2

LEMMA ChainAdded ==
  ASSUME NEW chain \in Seq(Entries), Once(chain), NEW e \in Entries,
         Positions(chain, e.key) = {}
  PROVE  /\ Added(chain, e) \in Seq(Entries) /\ Once(Added(chain, e))
         /\ \A x \in Entries : Holds(Added(chain, e), x) <=> Holds(chain, x) \/ x = e
         /\ \A j \in DOMAIN chain : j \in DOMAIN Added(chain, e) /\ Added(chain, e)[j] = chain[j]
<1> DEFINE d == Append(chain, e)
<1>1. /\ d \in Seq(Entries) /\ Len(d) = Len(chain) + 1
      /\ \A i \in 1 .. Len(chain) : d[i] = chain[i]
      /\ d[Len(chain) + 1] = e
  BY AppendProperties
<1>2. /\ Len(chain) \in Nat /\ DOMAIN chain = 1 .. Len(chain)
      /\ DOMAIN d = 1 .. Len(chain) + 1
  BY <1>1, LenProperties
<1>3. \A i \in DOMAIN chain : chain[i].key # e.key BY DEF Positions
<1> HIDE DEF d
<1>4. Once(d) BY <1>1, <1>2, <1>3 DEF Once
<1>5. ASSUME NEW x \in Entries
      PROVE  Holds(d, x) <=> Holds(chain, x) \/ x = e
  BY <1>1, <1>2 DEF Holds
<1>6. Added(chain, e) = d BY DEF d, Added
<1> QED BY <1>1, <1>2, <1>4, <1>5, <1>6

LEMMA ChainWithout ==
  ASSUME NEW chain \in Seq(Entries), Once(chain), NEW j \in DOMAIN chain
  PROVE  /\ RemoveAt(chain, j) \in Seq(Entries) /\ Once(RemoveAt(chain, j))
         /\ \A x \in Entries : Holds(RemoveAt(chain, j), x) <=> Holds(chain, x) /\ x # chain[j]
         /\ \A m \in DOMAIN chain : m # j =>
              LET q == IF m < j THEN m ELSE m - 1
              IN  q \in DOMAIN RemoveAt(chain, j) /\ RemoveAt(chain, j)[q] = chain[m]
<1> DEFINE n == Len(chain)
           a == SubSeq(chain, 1, j - 1)
           b == SubSeq(chain, j + 1, n)
           d == a \o b
           at(i) == IF i < j THEN i ELSE i + 1
<1>1. n \in Nat /\ j \in 1 .. n /\ DOMAIN chain = 1 .. n BY LenProperties
<1>2. /\ a \in Seq(Entries) /\ Len(a) = j - 1 /\ \A i \in 1 .. j - 1 : a[i] = chain[i]
      /\ b \in Seq(Entries) /\ Len(b) = n - j /\ \A i \in 1 .. n - j : b[i] = chain[j + i]
  <2> HIDE DEF n
  <2>1. /\ \A i \in 1 .. j - 1 : chain[i] \in Entries
        /\ \A i \in j + 1 .. n : chain[i] \in Entries
    BY <1>1, ElementOfSeq
  <2> QED BY <1>1, <2>1, SubSeqProperties DEF n
<1> HIDE DEF a, b
<1>3. /\ d \in Seq(Entries) /\ Len(d) = n - 1
      /\ \A i \in 1 .. n - 1 : d[i] = chain[at(i)]
  <2> HIDE DEF n, d
  <2>1. /\ d \in Seq(Entries) /\ Len(d) = Len(a) + Len(b)
        /\ \A i \in 1 .. Len(a) + Len(b) :
             d[i] = IF i <= Len(a) THEN a[i] ELSE b[i - Len(a)]
    BY <1>2, ConcatProperties DEF d
  <2>2. Len(a) + Len(b) = n - 1 BY <1>1, <1>2
  <2>3. ASSUME NEW i \in 1 .. n - 1
        PROVE  d[i] = chain[at(i)]
    <3>1. CASE i < j
      <4>1. i <= Len(a) /\ i \in 1 .. j - 1 BY <1>1, <1>2, <3>1
      <4>2. d[i] = a[i] BY <2>1, <2>2, <4>1
      <4> QED BY <1>2, <3>1, <4>1, <4>2
    <3>2. CASE ~ (i < j)
      <4>1. ~ (i <= Len(a)) /\ i - Len(a) \in 1 .. n - j /\ j + (i - Len(a)) = i + 1
        BY <1>1, <1>2, <3>2
      <4>2. d[i] = b[i - Len(a)] BY <2>1, <2>2, <4>1
      <4>3. b[i - Len(a)] = chain[i + 1] BY <1>2, <4>1
      <4> QED BY <3>2, <4>2, <4>3
    <3> QED BY <3>1, <3>2
  <2> QED BY <2>1, <2>2, <2>3
<1>4. DOMAIN d = 1 .. n - 1
  <2> HIDE DEF n, d
  <2> QED BY <1>1, <1>3, LenProperties
<1>5. RemoveAt(chain, j) = d BY DEF RemoveAt, a, b
<1> HIDE DEF n, d
<1>6. Once(d)
  <2> SUFFICES ASSUME NEW i \in 1 .. n - 1, NEW k \in 1 .. n - 1, d[i].key = d[k].key
               PROVE  i = k
    BY <1>4 DEF Once
  <2>1. at(i) \in 1 .. n /\ at(k) \in 1 .. n /\ (at(i) = at(k) => i = k) BY <1>1
  <2>2. chain[at(i)].key = chain[at(k)].key BY <1>3
  <2>3. at(i) = at(k)
    <3> HIDE DEF at
    <3> QED BY <1>1, <2>1, <2>2 DEF Once
  <2> QED BY <2>1, <2>3
<1>7. ASSUME NEW m \in 1 .. n, m # j
      PROVE  LET q == IF m < j THEN m ELSE m - 1 IN q \in 1 .. n - 1 /\ d[q] = chain[m]
  <2>1. CASE m < j
    <3>1. m \in 1 .. n - 1 /\ d[m] = chain[m] BY <1>1, <1>3, <1>7, <2>1
    <3> QED BY <2>1, <3>1
  <2>2. CASE m > j
    <3>1. m - 1 \in 1 .. n - 1 /\ ~ (m - 1 < j) /\ (m - 1) + 1 = m /\ ~ (m < j) BY <1>1, <2>2
    <3>2. d[m - 1] = chain[m] BY <1>3, <3>1
    <3> QED BY <3>1, <3>2
  <2> QED BY <1>1, <1>7, <2>1, <2>2
<1>8. ASSUME NEW x \in Entries
      PROVE  Holds(d, x) <=> Holds(chain, x) /\ x # chain[j]
  <2>1. ASSUME Holds(d, x)
        PROVE  Holds(chain, x) /\ x # chain[j]
    <3>1. PICK i \in 1 .. n - 1 : d[i] = x BY <1>4, <2>1 DEF Holds
    <3>2. PICK m \in 1 .. n : m # j /\ chain[m] = x
      <4>1. at(i) \in 1 .. n /\ at(i) # j BY <1>1
      <4>2. chain[at(i)] = x BY <1>3, <3>1
      <4> QED BY <4>1, <4>2
    <3> QED BY <1>1, <3>2 DEF Holds, Once
  <2>2. ASSUME NEW m \in 1 .. n, chain[m] = x, m # j
        PROVE  Holds(d, x)
    BY <1>4, <1>7, <2>2 DEF Holds
  <2> QED BY <1>1, <2>1, <2>2 DEF Holds
<1> QED BY <1>1, <1>3, <1>4, <1>5, <1>6, <1>7, <1>8

LEMMA ChainTail ==
  ASSUME NEW chain \in Seq(Entries), Once(chain), chain # <<>>
  PROVE  /\ Tail(chain) = RemoveAt(chain, 1) /\ 1 \in DOMAIN chain
         /\ Len(chain) \in Nat /\ (Len(chain) <= 1 => RemoveAt(chain, 1) = <<>>)
<1> DEFINE n == Len(chain)
<1>1. n \in Nat /\ n >= 1 /\ DOMAIN chain = 1 .. n BY EmptySeq, LenProperties
<1>2. SubSeq(chain, 1, 0) = <<>> BY SubSeqEmpty
<1>3. RemoveAt(chain, 1) = <<>> \o SubSeq(chain, 2, n) BY <1>2 DEF RemoveAt
<1>4. SubSeq(chain, 2, n) \in Seq(Entries) /\ Tail(chain) = SubSeq(chain, 2, n)
  <2>1. Tail(chain) = SubSeq(chain, 2, n) BY <1>1, TailIsSubSeq
  <2> QED BY <1>1, <2>1, HeadTailProperties
<1>5. RemoveAt(chain, 1) = SubSeq(chain, 2, n) BY <1>3, <1>4, ConcatEmptySeq
<1>6. n <= 1 => SubSeq(chain, 2, n) = <<>> BY <1>1, SubSeqEmpty
<1> QED BY <1>1, <1>4, <1>5, <1>6

\* f is what Kept computes, up to each entry of the chain.
IsKept(f, chain, i, bits, len) ==
  f = [n \in 0 .. len |->
        IF n = 0 THEN <<>>
        ELSE IF fib_map(chain[n].key, bits) = i THEN Append(f[n - 1], chain[n])
        ELSE f[n - 1]]

\* There is such a function: else there would be a shortest chain without one.
LEMMA KeptDefined ==
  ASSUME NEW chain, NEW i, NEW bits, NEW len \in Nat
  PROVE  \E f : IsKept(f, chain, i, bits, len)
<1> DEFINE Goes(n) == fib_map(chain[n].key, bits) = i
           Is(f, m) == f = [n \in 0 .. m |->
             IF n = 0 THEN <<>>
             ELSE IF Goes(n) THEN Append(f[n - 1], chain[n]) ELSE f[n - 1]]
           Bad == {m \in Nat : ~ \E f : Is(f, m)}
<1>1. SUFFICES Bad = {}
  BY DEF IsKept
<1>2. SUFFICES ASSUME Bad # {}
               PROVE  FALSE
  OBVIOUS
<1>3. PICK m \in Bad : \A k \in Bad : m <= k
  <2> Bad \in SUBSET Nat OBVIOUS
  <2> HIDE DEF Bad
  <2> QED BY <1>2, SmallestExists
<1>4. m # 0
  <2> HIDE DEF Goes
  <2>1. Is([n \in 0 .. 0 |-> <<>>], 0) OBVIOUS
  <2> QED BY <1>3, <2>1
<1>5. PICK k \in Nat : m = k + 1
  BY <1>3, <1>4, m - 1 \in Nat
<1>6. PICK f : Is(f, k)
  <2>1. ~ (m <= k) BY <1>5
  <2> HIDE DEF Is
  <2> QED BY <1>3, <2>1
<1>7. DEFINE g == [n \in 0 .. m |-> IF n <= k THEN f[n]
                     ELSE IF Goes(m) THEN Append(f[k], chain[m]) ELSE f[k]]
<1>8. Is(g, m)
  <2> HIDE DEF Goes
  <2> SUFFICES ASSUME NEW n \in 0 .. m
               PROVE  g[n] = IF n = 0 THEN <<>>
                        ELSE IF Goes(n) THEN Append(g[n - 1], chain[n]) ELSE g[n - 1]
    OBVIOUS
  <2>1. CASE n = 0 BY <1>5, <1>6, <2>1
  <2>2. CASE n \in 1 .. k
    <3>1. g[n] = f[n] /\ g[n - 1] = f[n - 1] /\ n \in 0 .. k BY <1>5, <2>2
    <3> QED BY <1>6, <2>2, <3>1
  <2>3. CASE n = m BY <1>5, <2>3
  <2> QED BY <1>5, <2>1, <2>2, <2>3
<1> QED BY <1>3, <1>8

\* A larger table takes from a chain the entries that belong in the bucket, each once.
LEMMA ChainKept ==
  ASSUME NEW chain \in Seq(Entries), Once(chain), NEW i, NEW bits
  PROVE  /\ Kept(chain, i, bits) \in Seq(Entries) /\ Once(Kept(chain, i, bits))
         /\ \A x \in Entries :
              Holds(Kept(chain, i, bits), x) <=> Holds(chain, x) /\ fib_map(x.key, bits) = i
<1> DEFINE Goes(n) == fib_map(chain[n].key, bits) = i
           kept == CHOOSE f : IsKept(f, chain, i, bits, Len(chain))
           Good(n) == /\ kept[n] \in Seq(Entries) /\ Once(kept[n])
                      /\ \A x \in Entries :
                           Holds(kept[n], x) <=> \E j \in 1 .. n : chain[j] = x /\ Goes(j)
           Bad == {n \in Nat : n <= Len(chain) /\ ~Good(n)}
<1>1. Len(chain) \in Nat /\ DOMAIN chain = 1 .. Len(chain)
      /\ \A n \in 1 .. Len(chain) : chain[n] \in Entries
  BY LenProperties, ElementOfSeq
<1>2. IsKept(kept, chain, i, bits, Len(chain))
  BY <1>1, KeptDefined
<1>3. Kept(chain, i, bits) = kept[Len(chain)]
  BY DEF Kept, IsKept
<1> HIDE DEF kept
<1>4. kept[0] = <<>>
  BY <1>1, <1>2 DEF IsKept
<1>5. ASSUME NEW n \in 1 .. Len(chain)
      PROVE  kept[n] = IF Goes(n) THEN Append(kept[n - 1], chain[n]) ELSE kept[n - 1]
  <2>1. kept = [m \in 0 .. Len(chain) |->
          IF m = 0 THEN <<>>
          ELSE IF Goes(m) THEN Append(kept[m - 1], chain[m]) ELSE kept[m - 1]]
    BY <1>2 DEF IsKept
  <2>2. n \in 0 .. Len(chain) /\ n # 0 BY <1>1
  <2> HIDE DEF Goes
  <2> QED BY <2>1, <2>2, Zenon
<1>6. Bad = {}
  <2> SUFFICES ASSUME Bad # {}
               PROVE  FALSE
    OBVIOUS
  <2>1. PICK n \in Bad : \A k \in Bad : n <= k
    <3> Bad \in SUBSET Nat OBVIOUS
    <3> HIDE DEF Bad
    <3> QED BY SmallestExists
  <2>2. n # 0
    <3> SUFFICES Good(0) BY <2>1
    <3>1. <<>> \in Seq(Entries) /\ DOMAIN <<>> = {} BY EmptySeq
    <3>2. 1 .. 0 = {} OBVIOUS
    <3> QED BY <1>4, <3>1, <3>2 DEF Once, Holds
  <2>3. PICK k \in Nat : n = k + 1
    <3>1. n \in Nat BY <2>1
    <3> HIDE DEF Bad
    <3> QED BY <2>2, <3>1, n - 1 \in Nat
  <2>4. Good(k) /\ n \in 1 .. Len(chain)
    <3>1. k \in Nat /\ k <= Len(chain) /\ ~ (n <= k) BY <1>1, <2>1, <2>3
    <3>2. k \notin Bad BY <2>1, <3>1
    <3>3. Good(k)
      <4> HIDE DEF Good
      <4> QED BY <3>1, <3>2
    <3> QED BY <1>1, <2>1, <2>3, <3>3
  <2>5. chain[n] \in Entries BY <1>1, <2>4
  <2>6. CASE ~Goes(n)
    <3>1. kept[n] = kept[k]
      <4>1. n - 1 = k BY <2>3
      <4> HIDE DEF Goes
      <4> QED BY <1>5, <2>4, <2>6, <4>1
    <3>2. \A x : (\E j \in 1 .. n : chain[j] = x /\ Goes(j))
                 <=> \E j \in 1 .. k : chain[j] = x /\ Goes(j)
      <4> HIDE DEF Goes
      <4>1. \A j \in 1 .. n : j = n \/ j \in 1 .. k BY <2>3
      <4>2. 1 .. k \subseteq 1 .. n BY <2>3
      <4> QED BY <2>6, <4>1, <4>2
    <3>3. Good(n)
      <4> HIDE DEF Goes
      <4> QED BY <2>4, <3>1, <3>2
    <3> QED BY <2>1, <3>3
  <2>7. CASE Goes(n)
    <3>1. kept[n] = Added(kept[k], chain[n])
      <4>1. n - 1 = k BY <2>3
      <4> HIDE DEF Goes
      <4> QED BY <1>5, <2>4, <2>7, <4>1 DEF Added
    <3>2. Positions(kept[k], chain[n].key) = {}
      <4> SUFFICES ASSUME NEW p \in Positions(kept[k], chain[n].key)
                   PROVE  FALSE
        OBVIOUS
      <4>1. p \in DOMAIN kept[k] /\ kept[k][p].key = chain[n].key BY DEF Positions
      <4>2. kept[k][p] \in Entries /\ Holds(kept[k], kept[k][p])
        BY <2>4, <4>1, ElementOfSeq, LenProperties DEF Holds
      <4>3. PICK j \in 1 .. k : chain[j] = kept[k][p] BY <2>4, <4>2
      <4>4. j \in DOMAIN chain /\ n \in DOMAIN chain /\ j # n BY <1>1, <2>3, <2>4
      <4> QED BY <4>1, <4>3, <4>4 DEF Once
    <3>3. /\ kept[n] \in Seq(Entries) /\ Once(kept[n])
          /\ \A x \in Entries : Holds(kept[n], x) <=> Holds(kept[k], x) \/ x = chain[n]
      <4> DEFINE c == kept[k]
                 e == chain[n]
      <4>1. c \in Seq(Entries) /\ Once(c) /\ e \in Entries /\ Positions(c, e.key) = {}
        BY <2>4, <2>5, <3>2
      <4> HIDE DEF c, e
      <4>2. /\ Added(c, e) \in Seq(Entries) /\ Once(Added(c, e))
            /\ \A x \in Entries : Holds(Added(c, e), x) <=> Holds(c, x) \/ x = e
        BY <4>1, ChainAdded
      <4> QED BY <3>1, <4>2 DEF c, e
    <3>4. \A x : (\E j \in 1 .. n : chain[j] = x /\ Goes(j))
                 <=> x = chain[n] \/ \E j \in 1 .. k : chain[j] = x /\ Goes(j)
      <4> HIDE DEF Goes
      <4>1. \A j \in 1 .. n : j = n \/ j \in 1 .. k BY <2>3
      <4>2. 1 .. k \subseteq 1 .. n /\ n \in 1 .. n BY <2>3
      <4> QED BY <2>7, <4>1, <4>2
    <3>5. Good(n)
      <4> HIDE DEF Goes
      <4> QED BY <2>4, <3>3, <3>4
    <3> QED BY <2>1, <3>5
  <2> QED BY <2>6, <2>7
<1>7. Good(Len(chain))
  <2> HIDE DEF Good
  <2> QED BY <1>1, <1>6
<1>8. ASSUME NEW x \in Entries
      PROVE  Holds(kept[Len(chain)], x) <=> Holds(chain, x) /\ fib_map(x.key, bits) = i
  BY <1>1, <1>7 DEF Holds
<1> QED BY <1>3, <1>7, <1>8
-----------------------------------------------------------------------------
(* Tables *)

\* What get finds in a table of 2^bits buckets.
Look(buckets, bits, key) == Find(buckets[fib_map(key, bits)].chain, key)

LEMMA GetLooks == ASSUME NEW key PROVE get(key) = Look(m_buckets, m_container_bits, key)
BY GetFinds DEF Look, Chain

LEMMA ChainsInOrder ==
  ASSUME NEW bits, NEW buckets, InOrder(buckets, bits), NEW i \in Slots(bits)
  PROVE  /\ buckets[i] \in Buckets /\ buckets[i].chain \in Seq(Entries)
         /\ Once(buckets[i].chain) /\ Placed(buckets[i].chain, i, bits)
<1>1. buckets[i] \in Buckets BY DEF InOrder
<1>2. buckets[i].chain \in Seq(Entries) BY <1>1 DEF Buckets
<1> QED BY <1>1, <1>2 DEF InOrder

\* Doubling the table loses no entry and keeps none twice.
LEMMA RehashKeeps ==
  ASSUME Hashing, NEW bits \in Nat, bits < MaxBits, NEW buckets, InOrder(buckets, bits)
  PROVE  /\ InOrder(rehash_all(buckets, bits), bits + 1)
         /\ \A k \in Keys : Look(rehash_all(buckets, bits), bits + 1, k) = Look(buckets, bits, k)
<1> DEFINE new == rehash_all(buckets, bits)
<1>1. bits < HashBits /\ bits \in 0 .. HashBits /\ bits + 1 \in 0 .. HashBits
  BY DEF Hashing
<1>2. ASSUME NEW i \in Slots(bits + 1)
      PROVE  i \div 2 \in Slots(bits)
  <2>1. 2^bits \in Nat /\ 2^(bits + 1) = 2 * 2^bits BY PowersDouble
  <2>2. i \in 0 .. 2^(bits + 1) - 1 BY DEF Slots
  <2> QED BY <2>1, <2>2 DEF Slots
<1>3. ASSUME NEW i \in Slots(bits + 1)
      PROVE  /\ new[i] = Bucket(Kept(buckets[i \div 2].chain, i, bits + 1), Missing)
             /\ new[i] \in Buckets
             /\ Once(new[i].chain) /\ Placed(new[i].chain, i, bits + 1)
             /\ \A x \in Entries : Holds(new[i].chain, x) <=>
                  Holds(buckets[i \div 2].chain, x) /\ fib_map(x.key, bits + 1) = i
  <2> DEFINE old == buckets[i \div 2].chain
             kept == Kept(old, i, bits + 1)
  <2>1. new[i] = Bucket(kept, Missing) BY DEF rehash_all
  <2>2. old \in Seq(Entries) /\ Once(old) BY <1>2, ChainsInOrder
  <2> HIDE DEF old, new
  <2>3. /\ kept \in Seq(Entries) /\ Once(kept)
        /\ \A x \in Entries : Holds(kept, x) <=> Holds(old, x) /\ fib_map(x.key, bits + 1) = i
    BY <2>2, ChainKept
  <2> HIDE DEF kept
  <2>4. new[i] \in Buckets /\ new[i].chain = kept BY <2>1, <2>3 DEF Bucket, Buckets
  <2>5. Placed(kept, i, bits + 1)
    <3>1. \A j \in DOMAIN kept : kept[j] \in Entries /\ Holds(kept, kept[j])
      BY <2>3, ElementOfSeq, LenProperties DEF Holds
    <3> QED BY <2>3, <3>1 DEF Placed
  <2> QED BY <2>1, <2>3, <2>4, <2>5 DEF old, kept
<1>4. InOrder(new, bits + 1)
  <2>1. new = [i \in Slots(bits + 1) |-> new[i]] BY DEF rehash_all
  <2> HIDE DEF new
  <2> QED BY <1>3, <2>1 DEF InOrder
<1>5. ASSUME NEW k \in Keys
      PROVE  Look(new, bits + 1, k) = Look(buckets, bits, k)
  <2> DEFINE i == fib_map(k, bits + 1)
             j == fib_map(k, bits)
  <2>1. i \in Slots(bits + 1) /\ j \in Slots(bits) /\ j = i \div 2
    BY <1>1, BucketOfKey, Halves
  <2> HIDE DEF new
  <2>2. /\ new[i].chain \in Seq(Entries) /\ Once(new[i].chain)
        /\ buckets[j].chain \in Seq(Entries) /\ Once(buckets[j].chain)
    <3> HIDE DEF i, j
    <3> QED BY <1>4, <2>1, ChainsInOrder
  <2>3. \A x \in Entries : x.key = k => (Holds(new[i].chain, x) <=> Holds(buckets[j].chain, x))
    BY <1>3, <2>1
  <2>4. Find(new[i].chain, k) = Find(buckets[j].chain, k)
    <3> HIDE DEF i, j
    <3> QED BY <2>2, <2>3, SameFound
  <2> QED BY <2>4 DEF Look
<1> QED BY <1>4, <1>5

\* A table in order, but for bucket i, which becomes b.
Replaces(new, buckets, bits, i, b) ==
  /\ bits \in 0 .. MaxBits /\ InOrder(buckets, bits) /\ i \in Slots(bits)
  /\ b \in Buckets /\ Once(b.chain) /\ Placed(b.chain, i, bits)
  /\ new = [buckets EXCEPT ![i] = b]

\* One bucket is replaced: only the keys that belong in it are found otherwise than before.
LEMMA BucketReplaced ==
  ASSUME Hashing, NEW new, NEW buckets, NEW bits, NEW i, NEW b,
         Replaces(new, buckets, bits, i, b)
  PROVE  /\ InOrder(new, bits)
         /\ \A k \in Keys : Look(new, bits, k) =
              IF fib_map(k, bits) = i THEN Find(b.chain, k) ELSE Look(buckets, bits, k)
<1>1. buckets \in [Slots(bits) -> Buckets] BY DEF InOrder, Replaces
<1>2. /\ new \in [Slots(bits) -> Buckets] /\ new[i] = b
      /\ \A j \in Slots(bits) : j # i => new[j] = buckets[j]
  BY <1>1 DEF Replaces
<1>3. InOrder(new, bits) BY <1>2 DEF InOrder, Replaces
<1>4. ASSUME NEW k \in Keys
      PROVE  Look(new, bits, k) =
               IF fib_map(k, bits) = i THEN Find(b.chain, k) ELSE Look(buckets, bits, k)
  <2>1. bits \in 0 .. HashBits BY DEF Hashing, Replaces
  <2>2. fib_map(k, bits) \in Slots(bits) BY <2>1, BucketOfKey
  <2> QED BY <1>2, <2>2 DEF Look
<1> QED BY <1>3, <1>4

-----------------------------------------------------------------------------
(* The invariant, and what an operation does to the map *)

LEMMA InitInv ==
  ASSUME Hashing, Init
  PROVE  IInv /\ \A k \in Keys : get(k) = Missing
<1>1. m_container_bits = InitialBits /\ InitialBits \in 0 .. MaxBits /\ InitialBits \in 0 .. HashBits
  BY DEF Init, Hashing
<1>2. \A i \in Slots(InitialBits) : m_buckets[i] = Bucket(<<>>, Missing) BY DEF Init
<1>3. Bucket(<<>>, Missing) \in Buckets /\ Bucket(<<>>, Missing).chain = <<>>
  BY EmptySeq DEF Bucket, Buckets
<1>4. DOMAIN <<>> = {} BY EmptySeq
<1>5. IInv BY <1>1, <1>2, <1>3, <1>4 DEF IInv, InOrder, Once, Placed, Init
<1>6. ASSUME NEW k \in Keys
      PROVE  get(k) = Missing
  <2>1. fib_map(k, InitialBits) \in Slots(InitialBits) BY <1>1, BucketOfKey
  <2>2. Chain(k) = <<>> BY <1>1, <1>2, <1>3, <2>1 DEF Chain
  <2> QED BY <1>4, <2>2, GetFinds DEF Find, Positions
<1> QED BY <1>5, <1>6

LEMMA PushStep ==
  ASSUME Hashing, IInv, NEW key \in Keys, NEW val \in Values, push(key, val)
  PROVE  /\ IInv' /\ get(key) = Missing
         /\ \A k \in Keys : get(k)' = IF k = key THEN val ELSE get(k)
<1> DEFINE bits == IF Grows THEN m_container_bits + 1 ELSE m_container_bits
           buckets == IF Grows THEN rehash_all(m_buckets, m_container_bits) ELSE m_buckets
           i == fib_map(key, bits)
           e == Entry(key, val)
           chain == buckets[i].chain
           b == Bucket(Added(chain, e), Missing)
<1>1. /\ get(key) = Missing /\ bits <= MaxBits /\ m_container_bits' = bits
      /\ m_buckets' = [buckets EXCEPT ![i] = Bucket(Added(@.chain, e), Missing)]
  BY DEF push
<1>2. bits \in 0 .. MaxBits /\ bits \in 0 .. HashBits
  BY <1>1 DEF IInv, Hashing
<1>3. InOrder(buckets, bits) /\ \A k \in Keys : Look(buckets, bits, k) = get(k)
  <2>1. CASE Grows
    <3>1. m_container_bits \in Nat /\ m_container_bits < MaxBits
      BY <1>1, <2>1 DEF IInv, Hashing
    <3> QED BY <2>1, <3>1, RehashKeeps, GetLooks DEF IInv
  <2>2. CASE ~Grows
    BY <2>2, GetLooks DEF IInv
  <2> QED BY <2>1, <2>2
<1> HIDE DEF bits, buckets
<1>4. i \in Slots(bits) BY <1>2, BucketOfKey
<1>5. e \in Entries /\ e.key = key /\ e.val = val BY DEF Entry, Entries
<1> HIDE DEF e
<1>6. chain \in Seq(Entries) /\ Once(chain) /\ Placed(chain, i, bits)
  <2> HIDE DEF i
  <2> QED BY <1>3, <1>4, ChainsInOrder
<1>7. Positions(chain, key) = {} /\ \A k \in Keys : fib_map(k, bits) = i => Find(chain, k) = get(k)
  <2>1. \A k \in Keys : fib_map(k, bits) = i => Find(chain, k) = get(k) BY <1>3 DEF Look
  <2>2. Find(chain, key) = Missing BY <1>1, <2>1
  <2> HIDE DEF chain
  <2> QED BY <1>6, <2>1, <2>2, NotFound
<1> HIDE DEF chain
<1>8. /\ Added(chain, e) \in Seq(Entries) /\ Once(Added(chain, e))
      /\ \A x \in Entries : Holds(Added(chain, e), x) <=> Holds(chain, x) \/ x = e
  BY <1>5, <1>6, <1>7, ChainAdded
<1> DEFINE added == Added(chain, e)
<1> HIDE DEF added
<1>9. b \in Buckets /\ b.chain = added BY <1>8 DEF Bucket, Buckets, added
<1>10. Placed(added, i, bits)
  <2>1. \A j \in DOMAIN added : added[j] \in Entries /\ Holds(added, added[j])
    BY <1>8, ElementOfSeq, LenProperties DEF Holds, added
  <2>2. \A x \in Entries : Holds(chain, x) => fib_map(x.key, bits) = i
    BY <1>6 DEF Placed, Holds
  <2> QED BY <1>5, <1>8, <2>1, <2>2 DEF Placed, added
<1>11. m_buckets' = [buckets EXCEPT ![i] = b]
  BY <1>1 DEF chain
<1> HIDE DEF b
<1>12. /\ InOrder(m_buckets', bits)
       /\ \A k \in Keys : Look(m_buckets', bits, k) =
            IF fib_map(k, bits) = i THEN Find(added, k) ELSE Look(buckets, bits, k)
  <2> HIDE DEF i
  <2>1. Once(b.chain) /\ Placed(b.chain, i, bits) BY <1>8, <1>9, <1>10 DEF added
  <2>2. Replaces(m_buckets', buckets, bits, i, b)
    BY <1>2, <1>3, <1>4, <1>9, <1>11, <2>1 DEF Replaces
  <2> QED BY <1>9, <2>2, BucketReplaced
<1>13. ASSUME NEW k \in Keys
       PROVE  get(k)' = IF k = key THEN val ELSE get(k)
  <2>1. get(k)' = Look(m_buckets', bits, k) BY <1>1 DEF get, Look, Find, Chain
  <2>2. CASE k = key
    <3>1. Find(added, key) = val
      <4>1. Holds(added, e) BY <1>5, <1>8 DEF added
      <4> QED BY <1>5, <1>8, <4>1, FoundHeld DEF added
    <3> QED BY <1>12, <2>1, <2>2, <3>1
  <2>3. CASE k # key /\ fib_map(k, bits) = i
    <3>1. Find(added, k) = Find(chain, k)
      <4>1. \A x \in Entries : x.key = k => (Holds(added, x) <=> Holds(chain, x))
        BY <1>5, <1>8, <2>3 DEF added
      <4> QED BY <1>6, <1>8, <4>1, SameFound DEF added
    <3> QED BY <1>7, <1>12, <2>1, <2>3, <3>1
  <2>4. CASE fib_map(k, bits) # i
    BY <1>3, <1>12, <2>1, <2>4
  <2> QED BY <2>2, <2>3, <2>4
<1> QED BY <1>1, <1>2, <1>12, <1>13 DEF IInv
\* The bucket of a key loses entry j of its chain.
Loses(key, j, left) ==
  /\ m_container_bits' = m_container_bits
  /\ m_buckets' = [m_buckets EXCEPT ![fib_map(key, m_container_bits)] =
                     Bucket(RemoveAt(Chain(key), j), left)]

\* If that is the entry of the key no other is lost, wherever it was in the chain.
LEMMA EntryRemoved ==
  ASSUME Hashing, IInv, NEW key \in Keys, NEW j \in Positions(Chain(key), key),
         NEW left \in Keys \cup {Missing},
         Loses(key, j, left)
  PROVE  /\ IInv'
         /\ \A k \in Keys : get(k)' = IF k = key THEN Missing ELSE get(k)
<1> DEFINE bits == m_container_bits
           i == fib_map(key, bits)
           chain == Chain(key)
           less == RemoveAt(chain, j)
           b == Bucket(less, left)
<1>1. bits \in 0 .. MaxBits /\ bits \in 0 .. HashBits /\ InOrder(m_buckets, bits)
  BY DEF IInv, Hashing
<1>2. i \in Slots(bits) BY <1>1, BucketOfKey
<1>3. chain = m_buckets[i].chain BY DEF Chain
<1>4. chain \in Seq(Entries) /\ Once(chain) /\ Placed(chain, i, bits)
  <2> HIDE DEF i, bits, chain
  <2> QED BY <1>1, <1>2, <1>3, ChainsInOrder
<1>5. j \in DOMAIN chain /\ chain[j].key = key BY DEF Positions
<1>6. m_buckets' = [m_buckets EXCEPT ![i] = b] /\ m_container_bits' = bits BY DEF Loses
<1> HIDE DEF chain
<1>7. /\ less \in Seq(Entries) /\ Once(less)
      /\ \A x \in Entries : Holds(less, x) <=> Holds(chain, x) /\ x # chain[j]
  BY <1>4, <1>5, ChainWithout
<1>8. \A k \in Keys : fib_map(k, bits) = i => get(k) = Find(chain, k)
  BY <1>3, GetLooks DEF Look
<1>9. chain[j] \in Entries BY <1>4, <1>5, ElementOfSeq, LenProperties
<1> HIDE DEF less, b
<1>10. b \in Buckets /\ b.chain = less BY <1>7 DEF b, Bucket, Buckets
<1>11. Placed(less, i, bits)
  <2>1. \A m \in DOMAIN less : less[m] \in Entries /\ Holds(less, less[m])
    BY <1>7, ElementOfSeq, LenProperties DEF Holds
  <2>2. \A x \in Entries : Holds(chain, x) => fib_map(x.key, bits) = i
    BY <1>4 DEF Placed, Holds
  <2> QED BY <1>7, <2>1, <2>2 DEF Placed
<1>12. /\ InOrder(m_buckets', bits)
       /\ \A k \in Keys : Look(m_buckets', bits, k) =
            IF fib_map(k, bits) = i THEN Find(less, k) ELSE Look(m_buckets, bits, k)
  <2> HIDE DEF i, bits
  <2>1. Once(b.chain) /\ Placed(b.chain, i, bits) BY <1>7, <1>10, <1>11
  <2>2. Replaces(m_buckets', m_buckets, bits, i, b)
    BY <1>1, <1>2, <1>6, <1>10, <2>1 DEF Replaces
  <2>3. /\ InOrder(m_buckets', bits)
        /\ \A k \in Keys : Look(m_buckets', bits, k) =
             IF fib_map(k, bits) = i THEN Find(b.chain, k) ELSE Look(m_buckets, bits, k)
    BY <2>2, BucketReplaced
  <2> QED BY <1>10, <2>3
<1>13. ASSUME NEW k \in Keys
       PROVE  get(k)' = IF k = key THEN Missing ELSE get(k)
  <2>1. get(k)' = Look(m_buckets', bits, k) BY <1>6 DEF get, Look, Find, Chain
  <2>2. CASE k = key
    <3>1. ASSUME NEW x \in Entries, x.key = key
          PROVE  ~Holds(less, x)
      <4> SUFFICES ASSUME Holds(chain, x)
                   PROVE  x = chain[j]
        BY <1>7
      <4> QED BY <1>4, <1>5, <3>1 DEF Holds, Once
    <3>2. Find(less, key) = Missing BY <1>7, <3>1, NotFound
    <3> QED BY <1>12, <2>1, <2>2, <3>2
  <2>3. CASE k # key /\ fib_map(k, bits) = i
    <3>1. Find(less, k) = Find(chain, k)
      <4>1. \A x \in Entries : x.key = k => (Holds(less, x) <=> Holds(chain, x))
        BY <1>5, <1>7, <2>3
      <4> QED BY <1>4, <1>7, <4>1, SameFound
    <3> QED BY <1>8, <1>12, <2>1, <2>3, <3>1
  <2>4. CASE fib_map(k, bits) # i
    BY <1>12, <2>1, <2>4, GetLooks
  <2> QED BY <2>2, <2>3, <2>4
<1> QED BY <1>1, <1>6, <1>12, <1>13 DEF IInv

\* remove takes the entry of the key out of its bucket, whatever branch it goes through, and
\* where there is none leaves the buckets alone.
LEMMA RemoveLoses ==
  ASSUME Hashing, IInv, NEW key \in Keys, remove(key)
  PROVE  \/ UNCHANGED m_buckets /\ Positions(Chain(key), key) = {}
         \/ \E j \in Positions(Chain(key), key), left \in Keys \cup {Missing} : Loses(key, j, left)
<1> DEFINE bits == m_container_bits
           i == fib_map(key, bits)
           chain == m_buckets[i].chain
           at == Positions(chain, key)
<1>1. bits \in 0 .. MaxBits /\ bits \in 0 .. HashBits /\ InOrder(m_buckets, bits)
  BY DEF IInv, Hashing
<1>2. i \in Slots(bits) BY <1>1, BucketOfKey
<1>3. m_buckets[i] \in Buckets /\ chain \in Seq(Entries) /\ Once(chain)
  <2> HIDE DEF i, bits
  <2> QED BY <1>1, <1>2, ChainsInOrder
<1>4. chain = Chain(key) /\ bits' = bits BY DEF Chain, remove
<1>6. m_buckets[i].left \in Keys \cup {Missing} BY <1>3 DEF Buckets
<1>7. m_buckets \in [Slots(bits) -> Buckets] BY <1>1 DEF InOrder
<1>9. CASE /\ FirstKey(m_buckets[i]) # key /\ at = {}
           /\ UNCHANGED <<m_buckets, m_true_no>>
  BY <1>4, <1>9
<1>10. CASE /\ FirstKey(m_buckets[i]) # key /\ at # {}
            /\ m_buckets' = [m_buckets EXCEPT ![i].chain = RemoveAt(@, CHOOSE j \in at : TRUE)]
  <2> DEFINE j == CHOOSE j \in at : TRUE
  <2>1. j \in at BY <1>10
  <2> HIDE DEF j
  <2>2. [m_buckets[i] EXCEPT !.chain = RemoveAt(chain, j)] =
          Bucket(RemoveAt(chain, j), m_buckets[i].left)
    BY <1>3 DEF Bucket, Buckets
  <2>3. m_buckets' = [m_buckets EXCEPT ![i] = Bucket(RemoveAt(chain, j), m_buckets[i].left)]
    BY <1>7, <1>10, <2>2 DEF j
  <2> HIDE DEF i, bits
  <2> QED BY <1>4, <1>6, <2>1, <2>3 DEF Loses, i, bits
<1>11. CASE /\ FirstKey(m_buckets[i]) = key
            /\ m_buckets' = [m_buckets EXCEPT ![i] =
                 IF Len(chain) > 1 THEN Bucket(Tail(chain), Missing) ELSE Bucket(<<>>, key)]
  <2>1. CASE chain = <<>>
    <3>1. at = {} BY <2>1, EmptySeq DEF Positions
    <3>2. m_buckets[i].left = key BY <1>11, <2>1 DEF FirstKey
    <3>3. ~ (Len(chain) > 1) BY <2>1, EmptySeq
    <3>4. m_buckets[i] = Bucket(<<>>, key) BY <1>3, <2>1, <3>2 DEF Bucket, Buckets
    <3>5. UNCHANGED m_buckets BY <1>7, <1>11, <3>3, <3>4
    <3> QED BY <1>4, <3>1, <3>5
  <2>2. CASE chain # <<>>
    <3>1. /\ Tail(chain) = RemoveAt(chain, 1) /\ 1 \in DOMAIN chain
          /\ Len(chain) \in Nat /\ (Len(chain) <= 1 => RemoveAt(chain, 1) = <<>>)
      <4> HIDE DEF chain
      <4> QED BY <1>3, <2>2, ChainTail
    <3>2. 1 \in at BY <1>11, <2>2, <3>1 DEF FirstKey, Positions
    <3>3. PICK left \in Keys \cup {Missing} :
            m_buckets' = [m_buckets EXCEPT ![i] = Bucket(RemoveAt(chain, 1), left)]
      <4>1. CASE Len(chain) > 1 BY <1>11, <3>1, <4>1
      <4>2. CASE ~ (Len(chain) > 1)
        <5>1. RemoveAt(chain, 1) = <<>> BY <3>1, <4>2
        <5>2. m_buckets' = [m_buckets EXCEPT ![i] = Bucket(<<>>, key)] BY <1>11, <4>2
        <5>3. m_buckets' = [m_buckets EXCEPT ![i] = Bucket(RemoveAt(chain, 1), key)]
          BY <5>1, <5>2
        <5> QED BY <5>3
      <4> QED BY <4>1, <4>2
    <3> QED BY <1>4, <3>2, <3>3 DEF Loses
  <2> QED BY <2>1, <2>2
<1> QED BY <1>9, <1>10, <1>11 DEF remove

LEMMA RemoveStep ==
  ASSUME Hashing, IInv, NEW key \in Keys, remove(key)
  PROVE  /\ IInv'
         /\ \A k \in Keys : get(k)' = IF k = key THEN Missing ELSE get(k)
<1>1. CASE UNCHANGED m_buckets /\ Positions(Chain(key), key) = {}
  <2>1. m_container_bits' = m_container_bits BY DEF remove
  <2>2. IInv' BY <1>1, <2>1 DEF IInv, InOrder
  <2>3. \A k \in Keys : get(k)' = get(k) BY <1>1, <2>1 DEF get, Chain
  <2>4. get(key) = Missing BY <1>1 DEF get
  <2> QED BY <2>2, <2>3, <2>4
<1> QED BY <1>1, RemoveLoses, EntryRemoved

LEMMA StepInv ==
  ASSUME Hashing, IInv, [Next]_vars
  PROVE  IInv'
<1>1. CASE UNCHANGED vars BY <1>1 DEF IInv, InOrder, vars
<1> QED BY <1>1, PushStep, RemoveStep DEF Next

\* Always, every key is in its bucket, once: what get, push and remove rely on.
LEMMA Ordered == ASSUME Hashing PROVE Spec => []IInv
<1>1. Init => IInv BY InitInv
<1>2. IInv /\ [Next]_vars => IInv' BY StepInv
<1> QED BY <1>1, <1>2, PTL DEF Spec

-----------------------------------------------------------------------------
(* The theorems *)

\* HashTable implements a map: get finds what was pushed and not removed, for any keys and
\* hashes, across removals of first entries and of absent keys, and however the table grows.
THEOREM TableIsMap == ASSUME Hashing PROVE Spec => IsMap
<1> DEFINE map == [k \in Keys |-> get(k)]
<1>1. Init => Abstract!Init
  BY InitInv DEF Abstract!Init
<1>2. ASSUME IInv, [Next]_vars
      PROVE  [Abstract!Next]_map
  <2>1. ASSUME NEW key \in Keys, remove(key)
        PROVE  Abstract!Remove(key)
    <3>1. \A k \in Keys : get(k)' = IF k = key THEN Missing ELSE get(k)
      BY <1>2, <2>1, RemoveStep
    <3>2. map' = [k \in Keys |-> IF k = key THEN Missing ELSE get(k)] BY <3>1
    <3>3. [map EXCEPT ![key] = Missing] = [k \in Keys |-> IF k = key THEN Missing ELSE get(k)]
      OBVIOUS
    <3> QED BY <3>2, <3>3 DEF Abstract!Remove
  <2>2. ASSUME NEW key \in Keys, NEW val \in Values, push(key, val)
        PROVE  Abstract!Push(key, val)
    <3>1. get(key) = Missing /\ \A k \in Keys : get(k)' = IF k = key THEN val ELSE get(k)
      BY <1>2, <2>2, PushStep
    <3>2. map' = [k \in Keys |-> IF k = key THEN val ELSE get(k)] BY <3>1
    <3>3. [map EXCEPT ![key] = val] = [k \in Keys |-> IF k = key THEN val ELSE get(k)]
      OBVIOUS
    <3>4. map[key] = Missing BY <3>1
    <3> QED BY <3>2, <3>3, <3>4 DEF Abstract!Push
  <2>3. CASE UNCHANGED vars
    <3>1. \A k \in Keys : get(k)' = get(k) BY <2>3 DEF vars, get, Chain
    <3> QED BY <3>1
  <2> QED BY <1>2, <2>1, <2>2, <2>3 DEF Next, Abstract!Next
<1> QED BY <1>1, <1>2, Ordered, PTL DEF Spec, IsMap, Abstract!Spec
\* Where get finds a key in a table of 2^bits buckets.
PlaceIn(buckets, bits, key) ==
  LET at == CHOOSE j \in Positions(buckets[fib_map(key, bits)].chain, key) : TRUE IN
    IF at = 1 THEN <<bits, fib_map(key, bits)>> ELSE <<key>>

LEMMA PlaceFound ==
  ASSUME Hashing, NEW bits \in 0 .. MaxBits, NEW buckets, InOrder(buckets, bits), NEW k \in Keys,
         NEW p \in DOMAIN buckets[fib_map(k, bits)].chain,
         buckets[fib_map(k, bits)].chain[p].key = k
  PROVE  /\ Positions(buckets[fib_map(k, bits)].chain, k) = {p}
         /\ PlaceIn(buckets, bits, k) = IF p = 1 THEN <<bits, fib_map(k, bits)>> ELSE <<k>>
<1> DEFINE chain == buckets[fib_map(k, bits)].chain
<1>1. fib_map(k, bits) \in Slots(bits) BY BucketOfKey DEF Hashing
<1>2. chain \in Seq(Entries) /\ Once(chain) BY <1>1, ChainsInOrder
<1>3. Positions(chain, k) = {p} BY <1>2, FoundOnce
<1>4. (CHOOSE j \in {p} : TRUE) = p OBVIOUS
<1> QED BY <1>3, <1>4 DEF PlaceIn

LEMMA PlaceNow ==
  ASSUME NEW k
  PROVE  /\ Place(k) = PlaceIn(m_buckets, m_container_bits, k)
         /\ Place(k)' = PlaceIn(m_buckets', m_container_bits', k)
BY DEF Place, PlaceIn, Chain, Positions

\* A key that is found lies at some position of its chain.
LEMMA FoundSomewhere ==
  ASSUME Hashing, IInv, NEW k \in Keys, get(k) # Missing
  PROVE  \E p \in DOMAIN Chain(k) : Chain(k)[p].key = k
<1>1. fib_map(k, m_container_bits) \in Slots(m_container_bits) BY BucketOfKey DEF IInv, Hashing
<1>2. Chain(k) \in Seq(Entries) /\ Once(Chain(k)) BY <1>1, ChainsInOrder DEF IInv, Chain
<1>3. Positions(Chain(k), k) # {} BY <1>2, GetFinds, NotFound
<1> QED BY <1>3 DEF Positions

LEMMA PushKeepsPlaces ==
  ASSUME Hashing, IInv, NEW key \in Keys, NEW val \in Values, push(key, val),
         NEW k \in Keys, get(k) # Missing, m_container_bits' = m_container_bits
  PROVE  Place(k)' = Place(k)
<1> DEFINE bits == m_container_bits
           i == fib_map(key, bits)
           j == fib_map(k, bits)
           e == Entry(key, val)
           old == m_buckets[i].chain
<1>1. ~Grows BY DEF push, IInv, Hashing
<1>2. m_buckets' = [m_buckets EXCEPT ![i] = Bucket(Added(@.chain, e), Missing)]
  BY <1>1 DEF push
<1>3. bits \in 0 .. MaxBits /\ InOrder(m_buckets, bits) /\ InOrder(m_buckets', bits)
  BY PushStep DEF IInv
<1>4. i \in Slots(bits) /\ j \in Slots(bits) BY <1>3, BucketOfKey DEF Hashing
<1>5. PICK p \in DOMAIN m_buckets[j].chain : m_buckets[j].chain[p].key = k
  BY FoundSomewhere DEF Chain
<1>6. m_buckets'[j] = IF i = j THEN Bucket(Added(old, e), Missing) ELSE m_buckets[j]
  BY <1>2, <1>3, <1>4 DEF InOrder
<1>7. /\ \A m \in DOMAIN old : m \in DOMAIN Added(old, e) /\ Added(old, e)[m] = old[m]
  <2>1. e \in Entries /\ e.key = key BY DEF Entry, Entries
  <2>2. old \in Seq(Entries) /\ Once(old)
    <3> HIDE DEF i, bits
    <3> QED BY <1>3, <1>4, ChainsInOrder
  <2>3. Positions(old, key) = {}
    <3>1. get(key) = Missing /\ get(key) = Find(old, key) BY GetLooks DEF push, Look
    <3> HIDE DEF old
    <3> QED BY <2>2, <3>1, NotFound
  <2> HIDE DEF e, old
  <2> QED BY <2>1, <2>2, <2>3, ChainAdded
<1>8. p \in DOMAIN m_buckets'[j].chain /\ m_buckets'[j].chain[p].key = k
  <2>1. CASE i = j
    <3>1. m_buckets'[j].chain = Added(old, e) BY <1>6, <2>1 DEF Bucket
    <3>2. p \in DOMAIN old /\ old[p].key = k BY <1>5, <2>1
    <3> HIDE DEF e, old, i, j
    <3> QED BY <1>7, <3>1, <3>2
  <2>2. CASE i # j BY <1>5, <1>6, <2>2
  <2> QED BY <2>1, <2>2
<1>9. PlaceIn(m_buckets, bits, k) = IF p = 1 THEN <<bits, j>> ELSE <<k>>
  BY <1>3, <1>5, PlaceFound
<1>10. PlaceIn(m_buckets', bits, k) = IF p = 1 THEN <<bits, j>> ELSE <<k>>
  BY <1>3, <1>8, PlaceFound
<1> QED BY <1>9, <1>10, PlaceNow

LEMMA RemoveKeepsPlaces ==
  ASSUME Hashing, IInv, NEW key \in Keys, NEW at \in Positions(Chain(key), key), NEW left \in Keys \cup {Missing},
         Loses(key, at, left), NEW k \in Keys, k # key, get(k) # Missing
  PROVE  \/ Place(k)' = Place(k)
         \/ Positions(Chain(k), key) = {1} /\ Positions(Chain(k), k) = {2}
<1> DEFINE bits == m_container_bits
           i == fib_map(key, bits)
           j == fib_map(k, bits)
           old == m_buckets[i].chain
<1>1. m_buckets' = [m_buckets EXCEPT ![i] = Bucket(RemoveAt(old, at), left)] /\ m_container_bits' = bits
  BY DEF Loses, Chain
<1>2. bits \in 0 .. MaxBits /\ InOrder(m_buckets, bits) /\ InOrder(m_buckets', bits)
  BY <1>1, EntryRemoved DEF IInv
<1>3. i \in Slots(bits) /\ j \in Slots(bits) BY <1>2, BucketOfKey DEF Hashing
<1>4. PICK p \in DOMAIN m_buckets[j].chain : m_buckets[j].chain[p].key = k
  BY FoundSomewhere DEF Chain
<1>5. m_buckets'[j] = IF i = j THEN Bucket(RemoveAt(old, at), left) ELSE m_buckets[j]
  BY <1>1, <1>2, <1>3 DEF InOrder
<1>6. /\ PlaceIn(m_buckets, bits, k) = IF p = 1 THEN <<bits, j>> ELSE <<k>>
      /\ Positions(m_buckets[j].chain, k) = {p}
  BY <1>2, <1>4, PlaceFound
<1>7. CASE i # j
  <2>1. p \in DOMAIN m_buckets'[j].chain /\ m_buckets'[j].chain[p].key = k BY <1>4, <1>5, <1>7
  <2>2. PlaceIn(m_buckets', bits, k) = IF p = 1 THEN <<bits, j>> ELSE <<k>>
    BY <1>2, <2>1, PlaceFound
  <2> QED BY <1>1, <1>6, <2>2, PlaceNow
<1>8. CASE i = j
  <2> DEFINE q == IF p < at THEN p ELSE p - 1
  <2>1. at \in DOMAIN old /\ old[at].key = key BY DEF Positions, Chain
  <2>2. old \in Seq(Entries) /\ Once(old)
    <3> HIDE DEF i, bits
    <3> QED BY <1>2, <1>3, ChainsInOrder
  <2>3. p \in DOMAIN old /\ old[p].key = k /\ p # at BY <1>4, <1>8, <2>1
  <2>4. m_buckets'[j].chain = RemoveAt(old, at) BY <1>5, <1>8 DEF Bucket
  <2>5. q \in DOMAIN RemoveAt(old, at) /\ RemoveAt(old, at)[q] = old[p]
    <3> HIDE DEF old
    <3> QED BY <2>1, <2>2, <2>3, ChainWithout
  <2>6. PlaceIn(m_buckets', bits, k) = IF q = 1 THEN <<bits, j>> ELSE <<k>>
    <3>1. q \in DOMAIN m_buckets'[j].chain /\ m_buckets'[j].chain[q].key = k
      BY <2>3, <2>4, <2>5
    <3> HIDE DEF q
    <3> QED BY <1>2, <3>1, PlaceFound
  <2>7. p \in Nat \ {0} /\ at \in Nat \ {0}
    <3> HIDE DEF old
    <3> QED BY <2>1, <2>2, <2>3, LenProperties
  <2>8. CASE (q = 1) <=> (p = 1)
    <3> HIDE DEF q, j
    <3> QED BY <1>1, <1>6, <2>6, <2>8, PlaceNow
  <2>9. CASE ~ ((q = 1) <=> (p = 1))
    <3>1. p = 2 /\ at = 1 BY <2>3, <2>7, <2>9
    <3>2. Positions(old, key) = {at}
      <4> HIDE DEF old
      <4> QED BY <2>1, <2>2, FoundOnce
    <3> QED BY <1>6, <1>8, <3>1, <3>2 DEF Chain
  <2> QED BY <2>8, <2>9
<1> QED BY <1>7, <1>8

\* A pointer returned by get stays good until the table grows, its key is removed, or the
\* entry before it was the first of the chain and is removed, for any keys and hashes.
THEOREM PointersKept == ASSUME Hashing PROVE Spec => PointersStay
<1> DEFINE Stays(k) == \/ Place(k)' = Place(k)
                       \/ \E first \in Keys : /\ Positions(Chain(k), first) = {1}
                                             /\ Positions(Chain(k), k) = {2}
                                             /\ get(first)' = Missing
           Step == \A k \in Keys :
             get(k) # Missing /\ get(k)' # Missing /\ m_container_bits' = m_container_bits => Stays(k)
<1>1. ASSUME IInv, [Next]_vars
      PROVE  [Step]_vars
  <2> SUFFICES ASSUME Next, NEW k \in Keys, get(k) # Missing, get(k)' # Missing,
                      m_container_bits' = m_container_bits
               PROVE  Stays(k)
    BY <1>1
  <2>1. ASSUME NEW key \in Keys, NEW val \in Values, push(key, val)
        PROVE  Stays(k)
    BY <1>1, <2>1, PushKeepsPlaces
  <2>2. ASSUME NEW key \in Keys, remove(key)
        PROVE  Stays(k)
    <3>1. get(key)' = Missing /\ k # key BY <1>1, <2>2, RemoveStep
    <3>2. CASE UNCHANGED m_buckets
      <4>1. Place(k)' = Place(k) BY <3>2, PlaceNow
      <4> QED BY <4>1
    <3>3. ASSUME NEW at \in Positions(Chain(key), key), NEW left \in Keys \cup {Missing},
                 Loses(key, at, left)
          PROVE  Stays(k)
      <4>1. \/ Place(k)' = Place(k)
            \/ Positions(Chain(k), key) = {1} /\ Positions(Chain(k), k) = {2}
        BY <1>1, <3>1, <3>3, RemoveKeepsPlaces
      <4> QED BY <3>1, <4>1
    <3> QED BY <1>1, <2>2, <3>2, <3>3, RemoveLoses
  <2> QED BY <2>1, <2>2 DEF Next
<1> QED BY <1>1, Ordered, PTL DEF Spec, PointersStay
================================================================================
