--------------------------- MODULE PageTablesProofs ---------------------------
(***************************************************************************)
(* The page tables for any number of levels, indices, processes and pages. *)
(*                                                                         *)
(* They are trees, one for each process and one for the kernel.  Every     *)
(* table has one owner and one path from its directory, no two tables of   *)
(* an owner have the same path, and entries lead from a path to those one  *)
(* index longer.  Only under the kernel's entries, which every directory   *)
(* has, does a walk come to another owner's tables.  So what a step writes *)
(* is seen along one path of one owner.                                    *)
(***************************************************************************)
EXTENDS PageTables, SequenceTheorems, FiniteSetTheorems, NaturalsInduction, TLAPS

-----------------------------------------------------------------------------
(* Owners and paths *)

\* Whose a table is: of a process, of the kernel, or of nobody any more.
KernelOwner == CHOOSE x : x \notin Procs
Nobody == CHOOSE x : x \notin Procs \cup {KernelOwner}
Owners == Procs \cup {KernelOwner}

\* The indices that lead to a table.
Paths == UNION {[1 .. k -> Indices] : k \in 0 .. Levels - 1}

\* The indices of the first k levels of a page.
Prefix(v, k) == [j \in 1 .. k |-> v[j]]

\* Path b leads one index further than path a.
Child(b, a, i) == b = Append(a, i)

\* Where an owner's directory is, and what its entries are: for a table, and for a page.
Root(pglv, o) == IF o = KernelOwner THEN Kernel ELSE pglv[o]
Link(o, t) == Skel(t, o \in Procs, TRUE)
Leaves(o) == IF o \in Procs THEN [addr : Pages, user : {TRUE}, write : BOOLEAN]
             ELSE [addr : Pages, user : {FALSE}, write : {TRUE}]

\* Is what the entry leads to the owner's own?  Under the kernel's entries of a process's
\* directory it is not.
Own(o, a, i) == a # <<>> \/ i \notin Tops \/ o = KernelOwner

\* Every table has an owner and a path.
Typed(ts, pglv, owner, path) ==
  /\ ts \in Seq([Indices -> AnyEntry \cup {NoEntry}]) /\ Len(ts) >= 1
  /\ pglv \in [Procs -> 0 .. Len(ts)]
  /\ owner \in [1 .. Len(ts) -> Owners \cup {Nobody}]
  /\ path \in [1 .. Len(ts) -> Paths]

\* A directory is its owner's table at the empty path, and who owns tables has a directory.
Rooted(ts, pglv, owner, path) ==
  /\ \A o \in Owners : Root(pglv, o) # 0 => owner[Root(pglv, o)] = o /\ path[Root(pglv, o)] = <<>>
  /\ \A t \in 1 .. Len(ts) : owner[t] \in Procs => pglv[owner[t]] # 0

\* No two tables are in one place.
Apart(ts, owner, path) ==
  \A t, u \in 1 .. Len(ts) :
    owner[t] \in Owners /\ owner[t] = owner[u] /\ path[t] = path[u] => t = u

\* An entry of an owner's own leads to the owner's table one index further, or to a page.
Down(ts, owner, path) ==
  \A t \in 1 .. Len(ts), i \in Indices :
    owner[t] \in Owners /\ Own(owner[t], path[t], i) /\ ts[t][i] # NoEntry =>
      IF Len(path[t]) = Levels - 1 THEN ts[t][i] \in Leaves(owner[t])
      ELSE \E u \in 1 .. Len(ts) :
             /\ ts[t][i] = Link(owner[t], u)
             /\ owner[u] = owner[t] /\ Child(path[u], path[t], i)

\* Every table but a directory is led to from the owner's table one index before.
Up(ts, owner, path) ==
  \A t \in 1 .. Len(ts) :
    owner[t] \in Owners /\ path[t] # <<>> =>
      \E u \in 1 .. Len(ts), i \in Indices :
        /\ owner[u] = owner[t] /\ Child(path[t], path[u], i) /\ Own(owner[t], path[u], i)
        /\ ts[u][i] = Link(owner[t], t)

\* Every directory has the kernel's entries.
Shared(ts, pglv) ==
  /\ \A i \in Indices : ts[Kernel][i] # NoEntry <=> i \in Tops
  /\ \A p \in Procs, i \in Tops : pglv[p] # 0 => ts[pglv[p]][i] = ts[Kernel][i]

\* The inductive invariant: the tables are trees, one for each owner, that share no table but
\* those under the kernel's entries.
Formed(ts, pglv, owner, path) ==
  /\ Typed(ts, pglv, owner, path) /\ Rooted(ts, pglv, owner, path)
  /\ Apart(ts, owner, path) /\ Down(ts, owner, path) /\ Up(ts, owner, path)
  /\ Shared(ts, pglv)

\* The tables are formed with some owners and paths.
TablesFormed == \E owner, path : Formed(tables, m_pglv, owner, path)

-----------------------------------------------------------------------------
(* Paths and entries *)

\* A set of numbers has a smallest one.
LEMMA SmallestExists ==
  ASSUME NEW S \in SUBSET Nat, S # {}
  PROVE  \E x \in S : \A y \in S : x <= y
<1>1. \E x \in S : \A y \in S : ~ (<<y, x>> \in OpToRel(<, Nat))
  BY NatLessThanWellFounded, WFMin, Zenon
<1>2. PICK x \in S : \A y \in S : ~ (y < x)
  BY <1>1 DEF OpToRel
<1> QED BY <1>2

\* The kernel is no process, and nobody owns nothing.
LEMMA OwnersDiffer == KernelOwner \notin Procs /\ Nobody \notin Owners
<1>1. KernelOwner \notin Procs
  BY NoSetContainsEverything DEF KernelOwner
<1>2. Nobody \notin Procs \cup {KernelOwner}
  BY Zenon, NoSetContainsEverything DEF Nobody
<1> QED BY <1>1, <1>2 DEF Owners

\* What the prefixes of a path are.
LEMMA PrefixFacts ==
  ASSUME Directories, NEW v \in Seq(Indices), Len(v) <= Levels, NEW k \in 0 .. Len(v)
  PROVE  /\ Prefix(v, k) \in Seq(Indices) /\ Len(Prefix(v, k)) = k
         /\ Prefix(v, 0) = <<>>
         /\ k > 0 => Prefix(v, k) # <<>>
         /\ k < Len(v) => Prefix(v, k + 1) = Append(Prefix(v, k), v[k + 1])
         /\ k < Levels => Prefix(v, k) \in Paths
         /\ k < Len(v) => v[k + 1] \in Indices
         /\ k >= 1 => Prefix(v, k)[1] = v[1]
         /\ Prefix(v, Len(v)) = v
         /\ SubSeq(v, 1, k) = Prefix(v, k)
<1>1. Levels \in Nat /\ k \in Nat /\ Len(v) \in Nat BY LenProperties DEF Directories
<1>2. v \in [1 .. Len(v) -> Indices] BY LenProperties
<1>3. Prefix(v, k) \in [1 .. k -> Indices] BY <1>1, <1>2 DEF Prefix
<1>4. Prefix(v, k) \in Seq(Indices) /\ Len(Prefix(v, k)) = k BY <1>1, <1>3
<1>5. ASSUME k < Len(v)
      PROVE  Prefix(v, k + 1) = Append(Prefix(v, k), v[k + 1]) /\ v[k + 1] \in Indices
  <2>1. v[k + 1] \in Indices BY <1>1, <1>2, <1>5
  <2> DEFINE a == Append(Prefix(v, k), v[k + 1])
             b == Prefix(v, k + 1)
  <2>2. a \in Seq(Indices) /\ Len(a) = k + 1 /\ a[k + 1] = v[k + 1]
        /\ \A j \in 1 .. k : a[j] = Prefix(v, k)[j]
    BY <1>4, <2>1, AppendProperties
  <2>3. b \in [1 .. k + 1 -> Indices] /\ \A j \in 1 .. k + 1 : b[j] = v[j] BY <1>1, <1>2, <1>5 DEF Prefix
  <2>4. b \in Seq(Indices) /\ Len(b) = k + 1 BY <1>1, <2>3
  <2>5. \A j \in 1 .. k : Prefix(v, k)[j] = v[j] BY DEF Prefix
  <2> HIDE DEF a, b
  <2>6. \A j \in 1 .. k + 1 : a[j] = b[j] BY <1>1, <2>2, <2>3, <2>5
  <2>7. a = b BY <2>2, <2>4, <2>6, SeqEqual
  <2> QED BY <2>1, <2>7 DEF a, b
<1>6. Prefix(v, 0) = <<>> BY DEF Prefix
<1>7. SubSeq(v, 1, k) = Prefix(v, k)
  <2> DEFINE s == SubSeq(v, 1, k)
  <2>1. s \in Seq(Indices) /\ Len(s) = (IF 1 <= k THEN k - 1 + 1 ELSE 0)
        /\ \A i \in 1 .. k - 1 + 1 : s[i] = v[1 + i - 1]
    BY <1>1, <1>2, SubSeqProperties
  <2> HIDE DEF s
  <2>2. \A i \in 1 .. k : s[i] = Prefix(v, k)[i] BY <1>1, <2>1 DEF Prefix
  <2>3. Len(s) = k BY <1>1, <2>1
  <2>4. s = Prefix(v, k) BY <1>4, <2>1, <2>2, <2>3, SeqEqual
  <2> QED BY <2>4 DEF s
<1>8. k < Levels => Prefix(v, k) \in Paths
  <2> SUFFICES ASSUME k < Levels
               PROVE  Prefix(v, k) \in Paths
    OBVIOUS
  <2>1. k \in 0 .. Levels - 1 BY <1>1
  <2> QED BY <1>3, <2>1 DEF Paths
<1>9. k > 0 => Prefix(v, k) # <<>> BY <1>4
<1>10. k >= 1 => Prefix(v, k)[1] = v[1] BY <1>1 DEF Prefix
<1>11. Prefix(v, Len(v)) = v
  <2>1. Prefix(v, Len(v)) \in [1 .. Len(v) -> Indices] BY <1>1, <1>2 DEF Prefix
  <2> QED BY <1>2, <2>1 DEF Prefix
<1> QED BY <1>2, <1>4, <1>5, <1>6, <1>7, <1>8, <1>9, <1>10, <1>11

-----------------------------------------------------------------------------
(* A directory as a tree of tables *)

\* Does an owner have a table at a path, and which?
Has(owner, path, o, a) == \E t \in DOMAIN owner : owner[t] = o /\ path[t] = a
TableAt(owner, path, o, a) == CHOOSE t \in DOMAIN owner : owner[t] = o /\ path[t] = a

\* A path and one index more.
LEMMA AppendFacts ==
  ASSUME NEW a \in Seq(Indices), NEW i \in Indices, NEW b \in Seq(Indices), NEW j \in Indices
  PROVE  /\ Append(a, i) \in Seq(Indices) /\ Append(a, i) # <<>> /\ Len(Append(a, i)) = Len(a) + 1
         /\ Append(a, i) = Append(b, j) => a = b /\ i = j
         /\ Len(a) \in Nat
<1>1. /\ Len(Append(a, i)) = Len(a) + 1 /\ Append(a, i)[Len(a) + 1] = i
      /\ \A k \in 1 .. Len(a) : Append(a, i)[k] = a[k]
  BY AppendProperties
<1>2. /\ Len(Append(b, j)) = Len(b) + 1 /\ Append(b, j)[Len(b) + 1] = j
      /\ \A k \in 1 .. Len(b) : Append(b, j)[k] = b[k]
  BY AppendProperties
<1>3. Len(a) \in Nat /\ Len(b) \in Nat BY LenProperties
<1>4. ASSUME Append(a, i) = Append(b, j)
      PROVE  a = b /\ i = j
  <2>1. Len(a) = Len(b) BY <1>1, <1>2, <1>3, <1>4
  <2>2. \A k \in 1 .. Len(a) : a[k] = b[k] BY <1>1, <1>2, <1>4, <2>1
  <2>3. a = b BY <2>1, <2>2, SeqEqual
  <2> QED BY <1>1, <1>2, <1>4, <2>1, <2>3
<1>5. Append(a, i) \in Seq(Indices) BY AppendProperties
<1>6. Append(a, i) # <<>> BY <1>1, <1>3, <1>5
<1> QED BY <1>1, <1>3, <1>4, <1>5, <1>6

\* A path has one parent, and at an index one child.
LEMMA ChildFacts ==
  ASSUME NEW a \in Seq(Indices), NEW i \in Indices, NEW b, Child(b, a, i)
  PROVE  /\ b \in Seq(Indices) /\ b # <<>> /\ Len(b) = Len(a) + 1
         /\ \A c \in Seq(Indices), j \in Indices :
              /\ Child(b, c, j) => a = c /\ i = j
              /\ Child(c, a, i) => b = c
<1>1. b \in Seq(Indices) /\ b # <<>> /\ Len(b) = Len(a) + 1 BY AppendFacts DEF Child
<1>2. ASSUME NEW c \in Seq(Indices), NEW j \in Indices
      PROVE  (Child(b, c, j) => a = c /\ i = j) /\ (Child(c, a, i) => b = c)
  <2>1. Append(a, i) = Append(c, j) => a = c /\ i = j BY AppendFacts
  <2> QED BY <2>1 DEF Child
<1> QED BY <1>1, <1>2

\* Paths are sequences of indices shorter than a page.
LEMMA PathsAreSequences ==
  ASSUME Directories, NEW a \in Paths
  PROVE  a \in Seq(Indices) /\ Len(a) \in 0 .. Levels - 1
<1>1. PICK k \in 0 .. Levels - 1 : a \in [1 .. k -> Indices] BY DEF Paths
<1>2. Levels \in Nat /\ k \in Nat BY <1>1 DEF Directories
<1>3. a \in Seq(Indices) /\ Len(a) = k BY <1>1, <1>2
<1> QED BY <1>3

\* And such sequences are paths.
LEMMA SequencesArePaths ==
  ASSUME Directories, NEW a \in Seq(Indices), Len(a) <= Levels - 1
  PROVE  a \in Paths
<1>1. Len(a) \in Nat /\ a \in [1 .. Len(a) -> Indices] BY LenProperties
<1>2. Len(a) \in 0 .. Levels - 1 BY <1>1 DEF Directories
<1> QED BY <1>1, <1>2 DEF Paths

\* What an entry that leads to a table says.
LEMMA LinkFacts ==
  ASSUME Directories, NEW o, NEW t \in Nat
  PROVE  /\ Link(o, t) \in AnyEntry /\ Link(o, t) # NoEntry
         /\ Link(o, t).addr = t /\ Link(o, t).user = (o \in Procs) /\ Link(o, t).write = TRUE
<1>1. (o \in Procs) \in BOOLEAN OBVIOUS
<1>2. Link(o, t) \in AnyEntry BY <1>1 DEF Link, Skel, AnyEntry
<1> QED BY <1>1, <1>2 DEF Link, Skel, Directories

\* What an entry that leads to a page says.
LEMMA LeafFacts ==
  ASSUME Directories, NEW o, NEW e \in Leaves(o)
  PROVE  /\ e \in AnyEntry /\ e # NoEntry /\ e.user = (o \in Procs)
         /\ e.addr \in Pages /\ e.write \in BOOLEAN /\ (o \notin Procs => e.write = TRUE)
         /\ e = Skel(e.addr, e.user, e.write)
<1>1. CASE o \in Procs
  <2>1. e \in [addr : Pages, user : {TRUE}, write : BOOLEAN] BY <1>1 DEF Leaves
  <2>2. e \in AnyEntry BY <2>1 DEF AnyEntry
  <2>3. e.user = TRUE /\ e.addr \in Pages /\ e.write \in BOOLEAN BY <2>1
  <2>4. e = Skel(e.addr, e.user, e.write) BY <2>1 DEF Skel
  <2>5. e.user = (o \in Procs) BY <1>1, <2>3
  <2> QED BY <1>1, <2>2, <2>3, <2>4, <2>5 DEF Directories
<1>2. CASE o \notin Procs
  <2>1. e \in [addr : Pages, user : {FALSE}, write : {TRUE}] BY <1>2 DEF Leaves
  <2>2. e \in AnyEntry BY <2>1 DEF AnyEntry
  <2>3. e.user = FALSE /\ e.addr \in Pages /\ e.write = TRUE BY <2>1
  <2>4. e = Skel(e.addr, e.user, e.write) BY <2>1 DEF Skel
  <2>5. e.user = (o \in Procs)
    <3>1. (o \in Procs) = FALSE BY <1>2
    <3> HIDE <1>2
    <3> QED BY <2>3, <3>1
  <2> QED BY <1>2, <2>2, <2>3, <2>4, <2>5 DEF Directories
<1> QED BY <1>1, <1>2

\* An owner has one table at a path.
LEMMA TableFacts ==
  ASSUME Directories, NEW ts, NEW pglv, NEW owner, NEW path, Formed(ts, pglv, owner, path),
         NEW o \in Owners, NEW a
  PROVE  /\ Has(owner, path, o, a) =>
              /\ TableAt(owner, path, o, a) \in 1 .. Len(ts)
              /\ owner[TableAt(owner, path, o, a)] = o /\ path[TableAt(owner, path, o, a)] = a
         /\ \A t \in 1 .. Len(ts) : owner[t] = o /\ path[t] = a =>
              Has(owner, path, o, a) /\ TableAt(owner, path, o, a) = t
         /\ 1 .. Len(ts) \subseteq Nat /\ Len(ts) \in Nat \ {0} /\ DOMAIN owner = 1 .. Len(ts)
<1>1. Len(ts) \in Nat \ {0} /\ DOMAIN owner = 1 .. Len(ts)
  <2>1. Len(ts) \in Nat BY LenProperties DEF Formed, Typed
  <2> QED BY <2>1 DEF Formed, Typed
<1>2. ASSUME Has(owner, path, o, a)
      PROVE  /\ TableAt(owner, path, o, a) \in 1 .. Len(ts)
             /\ owner[TableAt(owner, path, o, a)] = o /\ path[TableAt(owner, path, o, a)] = a
  BY <1>1, <1>2 DEF Has, TableAt
<1>3. ASSUME NEW t \in 1 .. Len(ts), owner[t] = o, path[t] = a
      PROVE  Has(owner, path, o, a) /\ TableAt(owner, path, o, a) = t
  <2>1. Has(owner, path, o, a) BY <1>1, <1>3 DEF Has
  <2> QED BY <1>2, <1>3, <2>1 DEF Formed, Apart
<1> QED BY <1>1, <1>2, <1>3

\* What an entry above the last level leads to.
LEMMA EntryFacts ==
  ASSUME Directories, NEW ts, NEW pglv, NEW owner, NEW path, Formed(ts, pglv, owner, path),
         NEW o \in Owners, NEW a, NEW t \in 1 .. Len(ts), owner[t] = o, path[t] = a,
         NEW i \in Indices, Own(o, a, i), Len(a) # Levels - 1, NEW b, Child(b, a, i)
  PROVE  ts[t][i] = IF Has(owner, path, o, b) THEN Link(o, TableAt(owner, path, o, b)) ELSE NoEntry
<1>1. a \in Seq(Indices) /\ b # <<>>
  <2>1. a \in Seq(Indices) BY PathsAreSequences DEF Formed, Typed
  <2> QED BY <2>1, ChildFacts
<1>2. CASE ts[t][i] # NoEntry
  <2>1. PICK u \in 1 .. Len(ts) : ts[t][i] = Link(o, u) /\ owner[u] = o /\ path[u] = b
    <3>1. PICK u \in 1 .. Len(ts) : ts[t][i] = Link(o, u) /\ owner[u] = o /\ Child(path[u], a, i)
      BY <1>2 DEF Formed, Down
    <3>2. path[u] \in Seq(Indices) BY PathsAreSequences DEF Formed, Typed
    <3>3. path[u] = b BY <1>1, <3>1, <3>2, ChildFacts
    <3> QED BY <3>1, <3>3
  <2>2. Has(owner, path, o, b) /\ TableAt(owner, path, o, b) = u BY <2>1, TableFacts
  <2> QED BY <2>1, <2>2
<1>3. CASE ts[t][i] = NoEntry
  <2>1. SUFFICES ASSUME Has(owner, path, o, b)
                 PROVE  FALSE
    BY <1>3
  <2>2. PICK u \in 1 .. Len(ts) : owner[u] = o /\ path[u] = b BY <2>1, TableFacts
  <2>3. PICK w \in 1 .. Len(ts), j \in Indices :
          owner[w] = o /\ Child(b, path[w], j) /\ ts[w][j] = Link(o, u)
    <3>1. owner[u] \in Owners /\ path[u] # <<>> BY <1>1, <2>2
    <3> QED BY <2>2, <3>1 DEF Formed, Up
  <2>4. path[w] \in Seq(Indices) BY PathsAreSequences DEF Formed, Typed
  <2>5. path[w] = a /\ j = i BY <1>1, <2>3, <2>4, ChildFacts
  <2>6. w = t BY <2>3, <2>5 DEF Formed, Apart
  <2>7. u \in Nat BY TableFacts
  <2> QED BY <1>3, <2>3, <2>5, <2>6, <2>7, LinkFacts
<1> QED BY <1>2, <1>3

\* Who has a table has also the one above it.
LEMMA ParentFacts ==
  ASSUME Directories, NEW ts, NEW pglv, NEW owner, NEW path, Formed(ts, pglv, owner, path),
         NEW o \in Owners, NEW a \in Seq(Indices), NEW i \in Indices,
         NEW b, Child(b, a, i), Has(owner, path, o, b)
  PROVE  Has(owner, path, o, a) /\ Own(o, a, i) /\ Len(a) < Levels - 1
<1>1. PICK u \in 1 .. Len(ts) : owner[u] = o /\ path[u] = b BY TableFacts
<1>2. b # <<>> BY ChildFacts
<1>3. PICK w \in 1 .. Len(ts), j \in Indices :
        owner[w] = o /\ Child(b, path[w], j) /\ Own(o, path[w], j)
  BY <1>1, <1>2 DEF Formed, Up
<1>4. path[w] \in Seq(Indices) BY PathsAreSequences DEF Formed, Typed
<1>5. path[w] = a /\ j = i BY <1>3, <1>4, ChildFacts
<1>6. Has(owner, path, o, a) BY <1>3, <1>5, TableFacts
<1>7. Len(b) \in 0 .. Levels - 1 BY <1>1, PathsAreSequences DEF Formed, Typed
<1>8. Len(b) = Len(a) + 1 /\ Len(a) \in Nat BY ChildFacts
<1> QED BY <1>3, <1>5, <1>6, <1>7, <1>8 DEF Directories

-----------------------------------------------------------------------------
(* What a walk finds *)

\* The directories that are in use.
LiveRoots(pglv) == {Kernel} \cup {pglv[p] : p \in {x \in Procs : pglv[x] # 0}}

\* From directory r, a path leads through tables of o.
Way(pglv, o, r, a) ==
  \/ o \in Procs /\ r = pglv[o] /\ r # 0 /\ (Len(a) > 0 => a[1] \notin Tops)
  \/ o = KernelOwner /\ r \in LiveRoots(pglv) /\ (Len(a) > 0 => a[1] \in Tops)

\* The entry for page v in the last table.
Look(ts, owner, path, o, v) ==
  IF Has(owner, path, o, Prefix(v, Levels - 1))
    THEN ts[TableAt(owner, path, o, Prefix(v, Levels - 1))][v[Levels]] ELSE NoEntry

\* What a walk from directory r of owner o along a meets at level k.
Met(ts, owner, path, o, r, a, k) ==
  IF k = 0 THEN Skel(r, TRUE, TRUE)
  ELSE IF k = Levels THEN Look(ts, owner, path, o, a)
  ELSE IF Has(owner, path, o, Prefix(a, k)) THEN Link(o, TableAt(owner, path, o, Prefix(a, k)))
  ELSE NoEntry

\* Directories are owned, and the kernel's entries are in all of them.
LEMMA RootFacts ==
  ASSUME Directories, NEW ts, NEW pglv, NEW owner, NEW path, Formed(ts, pglv, owner, path)
  PROVE  /\ \A p \in Procs : pglv[p] # 0 =>
              /\ pglv[p] \in 1 .. Len(ts) /\ owner[pglv[p]] = p /\ path[pglv[p]] = <<>>
         /\ Kernel \in 1 .. Len(ts) /\ owner[Kernel] = KernelOwner /\ path[Kernel] = <<>>
         /\ LiveRoots(pglv) \subseteq 1 .. Len(ts)
         /\ \A r \in LiveRoots(pglv), i \in Tops : ts[r][i] = ts[Kernel][i]
<1>1. Len(ts) \in Nat \ {0} BY TableFacts, OwnersDiffer DEF Owners
<1>2. ASSUME NEW p \in Procs, pglv[p] # 0
      PROVE  pglv[p] \in 1 .. Len(ts) /\ owner[pglv[p]] = p /\ path[pglv[p]] = <<>>
  <2>1. pglv[p] \in 0 .. Len(ts) BY DEF Formed, Typed
  <2>2. p \in Owners /\ p # KernelOwner BY OwnersDiffer DEF Owners
  <2>3. Root(pglv, p) = pglv[p] BY <2>2 DEF Root
  <2>4. owner[pglv[p]] = p /\ path[pglv[p]] = <<>> BY <1>2, <2>2, <2>3 DEF Formed, Rooted
  <2> QED BY <1>1, <1>2, <2>1, <2>4
<1>3. Kernel \in 1 .. Len(ts) /\ owner[Kernel] = KernelOwner /\ path[Kernel] = <<>>
  <2>1. KernelOwner \in Owners /\ Root(pglv, KernelOwner) = Kernel BY DEF Owners, Root
  <2>2. Kernel # 0 BY DEF Kernel
  <2>3. owner[Kernel] = KernelOwner /\ path[Kernel] = <<>> BY <2>1, <2>2 DEF Formed, Rooted
  <2> QED BY <1>1, <2>3 DEF Kernel
<1>4. LiveRoots(pglv) \subseteq 1 .. Len(ts) BY <1>2, <1>3 DEF LiveRoots
<1>5. \A r \in LiveRoots(pglv), i \in Tops : ts[r][i] = ts[Kernel][i]
  BY DEF LiveRoots, Formed, Shared
<1> QED BY <1>2, <1>3, <1>4, <1>5

\* Met, level by level.
LEMMA MetFacts ==
  ASSUME Directories, NEW ts, NEW owner, NEW path, NEW o, NEW r, NEW a, NEW k \in Nat
  PROVE  /\ k = 0 => Met(ts, owner, path, o, r, a, k) = Skel(r, TRUE, TRUE)
         /\ k # 0 /\ k # Levels => Met(ts, owner, path, o, r, a, k) =
              IF Has(owner, path, o, Prefix(a, k)) THEN Link(o, TableAt(owner, path, o, Prefix(a, k)))
              ELSE NoEntry
         /\ k = Levels => Met(ts, owner, path, o, r, a, k) = Look(ts, owner, path, o, a)
<1> Levels # 0 BY DEF Directories
<1> QED BY DEF Met

\* The walk's next entry is what Met says, if the tables are formed.
LEMMA MetNext ==
  ASSUME Directories, NEW ts, NEW pglv, NEW owner, NEW path, Formed(ts, pglv, owner, path),
         NEW o, NEW r, NEW a \in Seq(Indices), Len(a) <= Levels, Way(pglv, o, r, a),
         NEW k \in 0 .. Len(a) - 1
  PROVE  Met(ts, owner, path, o, r, a, k + 1) =
           IF Met(ts, owner, path, o, r, a, k) = NoEntry THEN NoEntry
           ELSE ts[Met(ts, owner, path, o, r, a, k).addr][a[k + 1]]
<1> DEFINE x == Prefix(a, k)
           y == Prefix(a, k + 1)
           i == a[k + 1]
<1>1. Levels \in Nat /\ Levels >= 2 /\ Len(a) \in Nat /\ k \in Nat /\ k < Len(a) /\ k < Levels
  BY LenProperties DEF Directories
<1>2. x \in Seq(Indices) /\ i \in Indices /\ Child(y, x, i) /\ Len(x) = k
  BY <1>1, PrefixFacts DEF Child
<1>3. o \in Owners BY DEF Way, Owners
<1>4. CASE k = 0
  <2>1. x = <<>> /\ i = a[1] BY <1>1, <1>4, PrefixFacts
  <2>2. r \in 1 .. Len(ts) /\ r \in LiveRoots(pglv) BY RootFacts DEF Way, LiveRoots
  <2>3. ts[r][i] = ts[Root(pglv, o)][i] /\ Own(o, <<>>, i)
    <3>1. CASE o \in Procs
      <4>1. o # KernelOwner BY <3>1, OwnersDiffer
      <4> QED BY <1>1, <1>4, <2>1, <4>1 DEF Way, Own, Root
    <3>2. CASE o = KernelOwner
      <4>1. o \notin Procs BY <3>2, OwnersDiffer
      <4>2. i \in Tops BY <1>1, <1>4, <2>1, <4>1 DEF Way
      <4> QED BY <2>2, <3>2, <4>2, RootFacts DEF Own, Root
    <3> QED BY <1>3, <3>1, <3>2 DEF Owners
  <2>4. PICK t \in 1 .. Len(ts) : t = Root(pglv, o) /\ owner[t] = o /\ path[t] = <<>>
    BY <1>3, OwnersDiffer, RootFacts DEF Way, Root, Owners
  <2>5. Len(path[t]) # Levels - 1 BY <1>1, <2>4
  <2>6. ts[t][i] = IF Has(owner, path, o, y) THEN Link(o, TableAt(owner, path, o, y)) ELSE NoEntry
    <3>1. path[t] = x BY <2>1, <2>4
    <3>2. Own(o, x, i) /\ Len(x) # Levels - 1 BY <1>1, <1>2, <1>4, <2>1, <2>3
    <3> HIDE DEF x, i, y
    <3> QED BY <1>2, <1>3, <2>4, <3>1, <3>2, EntryFacts
  <2>7. Met(ts, owner, path, o, r, a, k + 1) = ts[r][i]
    <3>1. k + 1 \in Nat /\ k + 1 # 0 /\ k + 1 # Levels BY <1>1, <1>4
    <3>2. Met(ts, owner, path, o, r, a, k + 1) =
            IF Has(owner, path, o, y) THEN Link(o, TableAt(owner, path, o, y)) ELSE NoEntry
      BY <3>1, MetFacts
    <3> QED BY <2>3, <2>4, <2>6, <3>2
  <2>8. Met(ts, owner, path, o, r, a, k) = Skel(r, TRUE, TRUE) BY <1>4 DEF Met
  <2>9. Skel(r, TRUE, TRUE) # NoEntry /\ Skel(r, TRUE, TRUE).addr = r
    <3>1. r \in Nat BY <2>2, TableFacts, <1>3
    <3>2. Skel(r, TRUE, TRUE) \in AnyEntry BY <3>1 DEF Skel, AnyEntry
    <3> QED BY <3>2 DEF Skel, Directories
  <2> QED BY <2>7, <2>8, <2>9
<1>5. CASE k # 0
  <2>1. Met(ts, owner, path, o, r, a, k) =
          IF Has(owner, path, o, x) THEN Link(o, TableAt(owner, path, o, x)) ELSE NoEntry
    <3> k \in Nat /\ k # 0 /\ k # Levels BY <1>1, <1>5
    <3> QED BY MetFacts
  <2>2. k + 1 = Levels => Met(ts, owner, path, o, r, a, k + 1) =
          IF Has(owner, path, o, x) THEN ts[TableAt(owner, path, o, x)][i] ELSE NoEntry
    <3> SUFFICES ASSUME k + 1 = Levels
                 PROVE  Met(ts, owner, path, o, r, a, k + 1) =
                          IF Has(owner, path, o, x) THEN ts[TableAt(owner, path, o, x)][i] ELSE NoEntry
      OBVIOUS
    <3>1. Met(ts, owner, path, o, r, a, k + 1) = Look(ts, owner, path, o, a)
      <4> k + 1 \in Nat BY <1>1
      <4> QED BY MetFacts
    <3>2. k = Levels - 1 /\ i = a[Levels] BY <1>1
    <3>3. x = Prefix(a, Levels - 1) BY <3>2
    <3> QED BY <3>1, <3>2, <3>3 DEF Look
  <2>3. k + 1 # Levels => Met(ts, owner, path, o, r, a, k + 1) =
          IF Has(owner, path, o, y) THEN Link(o, TableAt(owner, path, o, y)) ELSE NoEntry
    <3> k + 1 \in Nat /\ k + 1 # 0 BY <1>1
    <3> QED BY MetFacts
  <2> DEFINE now == Met(ts, owner, path, o, r, a, k)
             next == Met(ts, owner, path, o, r, a, k + 1)
  <2> SUFFICES next = IF now = NoEntry THEN NoEntry ELSE ts[now.addr][i]
    OBVIOUS
  <2>4. x # <<>> BY <1>1, <1>5, PrefixFacts
  <2> HIDE DEF x, i, y, now, next
  <2>5. CASE Has(owner, path, o, x)
    <3>1. PICK t \in 1 .. Len(ts) : t = TableAt(owner, path, o, x) /\ owner[t] = o /\ path[t] = x
      BY <1>3, <2>5, TableFacts
    <3>2. now = Link(o, t) /\ t \in Nat BY <2>1, <2>5, <3>1, TableFacts, <1>3 DEF now
    <3>3. now # NoEntry /\ now.addr = t BY <3>2, LinkFacts
    <3>4. k + 1 = Levels => next = ts[t][i] BY <2>2, <2>5, <3>1 DEF next
    <3>5. ASSUME k + 1 # Levels
          PROVE  next = ts[t][i]
      <4>1. Len(x) # Levels - 1 BY <1>1, <1>2, <3>5
      <4>2. Own(o, x, i) BY <2>4 DEF Own
      <4>3. ts[t][i] = IF Has(owner, path, o, y) THEN Link(o, TableAt(owner, path, o, y)) ELSE NoEntry
        BY <1>2, <1>3, <3>1, <4>1, <4>2, EntryFacts
      <4> QED BY <2>3, <3>5, <4>3 DEF next
    <3> QED BY <3>3, <3>4, <3>5
  <2>6. CASE ~ Has(owner, path, o, x)
    <3>1. ~ Has(owner, path, o, y) BY <1>2, <1>3, <2>6, ParentFacts
    <3> QED BY <2>1, <2>2, <2>3, <2>6, <3>1 DEF now, next
  <2> QED BY <2>5, <2>6
<1> QED BY <1>4, <1>5

\* Walk, as one function.
IsWalk(walk, levels, root, a) ==
  walk = [k \in 0 .. Len(a) |->
            IF k = 0 THEN Skel(root, TRUE, TRUE)
            ELSE IF walk[k - 1] = NoEntry THEN NoEntry
            ELSE levels[walk[k - 1].addr][a[k]]]

\* A walk meets the tables of the path's owner.
LEMMA WalkFacts ==
  ASSUME Directories, NEW ts, NEW pglv, NEW owner, NEW path, Formed(ts, pglv, owner, path),
         NEW o, NEW r, NEW a \in Seq(Indices), Len(a) <= Levels, Way(pglv, o, r, a)
  PROVE  \A k \in 0 .. Len(a) : Walk(ts, r, a)[k] = Met(ts, owner, path, o, r, a, k)
<1> DEFINE met == [k \in 0 .. Len(a) |-> Met(ts, owner, path, o, r, a, k)]
           f == CHOOSE g : IsWalk(g, ts, r, a)
           Bad == {k \in Nat : k \in 0 .. Len(a) /\ f[k] # met[k]}
<1>1. Len(a) \in Nat BY LenProperties
<1>2. IsWalk(met, ts, r, a)
  <2>1. SUFFICES ASSUME NEW k \in 0 .. Len(a)
                 PROVE  met[k] = IF k = 0 THEN Skel(r, TRUE, TRUE)
                                 ELSE IF met[k - 1] = NoEntry THEN NoEntry
                                 ELSE ts[met[k - 1].addr][a[k]]
    BY DEF IsWalk
  <2>2. CASE k = 0 BY <1>1, <2>2 DEF Met
  <2>3. CASE k # 0
    <3>1. PICK j \in 0 .. Len(a) - 1 : k = j + 1
      <4> k - 1 \in 0 .. Len(a) - 1 BY <1>1, <2>3
      <4> QED BY <1>1
    <3>2. /\ met[k] = Met(ts, owner, path, o, r, a, j + 1) /\ k - 1 = j
          /\ met[j] = Met(ts, owner, path, o, r, a, j)
      BY <1>1, <3>1
    <3> HIDE DEF met
    <3> QED BY <2>3, <3>1, <3>2, MetNext
  <2> QED BY <2>2, <2>3
<1>3. IsWalk(f, ts, r, a)
  <2> HIDE DEF met
  <2> QED BY <1>2
<1>4. Walk(ts, r, a) = f BY DEF Walk, IsWalk
<1> HIDE DEF f
<1>5. SUFFICES ASSUME Bad # {}
               PROVE  FALSE
  BY <1>1, <1>4
<1>6. PICK m \in Bad : \A n \in Bad : m <= n
  <2> Bad \in SUBSET Nat OBVIOUS
  <2> HIDE DEF Bad
  <2> QED BY <1>5, SmallestExists
<1>7. m # 0
  <2>1. 0 \in 0 .. Len(a) BY <1>1
  <2>2. f[0] = Skel(r, TRUE, TRUE) /\ met[0] = Skel(r, TRUE, TRUE)
    BY <1>2, <1>3, <2>1 DEF IsWalk, Met
  <2> QED BY <1>6, <2>2
<1>8. PICK n \in 0 .. Len(a) : m = n + 1 /\ n = m - 1
  <2> m - 1 \in 0 .. Len(a) BY <1>1, <1>6, <1>7
  <2> QED BY <1>1, <1>6
<1>9. f[n] = met[n]
  <2>1. n \in Nat /\ ~ (m <= n) BY <1>1, <1>8
  <2>2. n \notin Bad BY <1>6, <2>1
  <2> QED BY <1>8, <2>1, <2>2
<1>10. f[m] = IF f[n] = NoEntry THEN NoEntry ELSE ts[f[n].addr][a[m]]
  <2> m \in 0 .. Len(a) BY <1>6
  <2> QED BY <1>3, <1>7, <1>8 DEF IsWalk
<1>11. met[m] = IF met[n] = NoEntry THEN NoEntry ELSE ts[met[n].addr][a[m]]
  <2> m \in 0 .. Len(a) BY <1>6
  <2> HIDE DEF met
  <2> QED BY <1>2, <1>7, <1>8 DEF IsWalk
<1> HIDE DEF met
<1>12. f[m] = met[m] BY <1>9, <1>10, <1>11
<1> QED BY <1>6, <1>12

\* With a table all those on the way to it are there.
LEMMA WayClosed ==
  ASSUME Directories, NEW ts, NEW pglv, NEW owner, NEW path, Formed(ts, pglv, owner, path),
         NEW o \in Owners, NEW a \in Seq(Indices), Len(a) <= Levels, NEW n \in 0 .. Len(a),
         Has(owner, path, o, Prefix(a, n)), NEW k \in 0 .. n
  PROVE  Has(owner, path, o, Prefix(a, k))
<1> DEFINE Bad == {d \in Nat : d \in 0 .. n /\ ~ Has(owner, path, o, Prefix(a, n - d))}
<1>1. Len(a) \in Nat /\ Levels \in Nat /\ n \in Nat /\ k \in Nat BY LenProperties DEF Directories
<1>2. SUFFICES ASSUME Bad # {}
               PROVE  FALSE
  <2>1. n - k \in Nat /\ n - k \in 0 .. n /\ n - (n - k) = k BY <1>1
  <2>2. n - k \notin Bad BY <1>2
  <2> QED BY <2>1, <2>2
<1>3. PICK m \in Bad : \A d \in Bad : m <= d
  <2> Bad \in SUBSET Nat OBVIOUS
  <2> HIDE DEF Bad
  <2> QED BY <1>2, SmallestExists
<1>4. m # 0
  <2>1. n - 0 = n BY <1>1
  <2> QED BY <1>3, <2>1
<1>5. PICK d \in 0 .. n : m = d + 1
  <2> m - 1 \in 0 .. n BY <1>1, <1>3, <1>4
  <2> QED BY <1>1, <1>3
<1>6. Has(owner, path, o, Prefix(a, n - d))
  <2>1. d \in Nat /\ ~ (m <= d) BY <1>1, <1>5
  <2>2. d \notin Bad BY <1>3, <2>1
  <2> QED BY <2>1, <2>2
<1> DEFINE i == n - m
<1>7. i \in 0 .. Len(a) /\ i < Len(a) /\ n - d = i + 1 BY <1>1, <1>3, <1>5
<1>8. Has(owner, path, o, Prefix(a, i + 1)) BY <1>6, <1>7
<1>9. ~ Has(owner, path, o, Prefix(a, i)) BY <1>3
<1> HIDE DEF i
<1>10. /\ Prefix(a, i) \in Seq(Indices) /\ a[i + 1] \in Indices
       /\ Child(Prefix(a, i + 1), Prefix(a, i), a[i + 1])
  BY <1>7, PrefixFacts DEF Child
<1> QED BY <1>8, <1>9, <1>10, ParentFacts

\* A page as a path, and the path of the table that it is in.
LEMMA PagePaths ==
  ASSUME Directories, NEW v \in [1 .. Levels -> Indices]
  PROVE  /\ v \in Seq(Indices) /\ Len(v) = Levels
         /\ Prefix(v, Levels - 1) \in Seq(Indices) /\ Len(Prefix(v, Levels - 1)) = Levels - 1
         /\ Prefix(v, Levels - 1) # <<>> /\ Prefix(v, Levels - 1)[1] = v[1]
         /\ v[Levels] \in Indices /\ v[1] \in Indices
<1>1. Levels \in Nat /\ Levels >= 2 BY DEF Directories
<1>2. v \in Seq(Indices) /\ Len(v) = Levels BY <1>1
<1>3. Levels - 1 \in 0 .. Len(v) /\ Levels - 1 > 0 /\ Levels - 1 >= 1 BY <1>1, <1>2
<1> QED BY <1>1, <1>2, <1>3, PrefixFacts

\* What an owner maps a page to has the owner's rights.
LEMMA LookIsLeaf ==
  ASSUME Directories, NEW ts, NEW pglv, NEW owner, NEW path, Formed(ts, pglv, owner, path),
         NEW o \in Owners, NEW v \in [1 .. Levels -> Indices], Look(ts, owner, path, o, v) # NoEntry
  PROVE  Look(ts, owner, path, o, v) \in Leaves(o) /\ Has(owner, path, o, Prefix(v, Levels - 1))
<1> DEFINE a == Prefix(v, Levels - 1)
<1>1. a \in Seq(Indices) /\ Len(a) = Levels - 1 /\ a # <<>> /\ v[Levels] \in Indices BY PagePaths
<1>2. /\ Has(owner, path, o, a)
      /\ Look(ts, owner, path, o, v) = ts[TableAt(owner, path, o, a)][v[Levels]]
  BY DEF Look
<1> HIDE DEF a
<1>3. PICK t \in 1 .. Len(ts) : t = TableAt(owner, path, o, a) /\ owner[t] = o /\ path[t] = a
  BY <1>2, TableFacts
<1>4. Own(o, a, v[Levels]) BY <1>1 DEF Own
<1>5. ts[t][v[Levels]] \in Leaves(o) BY <1>1, <1>2, <1>3, <1>4 DEF Formed, Down
<1> QED BY <1>2, <1>3, <1>5 DEF a

\* Translate, of any tables.
TranslateIn(ts, root, v) ==
  LET e == Walk(ts, root, v) IN
  IF root = 0 \/ e[Levels] = NoEntry THEN NoEntry
  ELSE Skel(e[Levels].addr, \A k \in 1 .. Levels : e[k].user, \A k \in 1 .. Levels : e[k].write)

\* The rights of all entries together are those of the last.
LEMMA TranslateFacts ==
  ASSUME Directories, NEW ts, NEW pglv, NEW owner, NEW path, Formed(ts, pglv, owner, path),
         NEW o, NEW r, NEW v \in [1 .. Levels -> Indices], Way(pglv, o, r, v)
  PROVE  TranslateIn(ts, r, v) = Look(ts, owner, path, o, v)
<1> DEFINE e == Walk(ts, r, v)
           look == Look(ts, owner, path, o, v)
<1>1. Levels \in Nat /\ Levels >= 2 BY DEF Directories
<1>2. v \in Seq(Indices) /\ Len(v) = Levels BY PagePaths
<1>3. o \in Owners BY DEF Way, Owners
<1>4. \A k \in 0 .. Levels : e[k] = Met(ts, owner, path, o, r, v, k) BY <1>1, <1>2, WalkFacts
<1>5. e[Levels] = look
  <2>1. Levels \in 0 .. Levels BY <1>1
  <2> QED BY Zenon, <1>1, <1>4, <2>1, MetFacts
<1>6. r # 0
  <2>1. r \in 1 .. Len(ts) BY RootFacts DEF Way, LiveRoots
  <2> QED BY <2>1
<1>7. CASE look = NoEntry BY <1>5, <1>7 DEF TranslateIn
<1>8. CASE look # NoEntry
  <2>1. look \in Leaves(o) /\ Has(owner, path, o, Prefix(v, Levels - 1)) BY <1>3, <1>8, LookIsLeaf
  <2>2. \A k \in 1 .. Levels - 1 : e[k].user = (o \in Procs) /\ e[k].write = TRUE
    <3> SUFFICES ASSUME NEW k \in 1 .. Levels - 1
                 PROVE  e[k].user = (o \in Procs) /\ e[k].write = TRUE
      OBVIOUS
    <3> DEFINE a == Prefix(v, k)
    <3>1. Levels - 1 \in 0 .. Len(v) /\ k \in 0 .. Levels - 1 BY <1>1, <1>2
    <3>2. Has(owner, path, o, a) BY <1>1, <1>2, <1>3, <2>1, <3>1, WayClosed
    <3>3. e[k] = Link(o, TableAt(owner, path, o, a))
      <4>1. k \in Nat /\ k # 0 /\ k # Levels /\ k \in 0 .. Levels BY <1>1
      <4> QED BY <1>4, <3>2, <4>1, MetFacts
    <3> HIDE DEF a, e
    <3>4. TableAt(owner, path, o, a) \in Nat BY <1>3, <3>2, TableFacts
    <3> QED BY <3>3, <3>4, LinkFacts
  <2>3. /\ look.user = (o \in Procs) /\ look.write \in BOOLEAN
        /\ look = Skel(look.addr, look.user, look.write)
    <3> HIDE DEF look
    <3> QED BY <2>1, LeafFacts
  <2> HIDE DEF e, look
  <2> DEFINE allUser == \A k \in 1 .. Levels : e[k].user
             allWrite == \A k \in 1 .. Levels : e[k].write
  <2>4. \A k \in 1 .. Levels : e[k].user = (o \in Procs) /\ e[k].write = IF k = Levels THEN look.write ELSE TRUE
    <3> SUFFICES ASSUME NEW k \in 1 .. Levels
                 PROVE  e[k].user = (o \in Procs) /\ e[k].write = IF k = Levels THEN look.write ELSE TRUE
      OBVIOUS
    <3>1. k = Levels \/ (k # Levels /\ k \in 1 .. Levels - 1) BY <1>1
    <3> QED BY <1>5, <2>2, <2>3, <3>1
  <2>5. Levels \in 1 .. Levels BY <1>1
  <2>6. allUser <=> (o \in Procs) BY <2>4, <2>5
  <2>7. allWrite <=> (look.write = TRUE) BY <2>4, <2>5
  <2>8. allUser = look.user /\ allWrite = look.write
    <3> allUser \in BOOLEAN /\ allWrite \in BOOLEAN /\ (o \in Procs) \in BOOLEAN OBVIOUS
    <3> HIDE DEF allUser, allWrite
    <3> QED BY <2>3, <2>6, <2>7
  <2>9. TranslateIn(ts, r, v) = Skel(e[Levels].addr, allUser, allWrite)
    BY <1>5, <1>6, <1>8 DEF TranslateIn, e
  <2> HIDE DEF allUser, allWrite
  <2>10. TranslateIn(ts, r, v) = Skel(look.addr, look.user, look.write) BY <1>5, <2>8, <2>9, Zenon
  <2> QED BY <2>3, <2>10 DEF look
<1> QED BY <1>7, <1>8 DEF look

\* What the directories map is what the tables of their owners hold.
LEMMA MapFacts ==
  ASSUME Directories, NEW ts, NEW pglv, NEW owner, NEW path, Formed(ts, pglv, owner, path)
  PROVE  /\ \A p \in Procs, v \in UserPages : TranslateIn(ts, pglv[p], v) = Look(ts, owner, path, p, v)
         /\ \A r \in LiveRoots(pglv), v \in KernelPages :
              TranslateIn(ts, r, v) = Look(ts, owner, path, KernelOwner, v)
<1>1. ASSUME NEW p \in Procs, NEW v \in UserPages
      PROVE  TranslateIn(ts, pglv[p], v) = Look(ts, owner, path, p, v)
  <2>1. v \in [1 .. Levels -> Indices] /\ v[1] \notin Tops BY DEF Directories
  <2>2. CASE pglv[p] # 0
    <3>1. Way(pglv, p, pglv[p], v) BY <2>1, <2>2 DEF Way
    <3> QED BY <2>1, <3>1, TranslateFacts
  <2>3. CASE pglv[p] = 0
    <3>1. ~ Has(owner, path, p, Prefix(v, Levels - 1))
      <4>1. p \in Owners BY DEF Owners
      <4>2. \A t \in 1 .. Len(ts) : owner[t] # p BY <2>3 DEF Formed, Rooted
      <4> QED BY <4>1, <4>2, TableFacts
    <3> QED BY <2>3, <3>1 DEF TranslateIn, Look
  <2> QED BY <2>2, <2>3
<1>2. ASSUME NEW r \in LiveRoots(pglv), NEW v \in KernelPages
      PROVE  TranslateIn(ts, r, v) = Look(ts, owner, path, KernelOwner, v)
  <2>1. v \in [1 .. Levels -> Indices] /\ v[1] \in Tops BY DEF Directories, Tops
  <2>2. Way(pglv, KernelOwner, r, v) BY <2>1 DEF Way
  <2> QED BY <2>1, <2>2, TranslateFacts
<1> QED BY <1>1, <1>2

-----------------------------------------------------------------------------
(* One page is mapped, and the tables that are missing on the way are made *)

\* The table of level k when page v is mapped, of which those from level f on are new.
Node(n, t0, f, k) == IF k = f THEN t0 ELSE n + k - f

\* From table t0 on, where the way to page v ends at level f, it goes on through new tables.
Grown(ts, ts2, o, v, f, t0, e) ==
  /\ ts2 \in Seq([Indices -> AnyEntry \cup {NoEntry}])
  /\ Len(ts2) = Len(ts) + Levels - f
  /\ \A k \in f .. Levels :
       ts2[Node(Len(ts), t0, f, k)][v[k]] =
         IF k = Levels THEN e ELSE Link(o, Node(Len(ts), t0, f, k + 1))
  /\ \A t \in 1 .. Len(ts2), i \in Indices :
       (\A k \in f .. Levels : ~ (t = Node(Len(ts), t0, f, k) /\ i = v[k])) =>
         ts2[t][i] = IF t <= Len(ts) THEN ts[t][i] ELSE NoEntry

\* Who owns the tables after that, and their paths.
GrownOwner(owner, n, m, o) == [t \in 1 .. m |-> IF t <= n THEN owner[t] ELSE o]
GrownPath(path, n, m, v, f) == [t \in 1 .. m |-> IF t <= n THEN path[t] ELSE Prefix(v, t - n + f - 1)]

\* Owner o has the tables for v down to level f, which is t0, and none below.
WayEnds(ts, owner, path, o, v, f, t0) ==
  /\ o \in Owners /\ v \in [1 .. Levels -> Indices] /\ Own(o, <<>>, v[1])
  /\ f \in 1 .. Levels /\ (o = KernelOwner => f >= 2)
  /\ t0 \in 1 .. Len(ts) /\ owner[t0] = o /\ path[t0] = Prefix(v, f - 1)
  /\ f < Levels => ~ Has(owner, path, o, Prefix(v, f))

\* The path of a table on the way to a page.
LEMMA PagePrefix ==
  ASSUME Directories, NEW v \in [1 .. Levels -> Indices], NEW k \in 1 .. Levels
  PROVE  /\ Prefix(v, k - 1) \in Seq(Indices) /\ Len(Prefix(v, k - 1)) = k - 1
         /\ Prefix(v, k - 1) \in Paths /\ v[k] \in Indices /\ k \in Nat
         /\ Child(Prefix(v, k), Prefix(v, k - 1), v[k])
         /\ k = 1 => Prefix(v, k - 1) = <<>>
         /\ k > 1 => Prefix(v, k - 1) # <<>>
<1>1. Levels \in Nat /\ k \in Nat /\ v \in Seq(Indices) /\ Len(v) = Levels BY PagePaths DEF Directories
<1> DEFINE j == k - 1
<1>2. j \in 0 .. Len(v) /\ j < Len(v) /\ j < Levels /\ j + 1 = k BY <1>1
<1> HIDE DEF j
<1>3. /\ Prefix(v, j) \in Seq(Indices) /\ Len(Prefix(v, j)) = j /\ Prefix(v, 0) = <<>>
      /\ (j > 0 => Prefix(v, j) # <<>>) /\ Prefix(v, j + 1) = Append(Prefix(v, j), v[j + 1])
      /\ Prefix(v, j) \in Paths /\ v[j + 1] \in Indices
  BY <1>1, <1>2, PrefixFacts
<1>4. (k = 1 => j = 0) /\ (k > 1 => j > 0) BY <1>1, <1>2
<1> QED BY <1>1, <1>2, <1>3, <1>4 DEF Child, j

\* A page is its table and its last index.
LEMMA PageEqual ==
  ASSUME Directories, NEW v \in [1 .. Levels -> Indices], NEW w \in [1 .. Levels -> Indices],
         Prefix(v, Levels - 1) = Prefix(w, Levels - 1), v[Levels] = w[Levels]
  PROVE  v = w
<1>1. Levels \in Nat BY DEF Directories
<1>2. ASSUME NEW k \in 1 .. Levels
      PROVE  v[k] = w[k]
  <2>1. CASE k = Levels BY <2>1
  <2>2. CASE k # Levels
    <3>1. k \in 1 .. Levels - 1 BY <1>1, <2>2
    <3>2. Prefix(v, Levels - 1)[k] = v[k] /\ Prefix(w, Levels - 1)[k] = w[k] BY <3>1 DEF Prefix
    <3> QED BY <3>2
  <2> QED BY <2>1, <2>2
<1>3. v \in Seq(Indices) /\ w \in Seq(Indices) /\ Len(v) = Levels /\ Len(w) = Levels BY PagePaths
<1> QED BY <1>2, <1>3, SeqEqual

\* The owner has no table at a path where a new one is put.
LEMMA WayEndsFacts ==
  ASSUME Directories, NEW ts, NEW pglv, NEW owner, NEW path, Formed(ts, pglv, owner, path),
         NEW o, NEW v, NEW f, NEW t0, WayEnds(ts, owner, path, o, v, f, t0)
  PROVE  \A k \in f + 1 .. Levels, t \in 1 .. Len(ts) :
           ~ (owner[t] = o /\ path[t] = Prefix(v, k - 1))
<1> SUFFICES ASSUME NEW k \in f + 1 .. Levels, NEW t \in 1 .. Len(ts),
                    owner[t] = o, path[t] = Prefix(v, k - 1)
             PROVE  FALSE
  OBVIOUS
<1>1. Levels \in Nat /\ f \in 1 .. Levels /\ f < Levels /\ k - 1 \in 0 .. Levels /\ f \in 0 .. k - 1
  BY DEF Directories, WayEnds
<1>2. o \in Owners /\ v \in [1 .. Levels -> Indices] BY DEF WayEnds
<1>3. v \in Seq(Indices) /\ Len(v) = Levels BY <1>2, PagePaths
<1>4. Has(owner, path, o, Prefix(v, k - 1)) BY <1>2, TableFacts
<1> DEFINE n == k - 1
<1>5. n \in 0 .. Len(v) /\ f \in 0 .. n /\ Len(v) <= Levels BY <1>1, <1>3
<1> HIDE DEF n
<1>6. Has(owner, path, o, Prefix(v, f)) BY <1>2, <1>3, <1>4, <1>5, WayClosed DEF n
<1> QED BY <1>1, <1>6 DEF WayEnds

\* The new tables are the owner's, at their paths, and the old ones stay.
LEMMA GrownFacts ==
  ASSUME Directories, NEW ts, NEW ts2, NEW pglv, NEW owner, NEW path, Formed(ts, pglv, owner, path),
         NEW o, NEW v, NEW f, NEW t0, NEW e, WayEnds(ts, owner, path, o, v, f, t0),
         Grown(ts, ts2, o, v, f, t0, e), NEW owner2, NEW path2,
         owner2 = GrownOwner(owner, Len(ts), Len(ts2), o),
         path2 = GrownPath(path, Len(ts), Len(ts2), v, f)
  PROVE  /\ \A t \in 1 .. Len(ts) : t \in 1 .. Len(ts2) /\ owner2[t] = owner[t] /\ path2[t] = path[t]
         /\ \A k \in f .. Levels :
              /\ Node(Len(ts), t0, f, k) \in 1 .. Len(ts2)
              /\ owner2[Node(Len(ts), t0, f, k)] = o /\ path2[Node(Len(ts), t0, f, k)] = Prefix(v, k - 1)
              /\ k # f => ~ (Node(Len(ts), t0, f, k) <= Len(ts))
              /\ k = f => Node(Len(ts), t0, f, k) = t0
         /\ \A t \in 1 .. Len(ts2) : t \in 1 .. Len(ts) \/
              \E k \in f + 1 .. Levels : t = Node(Len(ts), t0, f, k)
<1> DEFINE n == Len(ts)
<1>1. n \in Nat /\ Levels \in Nat /\ f \in 1 .. Levels /\ t0 \in 1 .. n /\ Len(ts2) = n + Levels - f
  <2> o \in Owners BY DEF WayEnds
  <2> QED BY TableFacts DEF WayEnds, Grown, Directories
<1>2. ASSUME NEW t \in 1 .. n
      PROVE  t \in 1 .. Len(ts2) /\ owner2[t] = owner[t] /\ path2[t] = path[t]
  <2>1. t \in 1 .. Len(ts2) /\ t <= n BY <1>1
  <2> QED BY <2>1 DEF GrownOwner, GrownPath
<1>3. ASSUME NEW k \in f .. Levels
      PROVE  /\ Node(n, t0, f, k) \in 1 .. Len(ts2)
             /\ owner2[Node(n, t0, f, k)] = o /\ path2[Node(n, t0, f, k)] = Prefix(v, k - 1)
             /\ k # f => ~ (Node(n, t0, f, k) <= n)
             /\ k = f => Node(n, t0, f, k) = t0
  <2>1. CASE k = f BY <1>1, <1>2, <2>1 DEF Node, WayEnds
  <2>2. CASE k # f
    <3> DEFINE t == Node(n, t0, f, k)
    <3>1. t = n + k - f /\ k > f BY <1>1, <2>2 DEF Node
    <3>2. t \in 1 .. Len(ts2) /\ ~ (t <= n) /\ t - n + f - 1 = k - 1 BY <1>1, <3>1
    <3> HIDE DEF t
    <3>3. owner2[t] = o /\ path2[t] = Prefix(v, k - 1) BY <3>2 DEF GrownOwner, GrownPath
    <3> QED BY <2>2, <3>2, <3>3 DEF t
  <2> QED BY <2>1, <2>2
<1>4. ASSUME NEW t \in 1 .. Len(ts2), t \notin 1 .. n
      PROVE  \E k \in f + 1 .. Levels : t = Node(n, t0, f, k)
  <2>1. t - n + f \in f + 1 .. Levels /\ n + (t - n + f) - f = t /\ t - n + f # f BY <1>1, <1>4
  <2> QED BY <2>1 DEF Node
<1> QED BY <1>2, <1>3, <1>4

\* Where an entry has been written.
Spot(n, t0, v, f, t, i) == \E k \in f .. Levels : t = Node(n, t0, f, k) /\ i = v[k]

\* What the entries are that are not.
LEMMA SpotFacts ==
  ASSUME Directories, NEW ts, NEW ts2, NEW pglv, NEW owner, NEW path, Formed(ts, pglv, owner, path),
         NEW o, NEW v, NEW f, NEW t0, NEW e, WayEnds(ts, owner, path, o, v, f, t0),
         Grown(ts, ts2, o, v, f, t0, e)
  PROVE  /\ \A t \in 1 .. Len(ts), i \in Indices :
              /\ Spot(Len(ts), t0, v, f, t, i) => t = t0 /\ i = v[f]
              /\ ~ Spot(Len(ts), t0, v, f, t, i) => ts2[t][i] = ts[t][i]
         /\ \A t \in 1 .. Len(ts2), i \in Indices :
              t \notin 1 .. Len(ts) /\ ~ Spot(Len(ts), t0, v, f, t, i) => ts2[t][i] = NoEntry
<1> DEFINE owner2 == GrownOwner(owner, Len(ts), Len(ts2), o)
           path2 == GrownPath(path, Len(ts), Len(ts2), v, f)
<1>1. /\ \A t \in 1 .. Len(ts) : t \in 1 .. Len(ts2)
      /\ \A k \in f .. Levels :
           /\ k # f => ~ (Node(Len(ts), t0, f, k) <= Len(ts))
           /\ k = f => Node(Len(ts), t0, f, k) = t0
  BY GrownFacts
<1>2. Len(ts) \in Nat
  <2> o \in Owners BY DEF WayEnds
  <2> QED BY TableFacts
<1>3. ASSUME NEW t \in 1 .. Len(ts2), NEW i \in Indices, ~ Spot(Len(ts), t0, v, f, t, i)
      PROVE  ts2[t][i] = IF t <= Len(ts) THEN ts[t][i] ELSE NoEntry
  BY <1>3 DEF Grown, Spot
<1>4. ASSUME NEW t \in 1 .. Len(ts), NEW i \in Indices, Spot(Len(ts), t0, v, f, t, i)
      PROVE  t = t0 /\ i = v[f]
  <2>1. PICK k \in f .. Levels : t = Node(Len(ts), t0, f, k) /\ i = v[k] BY <1>4 DEF Spot
  <2>2. k = f BY <1>1, <1>2, <2>1
  <2> QED BY <1>1, <2>1, <2>2
<1>5. ASSUME NEW t \in 1 .. Len(ts2), t \notin 1 .. Len(ts)
      PROVE  ~ (t <= Len(ts))
  <2> Len(ts2) \in Nat BY LenProperties DEF Grown
  <2> QED BY <1>2, <1>5
<1> QED BY <1>1, <1>2, <1>3, <1>4, <1>5

\* Tables that are grown stay formed: owners and paths,
LEMMA GrownTyped ==
  ASSUME Directories, NEW ts, NEW ts2, NEW pglv, NEW owner, NEW path, Formed(ts, pglv, owner, path),
         NEW o, NEW v, NEW f, NEW t0, NEW e, WayEnds(ts, owner, path, o, v, f, t0),
         Grown(ts, ts2, o, v, f, t0, e), NEW owner2, NEW path2,
         owner2 = GrownOwner(owner, Len(ts), Len(ts2), o),
         path2 = GrownPath(path, Len(ts), Len(ts2), v, f)
  PROVE  Typed(ts2, pglv, owner2, path2) /\ Rooted(ts2, pglv, owner2, path2) /\ Apart(ts2, owner2, path2)
<1>1. /\ \A t \in 1 .. Len(ts) : t \in 1 .. Len(ts2) /\ owner2[t] = owner[t] /\ path2[t] = path[t]
      /\ \A k \in f .. Levels :
           /\ Node(Len(ts), t0, f, k) \in 1 .. Len(ts2)
           /\ owner2[Node(Len(ts), t0, f, k)] = o /\ path2[Node(Len(ts), t0, f, k)] = Prefix(v, k - 1)
      /\ \A t \in 1 .. Len(ts2) : t \in 1 .. Len(ts) \/
           \E k \in f + 1 .. Levels : t = Node(Len(ts), t0, f, k)
  BY GrownFacts
<1>2. o \in Owners /\ v \in [1 .. Levels -> Indices] /\ f \in 1 .. Levels /\ Levels \in Nat
  BY DEF WayEnds, Directories
<1>3. Len(ts) \in Nat \ {0} /\ Len(ts2) \in Nat
  <2>1. Len(ts2) \in Nat BY LenProperties DEF Grown
  <2> QED BY <1>2, <2>1, TableFacts
<1>4. \A k \in f + 1 .. Levels : k \in f .. Levels /\ k \in 1 .. Levels /\ k \in Nat BY <1>2
<1>5. \A t \in 1 .. Len(ts2) : owner2[t] \in Owners \cup {Nobody} /\ path2[t] \in Paths
  <2> SUFFICES ASSUME NEW t \in 1 .. Len(ts2)
               PROVE  owner2[t] \in Owners \cup {Nobody} /\ path2[t] \in Paths
    OBVIOUS
  <2>1. CASE t \in 1 .. Len(ts) BY <1>1, <2>1 DEF Formed, Typed
  <2>2. CASE t \notin 1 .. Len(ts)
    <3>1. PICK k \in f + 1 .. Levels : t = Node(Len(ts), t0, f, k) BY <1>1, <2>2
    <3>2. owner2[t] = o /\ path2[t] = Prefix(v, k - 1) BY <1>1, <1>4, <3>1
    <3> QED BY <1>2, <1>4, <3>2, PagePrefix
  <2> QED BY <2>1, <2>2
<1>6. Typed(ts2, pglv, owner2, path2)
  <2>1. Len(ts2) >= 1
    <3> 1 \in 1 .. Len(ts2) BY <1>1, <1>3
    <3> QED BY <1>3
  <2>2. pglv \in [Procs -> 0 .. Len(ts2)]
    <3>1. pglv \in [Procs -> 0 .. Len(ts)] BY DEF Formed, Typed
    <3>2. \A r \in 0 .. Len(ts) : r \in 0 .. Len(ts2) BY <1>1, <1>3
    <3> QED BY <3>1, <3>2
  <2>3. owner2 \in [1 .. Len(ts2) -> Owners \cup {Nobody}] BY <1>5 DEF GrownOwner
  <2>4. path2 \in [1 .. Len(ts2) -> Paths] BY <1>5 DEF GrownPath
  <2> QED BY <2>1, <2>2, <2>3, <2>4 DEF Typed, Grown
<1>7. Rooted(ts2, pglv, owner2, path2)
  <2>1. ASSUME NEW x \in Owners, Root(pglv, x) # 0
        PROVE  owner2[Root(pglv, x)] = x /\ path2[Root(pglv, x)] = <<>>
    <3>1. owner[Root(pglv, x)] = x /\ path[Root(pglv, x)] = <<>> BY <2>1 DEF Formed, Rooted
    <3>2. Root(pglv, x) \in 1 .. Len(ts) BY <2>1, RootFacts DEF Root, Owners
    <3> QED BY <1>1, <3>1, <3>2
  <2>2. ASSUME NEW t \in 1 .. Len(ts2), owner2[t] \in Procs
        PROVE  pglv[owner2[t]] # 0
    <3>1. CASE t \in 1 .. Len(ts) BY <1>1, <2>2, <3>1 DEF Formed, Rooted
    <3>2. CASE t \notin 1 .. Len(ts)
      <4>1. PICK k \in f + 1 .. Levels : t = Node(Len(ts), t0, f, k) BY <1>1, <3>2
      <4>2. owner2[t] = o BY <1>1, <1>4, <4>1
      <4>3. owner[t0] = o /\ t0 \in 1 .. Len(ts) BY DEF WayEnds
      <4> QED BY <2>2, <4>2, <4>3 DEF Formed, Rooted
    <3> QED BY <3>1, <3>2
  <2> QED BY <2>1, <2>2 DEF Rooted
<1>8. Apart(ts2, owner2, path2)
  <2> SUFFICES ASSUME NEW t \in 1 .. Len(ts2), NEW u \in 1 .. Len(ts2),
                      owner2[t] \in Owners, owner2[t] = owner2[u], path2[t] = path2[u]
               PROVE  t = u
    BY DEF Apart
  <2>1. \A k \in f + 1 .. Levels, w \in 1 .. Len(ts) : ~ (owner[w] = o /\ path[w] = Prefix(v, k - 1))
    BY WayEndsFacts
  <2>2. CASE t \in 1 .. Len(ts) /\ u \in 1 .. Len(ts) BY <1>1, <2>2 DEF Formed, Apart
  <2>3. CASE t \in 1 .. Len(ts) /\ u \notin 1 .. Len(ts)
    <3>1. PICK k \in f + 1 .. Levels : u = Node(Len(ts), t0, f, k) BY <1>1, <2>3
    <3>2. owner2[u] = o /\ path2[u] = Prefix(v, k - 1) BY <1>1, <1>4, <3>1
    <3> QED BY <1>1, <2>1, <2>3, <3>2
  <2>4. CASE t \notin 1 .. Len(ts) /\ u \in 1 .. Len(ts)
    <3>1. PICK k \in f + 1 .. Levels : t = Node(Len(ts), t0, f, k) BY <1>1, <2>4
    <3>2. owner2[t] = o /\ path2[t] = Prefix(v, k - 1) BY <1>1, <1>4, <3>1
    <3> QED BY <1>1, <2>1, <2>4, <3>2
  <2>5. CASE t \notin 1 .. Len(ts) /\ u \notin 1 .. Len(ts)
    <3>1. PICK k \in f + 1 .. Levels : t = Node(Len(ts), t0, f, k) BY <1>1, <2>5
    <3>2. PICK j \in f + 1 .. Levels : u = Node(Len(ts), t0, f, j) BY <1>1, <2>5
    <3>3. path2[t] = Prefix(v, k - 1) /\ path2[u] = Prefix(v, j - 1) BY <1>1, <1>4, <3>1, <3>2
    <3>4. Len(path2[t]) = k - 1 /\ Len(path2[u]) = j - 1 BY <1>2, <1>4, <3>3, PagePrefix
    <3>5. k = j BY <1>4, <3>4
    <3> QED BY <3>1, <3>2, <3>5
  <2> QED BY <2>2, <2>3, <2>4, <2>5
<1> QED BY <1>6, <1>7, <1>8

\* the links down,
LEMMA GrownDown ==
  ASSUME Directories, NEW ts, NEW ts2, NEW pglv, NEW owner, NEW path, Formed(ts, pglv, owner, path),
         NEW o, NEW v, NEW f, NEW t0, NEW e \in Leaves(o), WayEnds(ts, owner, path, o, v, f, t0),
         Grown(ts, ts2, o, v, f, t0, e), NEW owner2, NEW path2,
         owner2 = GrownOwner(owner, Len(ts), Len(ts2), o),
         path2 = GrownPath(path, Len(ts), Len(ts2), v, f)
  PROVE  Down(ts2, owner2, path2)
<1>1. /\ \A t \in 1 .. Len(ts) : t \in 1 .. Len(ts2) /\ owner2[t] = owner[t] /\ path2[t] = path[t]
      /\ \A k \in f .. Levels :
           /\ Node(Len(ts), t0, f, k) \in 1 .. Len(ts2)
           /\ owner2[Node(Len(ts), t0, f, k)] = o /\ path2[Node(Len(ts), t0, f, k)] = Prefix(v, k - 1)
           /\ k # f => ~ (Node(Len(ts), t0, f, k) <= Len(ts))
           /\ k = f => Node(Len(ts), t0, f, k) = t0
      /\ \A t \in 1 .. Len(ts2) : t \in 1 .. Len(ts) \/
           \E k \in f + 1 .. Levels : t = Node(Len(ts), t0, f, k)
  BY GrownFacts
<1>2. /\ o \in Owners /\ v \in [1 .. Levels -> Indices] /\ f \in 1 .. Levels
      /\ Levels \in Nat /\ Levels >= 2
  BY DEF WayEnds, Directories
<1>3. /\ \A t \in 1 .. Len(ts), i \in Indices :
           /\ Spot(Len(ts), t0, v, f, t, i) => t = t0 /\ i = v[f]
           /\ ~ Spot(Len(ts), t0, v, f, t, i) => ts2[t][i] = ts[t][i]
      /\ \A t \in 1 .. Len(ts2), i \in Indices :
           t \notin 1 .. Len(ts) /\ ~ Spot(Len(ts), t0, v, f, t, i) => ts2[t][i] = NoEntry
  BY SpotFacts
<1>4. \A k \in f .. Levels :
        /\ ts2[Node(Len(ts), t0, f, k)][v[k]] = IF k = Levels THEN e ELSE Link(o, Node(Len(ts), t0, f, k + 1))
        /\ k \in 1 .. Levels /\ k \in Nat /\ (k # Levels => k + 1 \in f .. Levels)
  BY <1>2 DEF Grown
<1>5. /\ t0 \in 1 .. Len(ts) /\ owner[t0] = o /\ path[t0] = Prefix(v, f - 1) /\ Own(o, <<>>, v[1])
      /\ (o = KernelOwner => f >= 2) /\ (f < Levels => ~ Has(owner, path, o, Prefix(v, f)))
  BY DEF WayEnds
<1>6. \A k \in 1 .. Levels :
        /\ Prefix(v, k - 1) \in Seq(Indices) /\ Len(Prefix(v, k - 1)) = k - 1
        /\ v[k] \in Indices /\ k \in Nat /\ Child(Prefix(v, k), Prefix(v, k - 1), v[k])
        /\ k = 1 => Prefix(v, k - 1) = <<>>
        /\ k > 1 => Prefix(v, k - 1) # <<>>
  BY <1>2, PagePrefix
<1> SUFFICES ASSUME NEW t \in 1 .. Len(ts2), NEW i \in Indices, owner2[t] \in Owners,
                    Own(owner2[t], path2[t], i), ts2[t][i] # NoEntry
             PROVE  IF Len(path2[t]) = Levels - 1 THEN ts2[t][i] \in Leaves(owner2[t])
                    ELSE \E u \in 1 .. Len(ts2) :
                           /\ ts2[t][i] = Link(owner2[t], u)
                           /\ owner2[u] = owner2[t] /\ Child(path2[u], path2[t], i)
  BY DEF Down
<1>7. CASE Spot(Len(ts), t0, v, f, t, i)
  <2>1. PICK k \in f .. Levels : t = Node(Len(ts), t0, f, k) /\ i = v[k] BY <1>7 DEF Spot
  <2>2. /\ owner2[t] = o /\ path2[t] = Prefix(v, k - 1) /\ Len(path2[t]) = k - 1
        /\ ts2[t][i] = IF k = Levels THEN e ELSE Link(o, Node(Len(ts), t0, f, k + 1))
    BY <1>1, <1>4, <1>6, <2>1
  <2>3. CASE k = Levels BY <2>2, <2>3
  <2>4. CASE k # Levels
    <3> DEFINE u == Node(Len(ts), t0, f, k + 1)
               j == k + 1
    <3>1. j \in f .. Levels /\ j - 1 = k BY <1>4, <2>4
    <3>2. u \in 1 .. Len(ts2) /\ owner2[u] = o /\ path2[u] = Prefix(v, k)
      <4> HIDE DEF j
      <4>1. Node(Len(ts), t0, f, j) \in 1 .. Len(ts2) /\ owner2[Node(Len(ts), t0, f, j)] = o
            /\ path2[Node(Len(ts), t0, f, j)] = Prefix(v, j - 1)
        BY <1>1, <3>1
      <4> QED BY <3>1, <4>1 DEF j
    <3>3. ts2[t][i] = Link(o, u) BY <2>2, <2>4
    <3> HIDE DEF u
    <3>4. Child(path2[u], path2[t], i) BY <1>4, <1>6, <2>1, <2>2, <3>2
    <3>5. Len(path2[t]) # Levels - 1 BY <1>2, <1>4, <2>2, <2>4
    <3> QED BY <2>2, <3>2, <3>3, <3>4, <3>5
  <2> QED BY <2>3, <2>4
<1>8. CASE ~ Spot(Len(ts), t0, v, f, t, i)
  <2>1. t \in 1 .. Len(ts) /\ ts2[t][i] = ts[t][i] BY <1>3, <1>8
  <2>2. owner2[t] = owner[t] /\ path2[t] = path[t] BY <1>1, <2>1
  <2>3. IF Len(path[t]) = Levels - 1 THEN ts[t][i] \in Leaves(owner[t])
        ELSE \E u \in 1 .. Len(ts) :
               ts[t][i] = Link(owner[t], u) /\ owner[u] = owner[t] /\ Child(path[u], path[t], i)
    BY <2>1, <2>2 DEF Formed, Down
  <2> QED BY <1>1, <2>1, <2>2, <2>3
<1> QED BY <1>7, <1>8

\* the links up,
LEMMA GrownUp ==
  ASSUME Directories, NEW ts, NEW ts2, NEW pglv, NEW owner, NEW path, Formed(ts, pglv, owner, path),
         NEW o, NEW v, NEW f, NEW t0, NEW e \in Leaves(o), WayEnds(ts, owner, path, o, v, f, t0),
         Grown(ts, ts2, o, v, f, t0, e), NEW owner2, NEW path2,
         owner2 = GrownOwner(owner, Len(ts), Len(ts2), o),
         path2 = GrownPath(path, Len(ts), Len(ts2), v, f)
  PROVE  Up(ts2, owner2, path2)
<1>1. /\ \A t \in 1 .. Len(ts) : t \in 1 .. Len(ts2) /\ owner2[t] = owner[t] /\ path2[t] = path[t]
      /\ \A k \in f .. Levels :
           /\ Node(Len(ts), t0, f, k) \in 1 .. Len(ts2)
           /\ owner2[Node(Len(ts), t0, f, k)] = o /\ path2[Node(Len(ts), t0, f, k)] = Prefix(v, k - 1)
           /\ k # f => ~ (Node(Len(ts), t0, f, k) <= Len(ts))
           /\ k = f => Node(Len(ts), t0, f, k) = t0
      /\ \A t \in 1 .. Len(ts2) : t \in 1 .. Len(ts) \/
           \E k \in f + 1 .. Levels : t = Node(Len(ts), t0, f, k)
  BY GrownFacts
<1>2. /\ o \in Owners /\ v \in [1 .. Levels -> Indices] /\ f \in 1 .. Levels
      /\ Levels \in Nat /\ Levels >= 2
  BY DEF WayEnds, Directories
<1>3. /\ \A t \in 1 .. Len(ts), i \in Indices :
           /\ Spot(Len(ts), t0, v, f, t, i) => t = t0 /\ i = v[f]
           /\ ~ Spot(Len(ts), t0, v, f, t, i) => ts2[t][i] = ts[t][i]
      /\ \A t \in 1 .. Len(ts2), i \in Indices :
           t \notin 1 .. Len(ts) /\ ~ Spot(Len(ts), t0, v, f, t, i) => ts2[t][i] = NoEntry
  BY SpotFacts
<1>4. \A k \in f .. Levels :
        /\ ts2[Node(Len(ts), t0, f, k)][v[k]] = IF k = Levels THEN e ELSE Link(o, Node(Len(ts), t0, f, k + 1))
        /\ k \in 1 .. Levels /\ k \in Nat /\ (k # Levels => k + 1 \in f .. Levels)
  BY <1>2 DEF Grown
<1>5. /\ t0 \in 1 .. Len(ts) /\ owner[t0] = o /\ path[t0] = Prefix(v, f - 1) /\ Own(o, <<>>, v[1])
      /\ (o = KernelOwner => f >= 2) /\ (f < Levels => ~ Has(owner, path, o, Prefix(v, f)))
  BY DEF WayEnds
<1>6. \A k \in 1 .. Levels :
        /\ Prefix(v, k - 1) \in Seq(Indices) /\ Len(Prefix(v, k - 1)) = k - 1
        /\ v[k] \in Indices /\ k \in Nat /\ Child(Prefix(v, k), Prefix(v, k - 1), v[k])
        /\ k = 1 => Prefix(v, k - 1) = <<>>
        /\ k > 1 => Prefix(v, k - 1) # <<>>
  BY <1>2, PagePrefix
<1> SUFFICES ASSUME NEW t \in 1 .. Len(ts2), owner2[t] \in Owners, path2[t] # <<>>
             PROVE  \E u \in 1 .. Len(ts2), i \in Indices :
                      /\ owner2[u] = owner2[t] /\ Child(path2[t], path2[u], i)
                      /\ Own(owner2[t], path2[u], i) /\ ts2[u][i] = Link(owner2[t], t)
  BY DEF Up
<1>7. CASE t \in 1 .. Len(ts)
  <2>1. owner2[t] = owner[t] /\ path2[t] = path[t] BY <1>1, <1>7
  <2>2. PICK u \in 1 .. Len(ts), i \in Indices :
          /\ owner[u] = owner[t] /\ Child(path[t], path[u], i)
          /\ Own(owner[t], path[u], i) /\ ts[u][i] = Link(owner[t], t)
    BY <1>7, <2>1 DEF Formed, Up
  <2>3. ~ Spot(Len(ts), t0, v, f, u, i)
    <3> SUFFICES ASSUME Spot(Len(ts), t0, v, f, u, i)
                 PROVE  FALSE
      OBVIOUS
    <3>1. u = t0 /\ i = v[f] BY <1>3
    <3>2. owner[t] = o /\ Child(path[t], Prefix(v, f - 1), v[f]) BY <1>5, <2>2, <3>1
    <3>3. path[t] \in Seq(Indices) /\ Len(path[t]) \in 0 .. Levels - 1
      BY <1>7, PathsAreSequences DEF Formed, Typed
    <3>4. Len(path[t]) = f - 1 + 1 BY <1>2, <1>6, <3>2, ChildFacts
    <3>5. f < Levels BY <1>2, <3>3, <3>4
    <3>6. Prefix(v, f) \in Seq(Indices)
      <4> f \in 0 .. Len(v) BY <1>2, PagePaths
      <4> QED BY <1>2, PrefixFacts, PagePaths
    <3>7. Child(Prefix(v, f), Prefix(v, f - 1), v[f]) /\ Prefix(v, f - 1) \in Seq(Indices) /\ v[f] \in Indices
      BY <1>2, <1>6
    <3>8. path[t] = Prefix(v, f) BY <3>2, <3>3, <3>6, <3>7, ChildFacts
    <3>9. Has(owner, path, o, Prefix(v, f)) BY <1>2, <1>7, <3>2, <3>8, TableFacts
    <3> QED BY <1>5, <3>5, <3>9
  <2>4. ts2[u][i] = ts[u][i] /\ owner2[u] = owner[u] /\ path2[u] = path[u] /\ u \in 1 .. Len(ts2)
    BY <1>1, <1>3, <2>2, <2>3
  <2> QED BY <2>1, <2>2, <2>4
<1>8. CASE t \notin 1 .. Len(ts)
  <2>1. PICK k \in f + 1 .. Levels : t = Node(Len(ts), t0, f, k) BY <1>1, <1>8
  <2>2. k \in f .. Levels /\ k - 1 \in f .. Levels /\ k - 1 # Levels /\ k - 1 + 1 = k /\ k - 1 \in 1 .. Levels
        /\ k \in Nat /\ k > 1
    BY <1>2
  <2> DEFINE j == k - 1
             u == Node(Len(ts), t0, f, j)
  <2>3. owner2[t] = o /\ path2[t] = Prefix(v, j) BY <1>1, <2>1, <2>2
  <2>4. j \in f .. Levels /\ j # Levels /\ j + 1 = k /\ j \in 1 .. Levels BY <2>2
  <2> HIDE DEF j
  <2>5. u \in 1 .. Len(ts2) /\ owner2[u] = o /\ path2[u] = Prefix(v, j - 1) BY <1>1, <2>4
  <2>6. ts2[u][v[j]] = Link(o, t) BY <1>4, <2>1, <2>4
  <2>7. Child(path2[t], path2[u], v[j]) /\ v[j] \in Indices BY <1>6, <2>3, <2>4, <2>5
  <2>8. Own(o, path2[u], v[j])
    <3>1. CASE j = 1 BY <1>5, <1>6, <2>4, <2>5, <3>1
    <3>2. CASE j # 1
      <4> j > 1 BY <2>4, <3>2
      <4> QED BY <1>6, <2>4, <2>5 DEF Own
    <3> QED BY <3>1, <3>2
  <2> QED BY <2>3, <2>5, <2>6, <2>7, <2>8
<1> QED BY <1>7, <1>8

\* and the kernel's entries in all directories.
LEMMA GrownShared ==
  ASSUME Directories, NEW ts, NEW ts2, NEW pglv, NEW owner, NEW path, Formed(ts, pglv, owner, path),
         NEW o, NEW v, NEW f, NEW t0, NEW e \in Leaves(o), WayEnds(ts, owner, path, o, v, f, t0),
         Grown(ts, ts2, o, v, f, t0, e), NEW owner2, NEW path2,
         owner2 = GrownOwner(owner, Len(ts), Len(ts2), o),
         path2 = GrownPath(path, Len(ts), Len(ts2), v, f)
  PROVE  Shared(ts2, pglv)
<1>1. /\ \A t \in 1 .. Len(ts) : t \in 1 .. Len(ts2) /\ owner2[t] = owner[t] /\ path2[t] = path[t]
      /\ \A k \in f .. Levels :
           /\ Node(Len(ts), t0, f, k) \in 1 .. Len(ts2)
           /\ owner2[Node(Len(ts), t0, f, k)] = o /\ path2[Node(Len(ts), t0, f, k)] = Prefix(v, k - 1)
           /\ k # f => ~ (Node(Len(ts), t0, f, k) <= Len(ts))
           /\ k = f => Node(Len(ts), t0, f, k) = t0
      /\ \A t \in 1 .. Len(ts2) : t \in 1 .. Len(ts) \/
           \E k \in f + 1 .. Levels : t = Node(Len(ts), t0, f, k)
  BY GrownFacts
<1>2. /\ o \in Owners /\ v \in [1 .. Levels -> Indices] /\ f \in 1 .. Levels
      /\ Levels \in Nat /\ Levels >= 2
  BY DEF WayEnds, Directories
<1>3. /\ \A t \in 1 .. Len(ts), i \in Indices :
           /\ Spot(Len(ts), t0, v, f, t, i) => t = t0 /\ i = v[f]
           /\ ~ Spot(Len(ts), t0, v, f, t, i) => ts2[t][i] = ts[t][i]
      /\ \A t \in 1 .. Len(ts2), i \in Indices :
           t \notin 1 .. Len(ts) /\ ~ Spot(Len(ts), t0, v, f, t, i) => ts2[t][i] = NoEntry
  BY SpotFacts
<1>4. \A k \in f .. Levels :
        /\ ts2[Node(Len(ts), t0, f, k)][v[k]] = IF k = Levels THEN e ELSE Link(o, Node(Len(ts), t0, f, k + 1))
        /\ k \in 1 .. Levels /\ k \in Nat /\ (k # Levels => k + 1 \in f .. Levels)
  BY <1>2 DEF Grown
<1>5. /\ t0 \in 1 .. Len(ts) /\ owner[t0] = o /\ path[t0] = Prefix(v, f - 1) /\ Own(o, <<>>, v[1])
      /\ (o = KernelOwner => f >= 2) /\ (f < Levels => ~ Has(owner, path, o, Prefix(v, f)))
  BY DEF WayEnds
<1>6. \A k \in 1 .. Levels :
        /\ Prefix(v, k - 1) \in Seq(Indices) /\ Len(Prefix(v, k - 1)) = k - 1
        /\ v[k] \in Indices /\ k \in Nat /\ Child(Prefix(v, k), Prefix(v, k - 1), v[k])
        /\ k = 1 => Prefix(v, k - 1) = <<>>
        /\ k > 1 => Prefix(v, k - 1) # <<>>
  BY <1>2, PagePrefix
<1>7. /\ \A p \in Procs : pglv[p] # 0 =>
           pglv[p] \in 1 .. Len(ts) /\ owner[pglv[p]] = p /\ path[pglv[p]] = <<>>
      /\ Kernel \in 1 .. Len(ts) /\ owner[Kernel] = KernelOwner /\ path[Kernel] = <<>>
  BY RootFacts
<1>8. Tops \subseteq Indices
  <2>1. \A w \in KernelPages : w \in [1 .. Levels -> Indices] BY DEF Directories
  <2>2. \A w \in KernelPages : w[1] \in Indices BY <2>1, PagePaths
  <2> QED BY <2>2 DEF Tops
<1>9. path[t0] = <<>> => f = 1
  <2>1. f > 1 => Prefix(v, f - 1) # <<>> BY <1>2, <1>6
  <2> QED BY <1>2, <1>5, <2>1
<1>10. \A i \in Indices : ts2[Kernel][i] = ts[Kernel][i]
  <2> SUFFICES ASSUME NEW i \in Indices, Spot(Len(ts), t0, v, f, Kernel, i)
               PROVE  FALSE
    BY <1>3, <1>7
  <2>1. Kernel = t0 BY <1>3, <1>7
  <2>2. o = KernelOwner /\ f = 1 BY <1>5, <1>7, <1>9, <2>1
  <2> QED BY <1>5, <2>2
<1>11. ASSUME NEW p \in Procs, NEW i \in Tops, pglv[p] # 0
       PROVE  ts2[pglv[p]][i] = ts[pglv[p]][i]
  <2> SUFFICES ASSUME Spot(Len(ts), t0, v, f, pglv[p], i)
               PROVE  FALSE
    BY <1>3, <1>7, <1>8, <1>11
  <2>1. pglv[p] = t0 /\ i = v[f] BY <1>3, <1>7, <1>8, <1>11
  <2>2. o = p /\ f = 1 BY <1>5, <1>7, <1>9, <1>11, <2>1
  <2>3. i \notin Tops BY <1>5, <2>1, <2>2, OwnersDiffer DEF Own
  <2> QED BY <2>3
<1> QED BY <1>8, <1>10, <1>11 DEF Shared, Formed

\* They map the page as they should, and no other page otherwise than before.
LEMMA GrownLook ==
  ASSUME Directories, NEW ts, NEW ts2, NEW pglv, NEW owner, NEW path, Formed(ts, pglv, owner, path),
         NEW o, NEW v, NEW f, NEW t0, NEW e \in Leaves(o), WayEnds(ts, owner, path, o, v, f, t0),
         Grown(ts, ts2, o, v, f, t0, e), NEW owner2, NEW path2,
         owner2 = GrownOwner(owner, Len(ts), Len(ts2), o),
         path2 = GrownPath(path, Len(ts), Len(ts2), v, f)
  PROVE  /\ Formed(ts2, pglv, owner2, path2)
         /\ \A x \in Owners, w \in [1 .. Levels -> Indices] :
              Look(ts2, owner2, path2, x, w) =
                IF x = o /\ w = v THEN e ELSE Look(ts, owner, path, x, w)
<1>1. /\ \A t \in 1 .. Len(ts) : t \in 1 .. Len(ts2) /\ owner2[t] = owner[t] /\ path2[t] = path[t]
      /\ \A k \in f .. Levels :
           /\ Node(Len(ts), t0, f, k) \in 1 .. Len(ts2)
           /\ owner2[Node(Len(ts), t0, f, k)] = o /\ path2[Node(Len(ts), t0, f, k)] = Prefix(v, k - 1)
           /\ k # f => ~ (Node(Len(ts), t0, f, k) <= Len(ts))
           /\ k = f => Node(Len(ts), t0, f, k) = t0
      /\ \A t \in 1 .. Len(ts2) : t \in 1 .. Len(ts) \/
           \E k \in f + 1 .. Levels : t = Node(Len(ts), t0, f, k)
  BY GrownFacts
<1>2. /\ o \in Owners /\ v \in [1 .. Levels -> Indices] /\ f \in 1 .. Levels
      /\ Levels \in Nat /\ Levels >= 2
  BY DEF WayEnds, Directories
<1>3. /\ \A t \in 1 .. Len(ts), i \in Indices :
           /\ Spot(Len(ts), t0, v, f, t, i) => t = t0 /\ i = v[f]
           /\ ~ Spot(Len(ts), t0, v, f, t, i) => ts2[t][i] = ts[t][i]
      /\ \A t \in 1 .. Len(ts2), i \in Indices :
           t \notin 1 .. Len(ts) /\ ~ Spot(Len(ts), t0, v, f, t, i) => ts2[t][i] = NoEntry
  BY SpotFacts
<1>4. \A k \in f .. Levels :
        /\ ts2[Node(Len(ts), t0, f, k)][v[k]] = IF k = Levels THEN e ELSE Link(o, Node(Len(ts), t0, f, k + 1))
        /\ k \in 1 .. Levels /\ k \in Nat /\ (k # Levels => k + 1 \in f .. Levels)
  BY <1>2 DEF Grown
<1>5. /\ t0 \in 1 .. Len(ts) /\ owner[t0] = o /\ path[t0] = Prefix(v, f - 1) /\ Own(o, <<>>, v[1])
      /\ (o = KernelOwner => f >= 2) /\ (f < Levels => ~ Has(owner, path, o, Prefix(v, f)))
  BY DEF WayEnds
<1>6. \A k \in 1 .. Levels :
        /\ Prefix(v, k - 1) \in Seq(Indices) /\ Len(Prefix(v, k - 1)) = k - 1
        /\ v[k] \in Indices /\ k \in Nat /\ Child(Prefix(v, k), Prefix(v, k - 1), v[k])
        /\ k = 1 => Prefix(v, k - 1) = <<>>
        /\ k > 1 => Prefix(v, k - 1) # <<>>
  BY <1>2, PagePrefix
<1>7. Formed(ts2, pglv, owner2, path2)
  BY GrownTyped, GrownDown, GrownUp, GrownShared DEF Formed
<1> SUFFICES ASSUME NEW x \in Owners, NEW w \in [1 .. Levels -> Indices]
             PROVE  Look(ts2, owner2, path2, x, w) =
                      IF x = o /\ w = v THEN e ELSE Look(ts, owner, path, x, w)
  BY <1>7
<1> DEFINE a == Prefix(w, Levels - 1)
           i == w[Levels]
           b == Prefix(v, Levels - 1)
<1>8. Levels \in f .. Levels /\ Levels \in 1 .. Levels BY <1>2
<1>9. i \in Indices /\ Len(a) = Levels - 1 BY PagePaths
<1>10. Look(ts2, owner2, path2, x, w) =
         IF Has(owner2, path2, x, a) THEN ts2[TableAt(owner2, path2, x, a)][i] ELSE NoEntry
  BY DEF Look
<1>11. Look(ts, owner, path, x, w) =
         IF Has(owner, path, x, a) THEN ts[TableAt(owner, path, x, a)][i] ELSE NoEntry
  BY DEF Look
<1>12. a = b /\ i = v[Levels] => w = v BY <1>2, PageEqual
<1>13. w = v => a = b /\ i = v[Levels] OBVIOUS
<1> DEFINE last == Node(Len(ts), t0, f, Levels)
<1>14. last \in 1 .. Len(ts2) /\ owner2[last] = o /\ path2[last] = b /\ ts2[last][v[Levels]] = e
  BY <1>1, <1>4, <1>8
<1> HIDE DEF a, b, i, last
<1>15. CASE x = o /\ w = v
  <2>1. Has(owner2, path2, x, a) /\ TableAt(owner2, path2, x, a) = last
    BY <1>7, <1>13, <1>14, <1>15, TableFacts
  <2> QED BY <1>10, <1>13, <1>14, <1>15, <2>1
<1>16. CASE ~ (x = o /\ w = v) /\ Has(owner2, path2, x, a)
  <2>1. PICK t \in 1 .. Len(ts2) : t = TableAt(owner2, path2, x, a) /\ owner2[t] = x /\ path2[t] = a
    BY <1>7, <1>16, TableFacts
  <2>2. ~ Spot(Len(ts), t0, v, f, t, i)
    <3> SUFFICES ASSUME Spot(Len(ts), t0, v, f, t, i)
                 PROVE  FALSE
      OBVIOUS
    <3>1. PICK k \in f .. Levels : t = Node(Len(ts), t0, f, k) /\ i = v[k] BY DEF Spot
    <3>2. x = o /\ a = Prefix(v, k - 1) BY <1>1, <2>1, <3>1
    <3>3. Len(a) = k - 1 BY <1>4, <1>6, <3>2
    <3>4. k = Levels BY <1>2, <1>4, <1>9, <3>3
    <3> QED BY <1>12, <1>16, <3>1, <3>2, <3>4 DEF b
  <2>3. CASE t \in 1 .. Len(ts)
    <3>1. owner[t] = x /\ path[t] = a BY <1>1, <2>1, <2>3
    <3>2. Has(owner, path, x, a) /\ TableAt(owner, path, x, a) = t BY <2>3, <3>1, TableFacts
    <3>3. ts2[t][i] = ts[t][i] BY <1>3, <1>9, <2>2, <2>3
    <3> QED BY <1>10, <1>11, <1>16, <2>1, <3>2, <3>3
  <2>4. CASE t \notin 1 .. Len(ts)
    <3>1. ts2[t][i] = NoEntry BY <1>3, <1>9, <2>2, <2>4
    <3>2. ~ Has(owner, path, x, a)
      <4> SUFFICES ASSUME Has(owner, path, x, a)
                   PROVE  FALSE
        OBVIOUS
      <4>1. PICK u \in 1 .. Len(ts) : owner[u] = x /\ path[u] = a BY TableFacts
      <4>2. u \in 1 .. Len(ts2) /\ owner2[u] = x /\ path2[u] = a BY <1>1, <4>1
      <4>3. u = t BY <1>7, <2>1, <4>2 DEF Formed, Apart
      <4> QED BY <2>4, <4>1, <4>3
    <3> QED BY <1>10, <1>11, <1>16, <2>1, <3>1, <3>2
  <2> QED BY <2>3, <2>4
<1>17. CASE ~ (x = o /\ w = v) /\ ~ Has(owner2, path2, x, a)
  <2>1. ~ Has(owner, path, x, a)
    <3> SUFFICES ASSUME Has(owner, path, x, a)
                 PROVE  FALSE
      OBVIOUS
    <3>1. PICK u \in 1 .. Len(ts) : owner[u] = x /\ path[u] = a BY TableFacts
    <3>2. u \in 1 .. Len(ts2) /\ owner2[u] = x /\ path2[u] = a BY <1>1, <3>1
    <3> QED BY <1>7, <1>17, <3>2, TableFacts
  <2> QED BY <1>10, <1>11, <1>17, <2>1
<1> QED BY <1>15, <1>16, <1>17

\* The entries that a lookup finds are those that a walk meets.
LEMMA EntryMet ==
  ASSUME Directories, NEW pglv, NEW owner, NEW path, Formed(tables, pglv, owner, path),
         NEW o, NEW r, NEW a \in Seq(Indices), Len(a) <= Levels, Way(pglv, o, r, a),
         NEW k \in 0 .. Len(a)
  PROVE  /\ Entry(r, SubSeq(a, 1, k)) = Met(tables, owner, path, o, r, a, k)
         /\ Way(pglv, o, r, SubSeq(a, 1, k))
<1> DEFINE b == Prefix(a, k)
<1>1. /\ SubSeq(a, 1, k) = b /\ b \in Seq(Indices) /\ Len(b) = k /\ Prefix(a, Len(a)) = a
      /\ k >= 1 => b[1] = a[1]
  BY PrefixFacts
<1>2. k \in Nat /\ Len(a) \in Nat /\ Levels \in Nat BY LenProperties DEF Directories
<1>3. Way(pglv, o, r, b) BY <1>1, <1>2 DEF Way
<1>4. \A n \in 0 .. Len(b) : Walk(tables, r, b)[n] = Met(tables, owner, path, o, r, b, n)
  <2>1. Len(b) <= Levels BY <1>1, <1>2
  <2> HIDE DEF b
  <2> QED BY <1>1, <1>3, <2>1, WalkFacts
<1>5. Entry(r, b) = Met(tables, owner, path, o, r, b, k)
  <2> k \in 0 .. Len(b) BY <1>1, <1>2
  <2> QED BY <1>1, <1>4 DEF Entry
<1>6. Met(tables, owner, path, o, r, b, k) = Met(tables, owner, path, o, r, a, k)
  <2>1. CASE k = 0
    <3>1. k = 0 => Met(tables, owner, path, o, r, b, k) = Skel(r, TRUE, TRUE)
      BY DEF Met
    <3>2. k = 0 => Met(tables, owner, path, o, r, a, k) = Skel(r, TRUE, TRUE) BY DEF Met
    <3> QED BY <2>1, <3>1, <3>2
  <2>2. CASE k # 0 /\ k # Levels
    <3>1. Prefix(b, k) = b
      <4>1. Len(b) <= Levels /\ k \in 0 .. Len(b) BY <1>1, <1>2
      <4> HIDE DEF b
      <4> QED BY <1>1, <4>1, PrefixFacts
    <3>2. Met(tables, owner, path, o, r, a, k) =
            IF Has(owner, path, o, b) THEN Link(o, TableAt(owner, path, o, b)) ELSE NoEntry
      BY <1>2, <2>2, MetFacts
    <3> HIDE DEF b
    <3>3. Met(tables, owner, path, o, r, b, k) =
            IF Has(owner, path, o, Prefix(b, k)) THEN Link(o, TableAt(owner, path, o, Prefix(b, k)))
            ELSE NoEntry
      BY <1>2, <2>2, MetFacts
    <3> QED BY <3>1, <3>2, <3>3
  <2>3. CASE k = Levels
    <3> k = Len(a) BY <1>2, <2>3
    <3> QED BY <1>1
  <2> QED BY <2>1, <2>2, <2>3
<1> HIDE DEF b
<1> QED BY <1>1, <1>3, <1>5, <1>6

\* The tables that are missing are those from some level on.
LEMMA MissingFacts ==
  ASSUME Directories, NEW pglv, NEW owner, NEW path, Formed(tables, pglv, owner, path),
         NEW o, NEW r, NEW v \in [1 .. Levels -> Indices], Way(pglv, o, r, v)
  PROVE  \E f \in 1 .. Levels :
           /\ MissingTables(r, v) = f .. Levels - 1
           /\ Cardinality(MissingTables(r, v)) = Levels - f
           /\ \A k \in 1 .. f - 1 : Has(owner, path, o, Prefix(v, k))
           /\ f < Levels => ~ Has(owner, path, o, Prefix(v, f))
           /\ o = KernelOwner => f >= 2
<1> DEFINE S == {k \in Nat : k \in 1 .. Levels /\ (k = Levels \/ ~ Has(owner, path, o, Prefix(v, k)))}
<1>1. Levels \in Nat /\ Levels >= 2 BY DEF Directories
<1>2. v \in Seq(Indices) /\ Len(v) = Levels /\ v[1] \in Indices BY PagePaths
<1>3. o \in Owners BY DEF Way, Owners
<1>4. PICK f \in S : \A k \in S : f <= k
  <2>1. S \in SUBSET Nat /\ S # {}
    <3> Levels \in S BY <1>1
    <3> QED OBVIOUS
  <2> HIDE DEF S
  <2> QED BY <2>1, SmallestExists
<1>5. \A k \in 1 .. f - 1 : Has(owner, path, o, Prefix(v, k))
  <2> SUFFICES ASSUME NEW k \in 1 .. f - 1
               PROVE  Has(owner, path, o, Prefix(v, k))
    OBVIOUS
  <2>1. k \in 1 .. Levels /\ k # Levels /\ ~ (f <= k) /\ k \in Nat BY <1>1, <1>4
  <2>2. k \notin S BY <1>4, <2>1
  <2> QED BY <2>1, <2>2
<1>6. f < Levels => ~ Has(owner, path, o, Prefix(v, f)) BY <1>1, <1>4
<1>7. \A k \in f .. Levels - 1 : ~ Has(owner, path, o, Prefix(v, k))
  <2> SUFFICES ASSUME NEW k \in f .. Levels - 1, Has(owner, path, o, Prefix(v, k))
               PROVE  FALSE
    OBVIOUS
  <2>1. k \in 0 .. Len(v) /\ f \in 0 .. k /\ f < Levels /\ Len(v) <= Levels BY <1>1, <1>2, <1>4
  <2>2. Has(owner, path, o, Prefix(v, f)) BY <1>2, <1>3, <2>1, WayClosed
  <2> QED BY <1>6, <2>1, <2>2
<1>8. ASSUME NEW k \in 1 .. Levels - 1
      PROVE  Entry(r, SubSeq(v, 1, k)) = NoEntry <=> ~ Has(owner, path, o, Prefix(v, k))
  <2> DEFINE a == Prefix(v, k)
  <2>1. k \in 0 .. Len(v) /\ k \in Nat /\ k # 0 /\ k # Levels /\ Len(v) <= Levels BY <1>1, <1>2
  <2>2. Entry(r, SubSeq(v, 1, k)) = Met(tables, owner, path, o, r, v, k) BY <1>2, <2>1, EntryMet
  <2>3. Met(tables, owner, path, o, r, v, k) =
          IF Has(owner, path, o, a) THEN Link(o, TableAt(owner, path, o, a)) ELSE NoEntry
    BY <2>1, MetFacts
  <2> HIDE DEF a
  <2>4. Has(owner, path, o, a) => TableAt(owner, path, o, a) \in Nat BY <1>3, TableFacts
  <2>5. Has(owner, path, o, a) => Link(o, TableAt(owner, path, o, a)) # NoEntry BY <2>4, LinkFacts
  <2> QED BY <2>2, <2>3, <2>5 DEF a
<1>9. f \in 1 .. Levels /\ f \in Nat BY <1>4
<1>10. MissingTables(r, v) = f .. Levels - 1
  <2>1. \A k \in 1 .. Levels - 1 : k \in 1 .. f - 1 \/ k \in f .. Levels - 1 BY <1>1, <1>9
  <2>2. \A k \in f .. Levels - 1 : k \in 1 .. Levels - 1 BY <1>1, <1>9
  <2> QED BY <1>5, <1>7, <1>8, <2>1, <2>2 DEF MissingTables
<1>11. Cardinality(f .. Levels - 1) = Levels - f
  <2>1. f \in Int /\ Levels - 1 \in Int BY <1>1, <1>9
  <2> DEFINE z == Levels - 1
  <2>2. z \in Int /\ z = Levels - 1 BY <2>1
  <2> HIDE DEF z
  <2>3. Cardinality(f .. z) = IF f > z THEN 0 ELSE z - f + 1 BY <2>1, <2>2, FS_Interval
  <2> QED BY <1>1, <1>9, <2>2, <2>3
<1>12. o = KernelOwner => f >= 2
  <2> DEFINE i == v[1]
             b == Prefix(v, 1)
             x == Prefix(v, 1 - 1)
  <2>1. Child(b, x, i) /\ Len(x) = 1 - 1 /\ x = <<>>
    <3> 1 \in 1 .. Levels BY <1>1
    <3> QED BY PagePrefix
  <2>a. Child(b, x, i) BY <2>1
  <2> HIDE DEF i, b, x
  <2>2. SUFFICES ASSUME o = KernelOwner
                 PROVE  Has(owner, path, o, b)
    <3>1. f = 1 => f < Levels BY <1>1
    <3>2. o = KernelOwner => ~ (f = 1) BY <1>6, <2>2, <3>1 DEF b
    <3> QED BY <1>9, <3>2
  <2>3. i \in Tops /\ i \in Indices BY <1>1, <1>2, <2>2, OwnersDiffer DEF Way, i
  <2>4. tables[Kernel][i] # NoEntry BY <2>3 DEF Formed, Shared
  <2>5. Kernel \in 1 .. Len(tables) /\ owner[Kernel] = o /\ path[Kernel] = x BY <2>1, <2>2, RootFacts
  <2>6. Own(o, x, i) /\ Len(x) # Levels - 1 BY <1>1, <2>1, <2>2 DEF Own
  <2> HIDE <2>2
  <2>7. tables[Kernel][i] = IF Has(owner, path, o, b) THEN Link(o, TableAt(owner, path, o, b)) ELSE NoEntry
    BY <1>3, <2>a, <2>3, <2>5, <2>6, EntryFacts
  <2> QED BY <2>4, <2>7
<1> QED BY <1>5, <1>6, <1>9, <1>10, <1>11, <1>12

\* The parts of Mapped, where f is the first level whose entry is missing.
MappedNode(r, v, f, k) ==
  IF k <= f THEN Entry(r, SubSeq(v, 1, k - 1)).addr ELSE Len(tables) + k - f

\* The entry that Mapped writes at level k, and the tables before it writes any.
MappedEntry(r, v, f, page, user, write, k) ==
  IF k = Levels THEN Skel(page, user, write)
  ELSE IF k \in MissingTables(r, v) THEN Skel(MappedNode(r, v, f, k + 1), user, write)
  ELSE Widened(Entry(r, SubSeq(v, 1, k)), user, write)

MappedAll(r, v) == tables \o [k \in 1 .. Cardinality(MissingTables(r, v)) |-> Cleared]

\* The new tables are cleared.
LEMMA MappedAllFacts ==
  ASSUME Directories, tables \in Seq([Indices -> AnyEntry \cup {NoEntry}]), NEW r, NEW v, NEW c \in Nat,
         Cardinality(MissingTables(r, v)) = c
  PROVE  /\ DOMAIN MappedAll(r, v) = 1 .. Len(tables) + c
         /\ \A t \in 1 .. Len(tables) + c, i \in Indices :
              /\ MappedAll(r, v)[t][i] = IF t <= Len(tables) THEN tables[t][i] ELSE NoEntry
              /\ MappedAll(r, v)[t][i] \in AnyEntry \cup {NoEntry}
<1> DEFINE S == [Indices -> AnyEntry \cup {NoEntry}]
           fresh == [k \in 1 .. c |-> Cleared]
<1>1. Cleared \in S /\ \A i \in Indices : Cleared[i] = NoEntry BY DEF Cleared
<1>2. fresh \in Seq(S) /\ Len(fresh) = c BY <1>1
<1>3. MappedAll(r, v) = tables \o fresh BY DEF MappedAll
<1>4. \A k \in 1 .. c : fresh[k] = Cleared OBVIOUS
<1>5. Len(tables) \in Nat BY LenProperties
<1> HIDE DEF fresh, S
<1>6. /\ tables \o fresh \in Seq(S) /\ Len(tables \o fresh) = Len(tables) + c
      /\ \A i \in 1 .. Len(tables) + c :
           (tables \o fresh)[i] = IF i <= Len(tables) THEN tables[i] ELSE fresh[i - Len(tables)]
  BY <1>2, ConcatProperties DEF S
<1>7. DOMAIN (tables \o fresh) = 1 .. Len(tables) + c BY <1>6, LenProperties
<1>8. ASSUME NEW t \in 1 .. Len(tables) + c
      PROVE  (tables \o fresh)[t] = IF t <= Len(tables) THEN tables[t] ELSE Cleared
  <2>1. ~ (t <= Len(tables)) => t - Len(tables) \in 1 .. c BY <1>5
  <2> QED BY <1>4, <1>6, <2>1
<1>9. \A t \in 1 .. Len(tables) + c : (tables \o fresh)[t] \in S BY <1>6, <1>7, ElementOfSeq
<1>10. ASSUME NEW t \in 1 .. Len(tables) + c, NEW i \in Indices
       PROVE  /\ MappedAll(r, v)[t][i] = IF t <= Len(tables) THEN tables[t][i] ELSE NoEntry
              /\ MappedAll(r, v)[t][i] \in AnyEntry \cup {NoEntry}
  <2>1. MappedAll(r, v)[t] = IF t <= Len(tables) THEN tables[t] ELSE Cleared BY <1>3, <1>8
  <2>2. MappedAll(r, v)[t] \in S BY <1>3, <1>9
  <2> QED BY <1>1, <2>1, <2>2 DEF S
<1> QED BY <1>3, <1>7, <1>10

\* The way to level f is there.
Reached(owner, path, o, v, f) == \A k \in 1 .. f - 1 : Has(owner, path, o, Prefix(v, k))

\* On the way that there is, a node is a table of the level; from there on it is a new one.
MappedWay(owner, path, o, r, v, f) ==
  /\ \A k \in 1 .. f :
       /\ MappedNode(r, v, f, k) \in 1 .. Len(tables)
       /\ path[MappedNode(r, v, f, k)] = Prefix(v, k - 1)
       /\ k # 1 \/ o # KernelOwner => owner[MappedNode(r, v, f, k)] = o
       /\ Met(tables, owner, path, o, r, v, k) = tables[MappedNode(r, v, f, k)][v[k]]
  /\ \A k \in f + 1 .. Levels : MappedNode(r, v, f, k) = Len(tables) + k - f
  /\ \A j, k \in 1 .. Levels : MappedNode(r, v, f, j) = MappedNode(r, v, f, k) => j = k

\* The tables on the way that Mapped finds are those the owner has.
LEMMA MappedNodeFacts ==
  ASSUME Directories, NEW pglv, NEW owner, NEW path, Formed(tables, pglv, owner, path),
         NEW o, NEW r, NEW v \in [1 .. Levels -> Indices], Way(pglv, o, r, v),
         NEW f \in 1 .. Levels, Reached(owner, path, o, v, f)
  PROVE  MappedWay(owner, path, o, r, v, f)
<1>1. /\ Levels \in Nat /\ Levels >= 2 /\ f \in Nat /\ v \in Seq(Indices) /\ Len(v) = Levels
      /\ o \in Owners /\ Len(tables) \in Nat \ {0}
  <2> o \in Owners BY DEF Way, Owners
  <2> QED BY PagePaths, TableFacts DEF Directories
<1>2. ASSUME NEW k \in 1 .. f
      PROVE  /\ MappedNode(r, v, f, k) \in 1 .. Len(tables)
             /\ path[MappedNode(r, v, f, k)] = Prefix(v, k - 1)
             /\ k # 1 \/ o # KernelOwner => owner[MappedNode(r, v, f, k)] = o
             /\ Met(tables, owner, path, o, r, v, k) = tables[MappedNode(r, v, f, k)][v[k]]
  <2> DEFINE j == k - 1
             now == Met(tables, owner, path, o, r, v, j)
  <2>1. j \in 0 .. Len(v) /\ j \in 0 .. Len(v) - 1 /\ j + 1 = k /\ k <= f /\ j # Levels /\ j \in Nat
        /\ (j # 0 => j \in 1 .. f - 1) /\ (k # 1 => j # 0) /\ Len(v) <= Levels
    BY <1>1
  <2>2. MappedNode(r, v, f, k) = Entry(r, SubSeq(v, 1, j)).addr BY <2>1 DEF MappedNode
  <2> HIDE DEF j
  <2>3. Entry(r, SubSeq(v, 1, j)) = now BY <1>1, <2>1, EntryMet
  <2>4. Met(tables, owner, path, o, r, v, j + 1) =
          IF now = NoEntry THEN NoEntry ELSE tables[now.addr][v[j + 1]]
    BY <1>1, <2>1, MetNext
  <2>5. /\ now # NoEntry /\ now.addr \in 1 .. Len(tables) /\ path[now.addr] = Prefix(v, j)
        /\ (j # 0 \/ o # KernelOwner => owner[now.addr] = o)
    <3>1. CASE j = 0
      <4>1. r \in LiveRoots(pglv) /\ (o # KernelOwner => r = pglv[o] /\ r # 0 /\ o \in Procs)
        BY DEF Way, LiveRoots
      <4>2. r \in 1 .. Len(tables) /\ path[r] = <<>> /\ (o # KernelOwner => owner[r] = o)
        BY <4>1, RootFacts DEF LiveRoots
      <4>3. Prefix(v, 0) = <<>>
        <5> 0 \in 0 .. Len(v) BY <1>1
        <5> QED BY <1>1, <2>1, PrefixFacts
      <4>4. now = Skel(r, TRUE, TRUE) BY <3>1 DEF Met
      <4>5. now \in AnyEntry /\ now.addr = r
        <5>1. r \in Nat BY <1>1, <4>2
        <5> QED BY <4>4, <5>1 DEF Skel, AnyEntry
      <4> QED BY <3>1, <4>2, <4>3, <4>5 DEF Directories
    <3>2. CASE j # 0
      <4> DEFINE b == Prefix(v, j)
      <4>1. Has(owner, path, o, b) BY <2>1, <3>2 DEF Reached
      <4>2. now = Link(o, TableAt(owner, path, o, b))
        <5>1. j \in Nat /\ j # 0 /\ j # Levels BY <2>1, <3>2
        <5>2. now = IF Has(owner, path, o, b) THEN Link(o, TableAt(owner, path, o, b)) ELSE NoEntry
          BY <5>1 DEF Met
        <5> QED BY <4>1, <5>2
      <4> HIDE DEF b, now
      <4>3. /\ TableAt(owner, path, o, b) \in 1 .. Len(tables)
            /\ owner[TableAt(owner, path, o, b)] = o /\ path[TableAt(owner, path, o, b)] = b
        BY <1>1, <4>1, TableFacts
      <4>4. TableAt(owner, path, o, b) \in Nat BY <1>1, <4>3
      <4>5. now # NoEntry /\ now.addr = TableAt(owner, path, o, b) BY <4>2, <4>4, LinkFacts
      <4> QED BY <4>3, <4>5 DEF b
    <3> QED BY <3>1, <3>2
  <2> HIDE DEF now
  <2>6. MappedNode(r, v, f, k) = now.addr /\ Met(tables, owner, path, o, r, v, k) = tables[now.addr][v[k]]
    BY <2>1, <2>2, <2>3, <2>4, <2>5
  <2>7. Prefix(v, k - 1) = Prefix(v, j) BY DEF j
  <2> QED BY <2>1, <2>5, <2>6, <2>7
<1>3. ASSUME NEW k \in f + 1 .. Levels
      PROVE  MappedNode(r, v, f, k) = Len(tables) + k - f
  <2> ~ (k <= f) BY <1>1
  <2> QED BY DEF MappedNode
<1>4. ASSUME NEW j \in 1 .. Levels, NEW k \in 1 .. Levels, MappedNode(r, v, f, j) = MappedNode(r, v, f, k)
      PROVE  j = k
  <2>1. (j \in 1 .. f \/ j \in f + 1 .. Levels) /\ (k \in 1 .. f \/ k \in f + 1 .. Levels) BY <1>1
  <2>2. CASE j \in 1 .. f /\ k \in 1 .. f
    <3>1. path[MappedNode(r, v, f, j)] = Prefix(v, j - 1) /\ path[MappedNode(r, v, f, k)] = Prefix(v, k - 1)
      BY <1>2, <2>2
    <3>2. Prefix(v, j - 1) = Prefix(v, k - 1) BY <1>4, <3>1
    <3>3. Len(Prefix(v, j - 1)) = j - 1 /\ Len(Prefix(v, k - 1)) = k - 1 BY PagePrefix
    <3> QED BY <1>1, <3>2, <3>3
  <2>3. CASE j \in 1 .. f /\ k \in f + 1 .. Levels
    <3> MappedNode(r, v, f, j) \in 1 .. Len(tables) /\ MappedNode(r, v, f, k) = Len(tables) + k - f
      BY <1>2, <1>3, <2>3
    <3> QED BY <1>1, <1>4, <2>3
  <2>4. CASE j \in f + 1 .. Levels /\ k \in 1 .. f
    <3> MappedNode(r, v, f, k) \in 1 .. Len(tables) /\ MappedNode(r, v, f, j) = Len(tables) + j - f
      BY <1>2, <1>3, <2>4
    <3> QED BY <1>1, <1>4, <2>4
  <2>5. CASE j \in f + 1 .. Levels /\ k \in f + 1 .. Levels
    <3> MappedNode(r, v, f, k) = Len(tables) + k - f /\ MappedNode(r, v, f, j) = Len(tables) + j - f
      BY <1>3, <2>5
    <3> QED BY <1>1, <1>4
  <2> QED BY <2>1, <2>2, <2>3, <2>4, <2>5
<1> QED BY <1>2, <1>3, <1>4 DEF MappedWay

\* The entries on the way to a page of o have these rights.
Rights(user, o) == user = (o \in Procs)

\* An entry that has the rights is not changed by Widened.
LEMMA WidenedNot ==
  ASSUME NEW e \in AnyEntry, NEW user, NEW write, (e.user \/ user) = e.user, (e.write \/ write) = e.write
  PROVE  Widened(e, user, write) = e
<1>1. PICK a, u, w : e = [addr |-> a, user |-> u, write |-> w] BY DEF AnyEntry
<1>2. Widened(e, user, write) = [addr |-> a, user |-> u \/ user, write |-> w \/ write]
  BY <1>1 DEF Widened
<1> QED BY <1>1, <1>2

\* Mapped grows the tables.
LEMMA MappedGrows ==
  ASSUME Directories, NEW pglv, NEW owner, NEW path, Formed(tables, pglv, owner, path),
         NEW o, NEW r, NEW v \in [1 .. Levels -> Indices], Way(pglv, o, r, v),
         NEW page \in Pages, NEW user \in BOOLEAN, Rights(user, o)
  PROVE  \E f, t0 :
           /\ WayEnds(tables, owner, path, o, v, f, t0)
           /\ Grown(tables, Mapped(r, v, page, user, TRUE), o, v, f, t0, Skel(page, user, TRUE))
<1>1. PICK f \in 1 .. Levels :
        /\ MissingTables(r, v) = f .. Levels - 1
        /\ Cardinality(MissingTables(r, v)) = Levels - f
        /\ \A k \in 1 .. f - 1 : Has(owner, path, o, Prefix(v, k))
        /\ f < Levels => ~ Has(owner, path, o, Prefix(v, f))
        /\ o = KernelOwner => f >= 2
  BY MissingFacts
<1> DEFINE node(k) == MappedNode(r, v, f, k)
           entry(k) == MappedEntry(r, v, f, page, user, TRUE, k)
           t0 == node(f)
           e == Skel(page, user, TRUE)
           all == MappedAll(r, v)
           n == Len(tables)
           ts2 == Mapped(r, v, page, user, TRUE)
<1>2. /\ Levels \in Nat /\ Levels >= 2 /\ f \in Nat /\ v \in Seq(Indices) /\ Len(v) = Levels
      /\ o \in Owners /\ n \in Nat \ {0} /\ 1 \in 1 .. f /\ f \in 1 .. f /\ Levels - f \in Nat
  <2>1. o \in Owners BY DEF Way, Owners
  <2>2. n \in Nat \ {0} BY <2>1, TableFacts
  <2>3. v \in Seq(Indices) /\ Len(v) = Levels BY PagePaths
  <2> QED BY <2>1, <2>2, <2>3 DEF Directories
<1>3. /\ \A k \in 1 .. f :
           /\ node(k) \in 1 .. n /\ path[node(k)] = Prefix(v, k - 1)
           /\ k # 1 \/ o # KernelOwner => owner[node(k)] = o
           /\ Met(tables, owner, path, o, r, v, k) = tables[node(k)][v[k]]
      /\ \A k \in f + 1 .. Levels : node(k) = n + k - f
      /\ \A j, k \in 1 .. Levels : node(j) = node(k) => j = k
  <2>1. Reached(owner, path, o, v, f) BY <1>1 DEF Reached
  <2>2. MappedWay(owner, path, o, r, v, f) BY <2>1, MappedNodeFacts
  <2> QED BY <2>2 DEF MappedWay
<1>4. /\ DOMAIN all = 1 .. n + (Levels - f)
      /\ \A t \in 1 .. n + (Levels - f), i \in Indices :
           /\ all[t][i] = IF t <= n THEN tables[t][i] ELSE NoEntry
           /\ all[t][i] \in AnyEntry \cup {NoEntry}
  <2>1. tables \in Seq([Indices -> AnyEntry \cup {NoEntry}]) BY DEF Formed, Typed
  <2>2. Cardinality(MissingTables(r, v)) = Levels - f BY <1>1
  <2> HIDE DEF all
  <2> QED BY <1>2, <2>1, <2>2, MappedAllFacts DEF all
<1>5. ts2 = [t \in DOMAIN all |-> [i \in Indices |->
               IF \E k \in 1 .. Levels : t = node(k) /\ i = v[k]
                 THEN entry(CHOOSE k \in 1 .. Levels : t = node(k)) ELSE all[t][i]]]
  <2> f = Levels - Cardinality(MissingTables(r, v)) BY <1>1, <1>2
  <2> QED BY DEF Mapped, MappedNode, MappedEntry, MappedAll
<1>6. WayEnds(tables, owner, path, o, v, f, t0)
  <2>1. Own(o, <<>>, v[1])
    <3> Len(v) > 0 BY <1>2
    <3> QED BY DEF Way, Own
  <2>2. f # 1 \/ o # KernelOwner BY <1>1
  <2>3. t0 \in 1 .. n /\ path[t0] = Prefix(v, f - 1) /\ owner[t0] = o BY <1>2, <1>3, <2>2
  <2> HIDE DEF t0
  <2> QED BY <1>1, <1>2, <2>1, <2>3 DEF WayEnds
<1>7. \A k \in f .. Levels : k \in 1 .. Levels /\ node(k) = Node(n, t0, f, k)
  <2> SUFFICES ASSUME NEW k \in f .. Levels
               PROVE  k \in 1 .. Levels /\ node(k) = Node(n, t0, f, k)
    OBVIOUS
  <2>1. CASE k = f BY <1>2, <2>1 DEF Node
  <2>2. CASE k # f
    <3> k \in f + 1 .. Levels BY <1>2, <2>2
    <3> QED BY <1>2, <1>3, <2>2 DEF Node
  <2> QED BY <2>1, <2>2
<1>8. \A k \in 1 .. Levels : node(k) \in 1 .. n + (Levels - f) /\ v[k] \in Indices
  <2> SUFFICES ASSUME NEW k \in 1 .. Levels
               PROVE  node(k) \in 1 .. n + (Levels - f) /\ v[k] \in Indices
    OBVIOUS
  <2>1. CASE k \in 1 .. f BY <1>2, <1>3, <2>1
  <2>2. CASE k \notin 1 .. f
    <3> k \in f + 1 .. Levels BY <1>2, <2>2
    <3> node(k) = n + k - f BY <1>3
    <3> HIDE DEF node
    <3> QED BY <1>2
  <2> QED BY <2>1, <2>2
<1>9. \A k \in f .. Levels : entry(k) = IF k = Levels THEN e ELSE Link(o, node(k + 1))
  <2> SUFFICES ASSUME NEW k \in f .. Levels
               PROVE  entry(k) = IF k = Levels THEN e ELSE Link(o, node(k + 1))
    OBVIOUS
  <2>1. CASE k = Levels BY <2>1 DEF MappedEntry
  <2>2. CASE k # Levels
    <3>1. k \in MissingTables(r, v) BY <1>1, <1>2, <2>2
    <3>2. entry(k) = Skel(node(k + 1), user, TRUE) BY <2>2, <3>1 DEF MappedEntry
    <3>3. Link(o, node(k + 1)) = Skel(node(k + 1), user, TRUE) BY Zenon DEF Link, Rights
    <3> QED BY <2>2, <3>2, <3>3
  <2> QED BY <2>1, <2>2
<1>10. \A k \in 1 .. f - 1 : entry(k) = tables[node(k)][v[k]]
  <2> SUFFICES ASSUME NEW k \in 1 .. f - 1
               PROVE  entry(k) = tables[node(k)][v[k]]
    OBVIOUS
  <2> DEFINE b == Prefix(v, k)
             link == Link(o, TableAt(owner, path, o, b))
  <2>1. k \in 1 .. f /\ k \in 0 .. Len(v) /\ k # Levels /\ k # 0 /\ k \in Nat /\ k \notin MissingTables(r, v)
        /\ Len(v) <= Levels
    BY <1>1, <1>2
  <2>2. entry(k) = Widened(Entry(r, SubSeq(v, 1, k)), user, TRUE) BY <2>1 DEF MappedEntry
  <2>3. Entry(r, SubSeq(v, 1, k)) = Met(tables, owner, path, o, r, v, k) BY <1>2, <2>1, EntryMet
  <2>4. Has(owner, path, o, b) BY <1>1
  <2>5. Met(tables, owner, path, o, r, v, k) = link
    <3>1. Met(tables, owner, path, o, r, v, k) = IF Has(owner, path, o, b) THEN link ELSE NoEntry
      BY <2>1, MetFacts
    <3> QED BY <2>4, <3>1
  <2> HIDE DEF b
  <2>6. TableAt(owner, path, o, b) \in Nat BY <1>2, <2>4, TableFacts
  <2>7. link \in AnyEntry /\ link.user = user /\ link.write = TRUE BY <2>6, LinkFacts DEF Rights
  <2> HIDE DEF link
  <2>8. Widened(link, user, TRUE) = link
    <3>1. (link.user \/ user) = link.user /\ (link.write \/ TRUE) = link.write BY <2>7
    <3> QED BY <2>7, <3>1, WidenedNot
  <2> QED BY <1>3, <2>1, <2>2, <2>3, <2>5, <2>8
<1> HIDE DEF node, entry, e, all, n, ts2
<1>11. ASSUME NEW t \in 1 .. n + (Levels - f), NEW i \in Indices
       PROVE  /\ \A k \in f .. Levels : t = node(k) /\ i = v[k] => ts2[t][i] = entry(k)
              /\ (\A k \in f .. Levels : ~ (t = node(k) /\ i = v[k])) => ts2[t][i] = all[t][i]
  <2>1. ts2[t][i] = IF \E k \in 1 .. Levels : t = node(k) /\ i = v[k]
                      THEN entry(CHOOSE k \in 1 .. Levels : t = node(k)) ELSE all[t][i]
    BY <1>4, <1>5
  <2>2. \A k \in 1 .. Levels : t = node(k) => (CHOOSE j \in 1 .. Levels : t = node(j)) = k BY <1>3
  <2>3. \A k \in 1 .. Levels : t = node(k) /\ i = v[k] => ts2[t][i] = entry(k) BY <2>1, <2>2
  <2>4. ASSUME \A k \in f .. Levels : ~ (t = node(k) /\ i = v[k])
        PROVE  ts2[t][i] = all[t][i]
    <3>1. CASE \E k \in 1 .. Levels : t = node(k) /\ i = v[k]
      <4>1. PICK k \in 1 .. Levels : t = node(k) /\ i = v[k] BY <3>1
      <4>2. k \in 1 .. f - 1 BY <1>2, <2>4, <4>1
      <4>3. t \in 1 .. n /\ entry(k) = tables[t][i]
        <5> k \in 1 .. f BY <1>2, <4>2
        <5> QED BY <1>3, <1>10, <4>1, <4>2
      <4>4. t <= n BY <1>2, <4>3
      <4> QED BY <1>4, <2>3, <4>1, <4>3, <4>4
    <3>2. CASE ~ \E k \in 1 .. Levels : t = node(k) /\ i = v[k] BY <2>1, <3>2
    <3> QED BY <3>1, <3>2
  <2> QED BY <1>7, <2>3, <2>4
<1>12. /\ \A k \in f .. Levels : ts2[Node(n, t0, f, k)][v[k]] =
            IF k = Levels THEN e ELSE Link(o, Node(n, t0, f, k + 1))
       /\ \A t \in 1 .. n + (Levels - f), i \in Indices :
            (\A k \in f .. Levels : ~ (t = Node(n, t0, f, k) /\ i = v[k])) =>
              ts2[t][i] = IF t <= n THEN tables[t][i] ELSE NoEntry
  <2>1. ASSUME NEW k \in f .. Levels
        PROVE  ts2[Node(n, t0, f, k)][v[k]] = IF k = Levels THEN e ELSE Link(o, Node(n, t0, f, k + 1))
    <3>1. ts2[node(k)][v[k]] = entry(k) BY <1>7, <1>8, <1>11
    <3>2. k # Levels => k + 1 \in f .. Levels BY <1>2
    <3>3. k # Levels => node(k + 1) = Node(n, t0, f, k + 1) BY <1>7, <3>2
    <3> QED BY <1>7, <1>9, <3>1, <3>3
  <2> QED BY <1>4, <1>7, <1>11, <2>1
<1>13. ts2 \in Seq([Indices -> AnyEntry \cup {NoEntry}]) /\ Len(ts2) = n + Levels - f
  <2>1. e \in AnyEntry BY DEF e, Skel, AnyEntry
  <2>2. \A k \in f .. Levels : entry(k) \in AnyEntry
    <3> SUFFICES ASSUME NEW k \in f .. Levels
                 PROVE  entry(k) \in AnyEntry
      OBVIOUS
    <3>1. CASE k = Levels BY <1>9, <2>1, <3>1
    <3>2. CASE k # Levels
      <4>1. k + 1 \in 1 .. Levels BY <1>2, <3>2
      <4>2. node(k + 1) \in Nat BY <1>2, <1>8, <4>1
      <4> QED BY <1>9, <3>2, <4>2, LinkFacts
    <3> QED BY <3>1, <3>2
  <2>3. ASSUME NEW t \in 1 .. n + (Levels - f)
        PROVE  ts2[t] \in [Indices -> AnyEntry \cup {NoEntry}]
    <3>1. ASSUME NEW i \in Indices
          PROVE  ts2[t][i] \in AnyEntry \cup {NoEntry}
      BY <1>4, <1>11, <2>2
    <3>2. ts2[t] = [i \in Indices |-> ts2[t][i]]
      <4> DEFINE val(i) == IF \E k \in 1 .. Levels : t = node(k) /\ i = v[k]
                             THEN entry(CHOOSE k \in 1 .. Levels : t = node(k)) ELSE all[t][i]
      <4>1. ts2[t] = [i \in Indices |-> val(i)] BY <1>4, <1>5
      <4> HIDE DEF val
      <4> QED BY <4>1
    <3> QED BY <3>1, <3>2
  <2>4. ts2 = [t \in 1 .. n + (Levels - f) |-> ts2[t]]
    <3> DEFINE row(t) == [i \in Indices |->
                            IF \E k \in 1 .. Levels : t = node(k) /\ i = v[k]
                              THEN entry(CHOOSE k \in 1 .. Levels : t = node(k)) ELSE all[t][i]]
    <3>1. ts2 = [t \in 1 .. n + (Levels - f) |-> row(t)] BY <1>4, <1>5
    <3> HIDE DEF row
    <3> QED BY <3>1
  <2>5. ts2 \in [1 .. n + (Levels - f) -> [Indices -> AnyEntry \cup {NoEntry}]] BY <2>3, <2>4
  <2>6. n + (Levels - f) \in Nat /\ n + (Levels - f) = n + Levels - f BY <1>2
  <2> QED BY <2>5, <2>6
<1>14. Grown(tables, ts2, o, v, f, t0, e)
  <2>1. n + (Levels - f) = Len(ts2) BY <1>2, <1>13
  <2> QED BY <1>12, <1>13, <2>1 DEF Grown, n
<1> QED BY <1>6, <1>14 DEF e, ts2

\* Of all pages of all owners, only page v of o is mapped anew.
Written(ts, ts2, owner, path, owner2, path2, o, v, e) ==
  \A x \in Owners, w \in [1 .. Levels -> Indices] :
    Look(ts2, owner2, path2, x, w) = IF x = o /\ w = v THEN e ELSE Look(ts, owner, path, x, w)

\* So the tables are formed after it, and one page is written.
LEMMA GrownStep ==
  ASSUME Directories, NEW ts, NEW ts2, NEW pglv, NEW owner, NEW path, Formed(ts, pglv, owner, path),
         NEW o, NEW v, NEW f, NEW t0, NEW e \in Leaves(o), WayEnds(ts, owner, path, o, v, f, t0),
         Grown(ts, ts2, o, v, f, t0, e)
  PROVE  \E owner2, path2 :
           Formed(ts2, pglv, owner2, path2) /\ Written(ts, ts2, owner, path, owner2, path2, o, v, e)
<1>1. PICK owner2, path2 :
        /\ owner2 = GrownOwner(owner, Len(ts), Len(ts2), o)
        /\ path2 = GrownPath(path, Len(ts), Len(ts2), v, f)
  OBVIOUS
<1>2. Formed(ts2, pglv, owner2, path2) /\ Written(ts, ts2, owner, path, owner2, path2, o, v, e)
  BY <1>1, GrownLook DEF Written
<1> QED BY <1>2

\* The entry that resolve_cow writes.
LEMMA RewrittenIs ==
  ASSUME NEW e \in AnyEntry, NEW addr, NEW write
  PROVE  [e EXCEPT !.addr = addr, !.write = write] = Skel(addr, e.user, write)
<1> DEFINE d == [e EXCEPT !.addr = addr]
<1>1. d = [addr |-> addr, user |-> e.user, write |-> e.write] BY DEF AnyEntry
<1>2. [e EXCEPT !.addr = addr, !.write = write] = [d EXCEPT !.write = write] OBVIOUS
<1> HIDE DEF d
<1>3. [d EXCEPT !.write = write] = [addr |-> addr, user |-> e.user, write |-> write] BY <1>1
<1> QED BY <1>2, <1>3 DEF Skel

\* A mapping of a page has the rights of its owner.
LEMMA IsLeaf ==
  ASSUME NEW o, NEW page \in Pages, NEW user \in BOOLEAN, Rights(user, o),
         NEW w \in BOOLEAN, o \notin Procs => w = TRUE
  PROVE  Skel(page, user, w) \in Leaves(o) /\ Skel(page, user, w) \in AnyEntry
<1>1. Skel(page, user, w) \in AnyEntry BY DEF Skel, AnyEntry
<1>2. CASE o \in Procs
  <2>1. user = TRUE BY <1>2 DEF Rights
  <2> QED BY <1>1, <1>2, <2>1 DEF Leaves, Skel
<1>3. CASE o \notin Procs
  <2>1. user = FALSE /\ w = TRUE BY <1>3 DEF Rights
  <2> QED BY <1>1, <1>3, <2>1 DEF Leaves, Skel
<1> QED BY <1>2, <1>3

\* map_page and map_page_user keep the tables formed, and write one page of one owner.
LEMMA MapStep ==
  ASSUME Directories, NEW pglv, NEW owner, NEW path, Formed(tables, pglv, owner, path),
         NEW o, NEW r, NEW v \in [1 .. Levels -> Indices], Way(pglv, o, r, v),
         NEW page \in Pages, NEW user \in BOOLEAN, Rights(user, o),
         NEW ts2, ts2 = Mapped(r, v, page, user, TRUE)
  PROVE  \E owner2, path2 :
           /\ Formed(ts2, pglv, owner2, path2)
           /\ Written(tables, ts2, owner, path, owner2, path2, o, v, Skel(page, user, TRUE))
<1> DEFINE e == Skel(page, user, TRUE)
<1>1. PICK f, t0 : WayEnds(tables, owner, path, o, v, f, t0) /\ Grown(tables, ts2, o, v, f, t0, e)
  BY MappedGrows
<1>2. e \in Leaves(o) BY IsLeaf
<1> HIDE DEF e
<1>3. \E owner2, path2 :
        Formed(ts2, pglv, owner2, path2) /\ Written(tables, ts2, owner, path, owner2, path2, o, v, e)
  BY <1>1, <1>2, GrownStep
<1> QED BY <1>3 DEF e

\* So does resolve_cow.
LEMMA ResolveStep ==
  ASSUME Directories, NEW owner, NEW path, Formed(tables, m_pglv, owner, path),
         NEW p \in Procs, NEW v \in UserPages, NEW page \in Pages, resolve_cow(p, v, page)
  PROVE  \E owner2, path2 :
           /\ Formed(tables', m_pglv, owner2, path2)
           /\ Written(tables, tables', owner, path, owner2, path2, p, v, Skel(page, TRUE, TRUE))
<1> DEFINE e == Entry(m_pglv[p], v)
           a == Prefix(v, Levels - 1)
           leaf == Entry(m_pglv[p], Front(v)).addr
           e2 == Skel(page, TRUE, TRUE)
<1>1. /\ Levels \in Nat /\ Levels >= 2 /\ v \in [1 .. Levels -> Indices] /\ v \in Seq(Indices)
      /\ Len(v) = Levels /\ v[1] \notin Tops /\ v[Levels] \in Indices /\ v[1] \in Indices
      /\ p \in Owners /\ p # KernelOwner
  <2>1. v \in [1 .. Levels -> Indices] /\ v[1] \notin Tops BY DEF Directories
  <2>2. p \in Owners /\ p # KernelOwner BY OwnersDiffer DEF Owners
  <2> QED BY <2>1, <2>2, PagePaths DEF Directories
<1>2. Way(m_pglv, p, m_pglv[p], v) BY <1>1 DEF Way, resolve_cow, Exists
<1>3. e = Look(tables, owner, path, p, v)
  <2>1. Levels \in 0 .. Len(v) /\ Len(v) <= Levels BY <1>1
  <2>2. SubSeq(v, 1, Levels) = v BY <1>1, <2>1, PrefixFacts
  <2>3. Entry(m_pglv[p], SubSeq(v, 1, Levels)) = Met(tables, owner, path, p, m_pglv[p], v, Levels)
    BY <1>1, <1>2, <2>1, EntryMet
  <2>4. Met(tables, owner, path, p, m_pglv[p], v, Levels) = Look(tables, owner, path, p, v)
    <3>1. Levels # 0 BY <1>1
    <3> QED BY <3>1 DEF Met
  <2> QED BY <2>2, <2>3, <2>4
<1>4. e # NoEntry BY DEF resolve_cow
<1>5. e \in Leaves(p) /\ Has(owner, path, p, a) BY <1>1, <1>3, <1>4, LookIsLeaf
<1>6. leaf \in 1 .. Len(tables) /\ owner[leaf] = p /\ path[leaf] = a
  <2> DEFINE k == Levels - 1
  <2>1. k \in 0 .. Len(v) /\ k \in Nat /\ k # 0 /\ k # Levels /\ Len(v) <= Levels BY <1>1
  <2>2. Front(v) = SubSeq(v, 1, k) BY <1>1 DEF Front
  <2>3. Entry(m_pglv[p], SubSeq(v, 1, k)) = Met(tables, owner, path, p, m_pglv[p], v, k)
    <3> HIDE DEF k
    <3> QED BY <1>1, <1>2, <2>1, EntryMet
  <2>4. Met(tables, owner, path, p, m_pglv[p], v, k) =
          IF Has(owner, path, p, a) THEN Link(p, TableAt(owner, path, p, a)) ELSE NoEntry
    BY <2>1 DEF Met
  <2>5. Entry(m_pglv[p], Front(v)) = Link(p, TableAt(owner, path, p, a)) BY <1>5, <2>2, <2>3, <2>4
  <2> HIDE DEF a
  <2>6. /\ TableAt(owner, path, p, a) \in 1 .. Len(tables) /\ TableAt(owner, path, p, a) \in Nat
        /\ owner[TableAt(owner, path, p, a)] = p /\ path[TableAt(owner, path, p, a)] = a
    BY <1>1, <1>5, TableFacts
  <2>7. leaf = TableAt(owner, path, p, a) BY <2>5, <2>6, LinkFacts
  <2> QED BY <2>6, <2>7
<1>7. WayEnds(tables, owner, path, p, v, Levels, leaf)
  <2>1. Own(p, <<>>, v[1]) BY <1>1 DEF Own
  <2> HIDE DEF leaf
  <2> QED BY <1>1, <1>6, <2>1 DEF WayEnds
<1>8. tables' = [tables EXCEPT ![leaf][v[Levels]] = [e EXCEPT !.addr = page, !.write = TRUE]]
  <2> Last(v) = v[Levels] BY <1>1 DEF Last
  <2> QED BY DEF resolve_cow
<1>9. [e EXCEPT !.addr = page, !.write = TRUE] = e2
  <2>1. e \in AnyEntry /\ e.user = (p \in Procs) BY <1>5, LeafFacts
  <2>2. e.user = TRUE BY <2>1
  <2> HIDE DEF e
  <2> QED BY Zenon, <2>1, <2>2, RewrittenIs
<1> HIDE DEF e, leaf
<1>10. tables' = [tables EXCEPT ![leaf][v[Levels]] = e2] BY <1>8, <1>9
<1> DEFINE S == [Indices -> AnyEntry \cup {NoEntry}]
           n == Len(tables)
           row == [tables[leaf] EXCEPT ![v[Levels]] = e2]
<1>11. tables \in Seq(S) /\ n \in Nat /\ tables \in [1 .. n -> S]
  <2>1. tables \in Seq(S) BY DEF Formed, Typed
  <2> HIDE DEF S
  <2> QED BY <2>1, LenProperties
<1>12. e2 \in AnyEntry /\ e2 \in Leaves(p)
  <2> Rights(TRUE, p) BY DEF Rights
  <2> QED BY IsLeaf
<1>13. row \in S /\ \A i \in Indices : row[i] = IF i = v[Levels] THEN e2 ELSE tables[leaf][i]
  <2>1. tables[leaf] \in S BY <1>6, <1>11
  <2> QED BY <1>1, <1>12, <2>1
<1>14. tables' = [tables EXCEPT ![leaf] = row] BY <1>10
<1> HIDE DEF row, S
<1>15. tables' \in [1 .. n -> S] /\ \A t \in 1 .. n : tables'[t] = IF t = leaf THEN row ELSE tables[t]
  BY <1>6, <1>11, <1>13, <1>14
<1>16. tables' \in Seq(S) /\ Len(tables') = n BY <1>11, <1>15
<1>17. Grown(tables, tables', p, v, Levels, leaf, e2)
  <2>1. \A k \in Levels .. Levels : k = Levels /\ Node(n, leaf, Levels, k) = leaf BY <1>1 DEF Node
  <2>2. Len(tables') = n + Levels - Levels BY <1>1, <1>11, <1>16
  <2>3. \A k \in Levels .. Levels : tables'[Node(n, leaf, Levels, k)][v[k]] =
          IF k = Levels THEN e2 ELSE Link(p, Node(n, leaf, Levels, k + 1))
    BY <1>1, <1>6, <1>13, <1>15, <2>1
  <2>4. ASSUME NEW t \in 1 .. Len(tables'), NEW i \in Indices,
               \A k \in Levels .. Levels : ~ (t = Node(n, leaf, Levels, k) /\ i = v[k])
        PROVE  tables'[t][i] = IF t <= n THEN tables[t][i] ELSE NoEntry
    <3>1. Levels \in Levels .. Levels BY <1>1
    <3>2. ~ (t = leaf /\ i = v[Levels]) BY <2>1, <2>4, <3>1
    <3>3. t <= n /\ t \in 1 .. n BY <1>11, <1>16
    <3> QED BY <1>13, <1>15, <3>2, <3>3
  <2> QED BY <1>16, <2>2, <2>3, <2>4 DEF Grown, S
<1> HIDE DEF e2
<1>18. \E owner2, path2 :
         /\ Formed(tables', m_pglv, owner2, path2)
         /\ Written(tables, tables', owner, path, owner2, path2, p, v, e2)
  BY <1>7, <1>12, <1>17, GrownStep
<1> QED BY <1>18 DEF e2

-----------------------------------------------------------------------------
(* Trees that move to another owner *)

\* What a page becomes that may not be written.
LEMMA UnwritableFacts ==
  /\ Unwritable(NoEntry) = NoEntry
  /\ \A o \in Procs : \A e \in Leaves(o) : Directories => Unwritable(e) \in Leaves(o) /\ Unwritable(e) \in AnyEntry
<1>1. Unwritable(NoEntry) = NoEntry BY DEF Unwritable
<1>2. ASSUME NEW o \in Procs, NEW e \in Leaves(o), Directories
      PROVE  Unwritable(e) \in Leaves(o) /\ Unwritable(e) \in AnyEntry
  <2>1. e # NoEntry BY <1>2, LeafFacts
  <2>2. Unwritable(e) = [e EXCEPT !.write = FALSE] BY <2>1 DEF Unwritable
  <2>3. e \in [addr : Pages, user : {TRUE}, write : BOOLEAN] BY DEF Leaves
  <2>4. [e EXCEPT !.write = FALSE] \in [addr : Pages, user : {TRUE}, write : BOOLEAN] BY <2>3
  <2>5. Unwritable(e) \in Leaves(o) BY <2>2, <2>4 DEF Leaves
  <2> QED BY <1>2, <2>5, LeafFacts
<1> QED BY <1>1, <1>2

\* The last tables of y have what those of x had, or the same but not writable.
Moved(ts, owner, path, x, ts2, owner2, path2, y, keep) ==
  /\ \A t \in 1 .. Len(ts) : owner[t] = x /\ Len(path[t]) = Levels - 1 =>
       \E u \in 1 .. Len(ts2) :
         /\ owner2[u] = y /\ path2[u] = path[t]
         /\ \A i \in Indices : ts2[u][i] = IF keep THEN ts[t][i] ELSE Unwritable(ts[t][i])
  /\ \A u \in 1 .. Len(ts2) : owner2[u] = y /\ Len(path2[u]) = Levels - 1 =>
       Has(owner, path, x, path2[u])

\* Tables with the same trees map alike, or write no page.
LEMMA LookMoved ==
  ASSUME Directories,
         NEW ts, NEW pglv, NEW owner, NEW path, Formed(ts, pglv, owner, path), NEW x \in Owners,
         NEW ts2, NEW pglv2, NEW owner2, NEW path2, Formed(ts2, pglv2, owner2, path2), NEW y \in Owners,
         NEW keep \in BOOLEAN,
         Moved(ts, owner, path, x, ts2, owner2, path2, y, keep),
         NEW v \in [1 .. Levels -> Indices]
  PROVE  Look(ts2, owner2, path2, y, v) =
           IF keep THEN Look(ts, owner, path, x, v) ELSE Unwritable(Look(ts, owner, path, x, v))
<1> DEFINE a == Prefix(v, Levels - 1)
<1>1. Len(a) = Levels - 1 /\ v[Levels] \in Indices BY PagePaths
<1> HIDE DEF a
<1>2. CASE Has(owner, path, x, a)
  <2> DEFINE t == TableAt(owner, path, x, a)
  <2>1. t \in 1 .. Len(ts) /\ owner[t] = x /\ path[t] = a BY <1>2, TableFacts
  <2>2. PICK u \in 1 .. Len(ts2) :
          /\ owner2[u] = y /\ path2[u] = a
          /\ ts2[u][v[Levels]] = IF keep THEN ts[t][v[Levels]] ELSE Unwritable(ts[t][v[Levels]])
    <3>1. Len(path[t]) = Levels - 1 BY <1>1, <2>1
    <3> HIDE DEF t
    <3>2. \E u \in 1 .. Len(ts2) :
            /\ owner2[u] = y /\ path2[u] = path[t]
            /\ \A i \in Indices : ts2[u][i] = IF keep THEN ts[t][i] ELSE Unwritable(ts[t][i])
      BY <2>1, <3>1 DEF Moved
    <3> QED BY <1>1, <2>1, <3>2
  <2>3. Has(owner2, path2, y, a) /\ TableAt(owner2, path2, y, a) = u BY <2>2, TableFacts
  <2>4. Look(ts, owner, path, x, v) = ts[t][v[Levels]] BY <1>2 DEF Look, a
  <2>5. Look(ts2, owner2, path2, y, v) = ts2[u][v[Levels]] BY <2>3 DEF Look, a
  <2> QED BY <2>2, <2>4, <2>5
<1>3. CASE ~ Has(owner, path, x, a)
  <2>1. ~ Has(owner2, path2, y, a)
    <3>1. SUFFICES ASSUME Has(owner2, path2, y, a)
                   PROVE  FALSE
      OBVIOUS
    <3>2. PICK u \in 1 .. Len(ts2) : owner2[u] = y /\ path2[u] = a BY <3>1, TableFacts
    <3> QED BY <1>1, <1>3, <3>2 DEF Moved
  <2>2. Look(ts, owner, path, x, v) = NoEntry BY <1>3 DEF Look, a
  <2>3. Look(ts2, owner2, path2, y, v) = NoEntry BY <2>1 DEF Look, a
  <2> QED BY <2>2, <2>3, UnwritableFacts
<1> QED BY <1>2, <1>3

\* The kernel's directory holds nothing of the user's.
LEMMA KernelEntriesFacts ==
  ASSUME Directories, NEW ts, NEW pglv, NEW owner, NEW path, Formed(ts, pglv, owner, path),
         NEW i \in Indices, ts[Kernel][i] # NoEntry
  PROVE  ts[Kernel][i].user = FALSE /\ ts[Kernel][i] \in AnyEntry
<1>1. Kernel \in 1 .. Len(ts) /\ owner[Kernel] = KernelOwner /\ path[Kernel] = <<>> BY RootFacts
<1>2. KernelOwner \in Owners /\ KernelOwner \notin Procs BY OwnersDiffer DEF Owners
<1>3. Own(KernelOwner, <<>>, i) BY DEF Own
<1>4. Len(<<>>) # Levels - 1 BY DEF Directories
<1>5. PICK u \in 1 .. Len(ts) : ts[Kernel][i] = Link(KernelOwner, u)
  BY <1>1, <1>2, <1>3, <1>4 DEF Formed, Down
<1>6. u \in Nat BY <1>2, TableFacts
<1>7. (KernelOwner \in Procs) = FALSE BY <1>2
<1> QED BY <1>5, <1>6, <1>7, LinkFacts

-----------------------------------------------------------------------------
(* A new directory *)

\* create_user keeps the tables formed: the process maps nothing, the others what they did.
LEMMA CreateStep ==
  ASSUME Directories, NEW owner, NEW path, Formed(tables, m_pglv, owner, path),
         NEW p \in Procs, create_user(p)
  PROVE  \E owner2, path2 :
           /\ Formed(tables', m_pglv', owner2, path2)
           /\ \A x \in Owners, v \in [1 .. Levels -> Indices] :
                Look(tables', owner2, path2, x, v) =
                  IF x = p THEN NoEntry ELSE Look(tables, owner, path, x, v)
<1> DEFINE n == Len(tables)
           owner2 == [t \in 1 .. n + 1 |-> IF t = n + 1 THEN p ELSE IF owner[t] = p THEN Nobody ELSE owner[t]]
           path2 == [t \in 1 .. n + 1 |-> IF t = n + 1 THEN <<>> ELSE path[t]]
           S == [Indices -> AnyEntry \cup {NoEntry}]
<1>1. /\ tables \in Seq(S) /\ n \in Nat \ {0} /\ tables \in [1 .. n -> S]
      /\ owner \in [1 .. n -> Owners \cup {Nobody}] /\ path \in [1 .. n -> Paths]
      /\ m_pglv \in [Procs -> 0 .. n]
  <2>1. tables \in Seq(S) /\ n >= 1 BY DEF Formed, Typed
  <2>2. n \in Nat /\ tables \in [1 .. n -> S]
    <3> HIDE DEF S
    <3> QED BY <2>1, LenProperties
  <2> QED BY <2>1, <2>2 DEF Formed, Typed
<1>2. Kernel \in 1 .. n /\ Kernel = 1 BY <1>1 DEF Kernel
<1>3. p \in Owners /\ p # KernelOwner /\ Nobody \notin Owners BY OwnersDiffer DEF Owners
<1>4. tables' = Append(tables, tables[Kernel])
  <2> DEFINE row == [i \in Indices |->
               LET e == tables[Kernel][i] IN IF e # NoEntry /\ ~e.user THEN e ELSE NoEntry]
  <2>1. tables' = Append(tables, row) BY DEF create_user
  <2>2. \A i \in Indices : row[i] = tables[Kernel][i]
    <3>1. \A i \in Indices : tables[Kernel][i] # NoEntry => tables[Kernel][i].user = FALSE
      BY KernelEntriesFacts
    <3> QED BY <3>1
  <2>3. tables[Kernel] \in S BY <1>1, <1>2
  <2>4. row = [i \in Indices |-> row[i]] OBVIOUS
  <2> HIDE DEF row
  <2>5. row = tables[Kernel] BY <2>2, <2>3, <2>4
  <2> QED BY <2>1, <2>5
<1>5. /\ tables' \in Seq(S) /\ Len(tables') = n + 1 /\ tables'[n + 1] = tables[Kernel]
      /\ \A t \in 1 .. n : tables'[t] = tables[t]
  <2>1. tables[Kernel] \in S BY <1>1, <1>2
  <2> HIDE DEF S
  <2> QED BY <1>1, <1>4, <2>1, AppendProperties
<1>6. m_pglv' = [m_pglv EXCEPT ![p] = n + 1] BY <1>5 DEF create_user
<1>7. /\ owner2 \in [1 .. n + 1 -> Owners \cup {Nobody}] /\ path2 \in [1 .. n + 1 -> Paths]
      /\ owner2[n + 1] = p /\ path2[n + 1] = <<>>
      /\ \A t \in 1 .. n : t # n + 1 /\ owner2[t] = (IF owner[t] = p THEN Nobody ELSE owner[t]) /\ path2[t] = path[t]
      /\ \A t \in 1 .. n + 1 : t \in 1 .. n \/ t = n + 1
      /\ 1 .. n \subseteq 1 .. n + 1 /\ n + 1 \in 1 .. n + 1
  <2>1. <<>> \in Paths
    <3>1. 0 \in 0 .. Levels - 1 BY DEF Directories
    <3>2. <<>> \in [1 .. 0 -> Indices] OBVIOUS
    <3> QED BY <3>1, <3>2 DEF Paths
  <2> QED BY <1>1, <1>3, <2>1
<1>8. \A t \in 1 .. n + 1 : owner2[t] \in Owners =>
        \/ t = n + 1
        \/ t \in 1 .. n /\ owner2[t] = owner[t] /\ owner[t] # p
  BY <1>3, <1>7
<1> HIDE DEF owner2, path2, S
<1>9. Typed(tables', m_pglv', owner2, path2)
  <2>1. m_pglv' \in [Procs -> 0 .. n + 1] BY <1>1, <1>6
  <2> QED BY <1>1, <1>5, <1>7, <2>1 DEF Typed, S
<1>10. Rooted(tables', m_pglv', owner2, path2)
  <2>1. ASSUME NEW o \in Owners, Root(m_pglv', o) # 0
        PROVE  owner2[Root(m_pglv', o)] = o /\ path2[Root(m_pglv', o)] = <<>>
    <3>1. CASE o = p BY <1>1, <1>3, <1>6, <1>7, <3>1 DEF Root
    <3>2. CASE o # p
      <4>1. Root(m_pglv', o) = Root(m_pglv, o) BY <1>1, <1>6, <3>2 DEF Root, Owners
      <4>2. Root(m_pglv, o) \in 1 .. n BY <1>1, <1>2, <2>1, <4>1 DEF Root, Owners
      <4>3. owner[Root(m_pglv, o)] = o /\ path[Root(m_pglv, o)] = <<>> BY <2>1, <4>1 DEF Formed, Rooted
      <4> QED BY <1>7, <3>2, <4>1, <4>2, <4>3
    <3> QED BY <3>1, <3>2
  <2>2. ASSUME NEW t \in 1 .. n + 1, owner2[t] \in Procs
        PROVE  m_pglv'[owner2[t]] # 0
    <3>1. CASE t = n + 1 BY <1>1, <1>6, <1>7, <3>1
    <3>2. CASE t \in 1 .. n
      <4>1. owner2[t] = owner[t] /\ owner[t] # p BY <1>7, <1>8, <2>2, <3>2 DEF Owners
      <4>2. m_pglv[owner[t]] # 0 BY <2>2, <3>2, <4>1 DEF Formed, Rooted
      <4> QED BY <1>1, <1>6, <2>2, <4>1, <4>2
    <3> QED BY <1>7, <3>1, <3>2
  <2> QED BY <1>5, <2>1, <2>2 DEF Rooted
<1>11. Apart(tables', owner2, path2)
  <2> SUFFICES ASSUME NEW t \in 1 .. n + 1, NEW u \in 1 .. n + 1,
                      owner2[t] \in Owners, owner2[t] = owner2[u], path2[t] = path2[u]
               PROVE  t = u
    BY <1>5 DEF Apart
  <2>1. CASE t = n + 1 BY <1>7, <1>8, <2>1
  <2>2. CASE u = n + 1 BY <1>7, <1>8, <2>2
  <2>3. CASE t \in 1 .. n /\ u \in 1 .. n
    <3>1. owner2[t] = owner[t] /\ owner2[u] = owner[u] BY <1>7, <1>8, <2>3
    <3>2. path[t] = path[u] BY <1>7, <2>3
    <3> QED BY <2>3, <3>1, <3>2 DEF Formed, Apart
  <2> QED BY <1>7, <2>1, <2>2, <2>3
<1>12. Down(tables', owner2, path2)
  <2> SUFFICES ASSUME NEW t \in 1 .. n + 1, NEW i \in Indices,
                      owner2[t] \in Owners, Own(owner2[t], path2[t], i), tables'[t][i] # NoEntry
               PROVE  IF Len(path2[t]) = Levels - 1 THEN tables'[t][i] \in Leaves(owner2[t])
                      ELSE \E u \in 1 .. n + 1 :
                             /\ tables'[t][i] = Link(owner2[t], u)
                             /\ owner2[u] = owner2[t] /\ Child(path2[u], path2[t], i)
    BY <1>5 DEF Down
  <2>1. CASE t = n + 1
    <3>1. i \notin Tops BY <1>3, <1>7, <2>1 DEF Own
    <3>2. tables[Kernel][i] = NoEntry BY <3>1 DEF Formed, Shared
    <3> QED BY <1>5, <2>1, <3>2
  <2>2. CASE t \in 1 .. n
    <3>1. owner2[t] = owner[t] /\ owner[t] # p /\ path2[t] = path[t] /\ tables'[t] = tables[t]
      BY <1>5, <1>7, <1>8, <2>2
    <3>2. IF Len(path[t]) = Levels - 1 THEN tables[t][i] \in Leaves(owner[t])
          ELSE \E u \in 1 .. n :
                 /\ tables[t][i] = Link(owner[t], u)
                 /\ owner[u] = owner[t] /\ Child(path[u], path[t], i)
      BY <2>2, <3>1 DEF Formed, Down
    <3> QED BY <1>7, <3>1, <3>2
  <2> QED BY <1>7, <2>1, <2>2
<1>13. Up(tables', owner2, path2)
  <2> SUFFICES ASSUME NEW t \in 1 .. n + 1, owner2[t] \in Owners, path2[t] # <<>>
               PROVE  \E u \in 1 .. n + 1, i \in Indices :
                        /\ owner2[u] = owner2[t] /\ Child(path2[t], path2[u], i)
                        /\ Own(owner2[t], path2[u], i) /\ tables'[u][i] = Link(owner2[t], t)
    BY <1>5 DEF Up
  <2>1. t \in 1 .. n /\ owner2[t] = owner[t] /\ owner[t] # p /\ path2[t] = path[t]
    BY <1>7, <1>8
  <2>2. PICK u \in 1 .. n, i \in Indices :
          /\ owner[u] = owner[t] /\ Child(path[t], path[u], i)
          /\ Own(owner[t], path[u], i) /\ tables[u][i] = Link(owner[t], t)
    BY <2>1 DEF Formed, Up
  <2>3. owner2[u] = owner[t] /\ path2[u] = path[u] /\ tables'[u] = tables[u] /\ u \in 1 .. n + 1
    BY <1>5, <1>7, <2>1, <2>2
  <2> QED BY <2>1, <2>2, <2>3
<1>14. Shared(tables', m_pglv')
  <2>1. tables'[Kernel] = tables[Kernel] BY <1>2, <1>5
  <2>2. ASSUME NEW x \in Procs, NEW i \in Tops, m_pglv'[x] # 0
        PROVE  tables'[m_pglv'[x]][i] = tables'[Kernel][i]
    <3>1. CASE x = p BY <1>1, <1>5, <1>6, <2>1, <3>1
    <3>2. CASE x # p
      <4>1. m_pglv'[x] = m_pglv[x] /\ m_pglv[x] \in 1 .. n BY <1>1, <1>6, <2>2, <3>2
      <4>2. tables[m_pglv[x]][i] = tables[Kernel][i] BY <2>2, <4>1 DEF Formed, Shared
      <4> QED BY <1>5, <2>1, <4>1, <4>2
    <3> QED BY <3>1, <3>2
  <2> QED BY <2>1, <2>2 DEF Formed, Shared
<1>15. Formed(tables', m_pglv', owner2, path2) BY <1>9, <1>10, <1>11, <1>12, <1>13, <1>14 DEF Formed
<1>16. ASSUME NEW x \in Owners, NEW v \in [1 .. Levels -> Indices]
       PROVE  Look(tables', owner2, path2, x, v) = IF x = p THEN NoEntry ELSE Look(tables, owner, path, x, v)
  <2>1. CASE x = p
    <3> DEFINE a == Prefix(v, Levels - 1)
    <3>1. a # <<>> BY PagePaths
    <3> HIDE DEF a
    <3>2. ~ Has(owner2, path2, p, a)
      <4>1. SUFFICES ASSUME Has(owner2, path2, p, a)
                     PROVE  FALSE
        OBVIOUS
      <4>2. PICK t \in 1 .. n + 1 : owner2[t] = p /\ path2[t] = a BY <1>3, <1>5, <1>15, <4>1, TableFacts
      <4> QED BY <1>3, <1>7, <1>8, <3>1, <4>2
    <3> QED BY <2>1, <3>2 DEF Look, a
  <2>2. CASE x # p
    <3>1. \A t \in 1 .. n : owner[t] = x => t \in 1 .. n + 1 /\ owner2[t] = x /\ path2[t] = path[t] /\ tables'[t] = tables[t]
      BY <1>5, <1>7, <2>2
    <3>2. \A u \in 1 .. n + 1 : owner2[u] = x => u \in 1 .. n /\ owner[u] = x /\ path2[u] = path[u]
      BY <1>7, <1>8, <2>2
    <3>0. PICK keep \in BOOLEAN : keep = TRUE OBVIOUS
    <3>3. \A t \in 1 .. Len(tables) : owner[t] = x /\ Len(path[t]) = Levels - 1 =>
            \E u \in 1 .. Len(tables') :
              /\ owner2[u] = x /\ path2[u] = path[t]
              /\ \A i \in Indices : tables'[u][i] = IF keep THEN tables[t][i] ELSE Unwritable(tables[t][i])
      BY <1>5, <3>0, <3>1
    <3>4. \A u \in 1 .. Len(tables') : owner2[u] = x /\ Len(path2[u]) = Levels - 1 =>
            Has(owner, path, x, path2[u])
      BY <1>5, <3>2, TableFacts
    <3>5. Look(tables', owner2, path2, x, v) =
            IF keep THEN Look(tables, owner, path, x, v) ELSE Unwritable(Look(tables, owner, path, x, v))
      <4> Moved(tables, owner, path, x, tables', owner2, path2, x, keep) BY <3>3, <3>4 DEF Moved
      <4> QED BY <1>15, LookMoved
    <3> QED BY <2>2, <3>0, <3>5
  <2> QED BY <2>1, <2>2
<1> QED BY <1>15, <1>16

-----------------------------------------------------------------------------
(* Copies of the tables of a process *)

\* Tables for process q, in the places that paths lists, as those that p has there.
Copies(ts, ts2, owner, path, p, q, paths) ==
  LET n == Len(ts)
      m == Len(paths) IN
  /\ paths \in Seq(Paths)
  /\ \A j, k \in 1 .. m : paths[j] = paths[k] => j = k
  /\ \A t \in 1 .. n : owner[t] = p => \E k \in 1 .. m : paths[k] = path[t]
  /\ \A k \in 1 .. m : \E t \in 1 .. n : owner[t] = p /\ path[t] = paths[k]
  /\ ts2 \in Seq([Indices -> AnyEntry \cup {NoEntry}]) /\ Len(ts2) = n + m
  /\ \A t \in 1 .. n, i \in Indices :
       ts2[t][i] = IF owner[t] = p /\ Len(path[t]) = Levels - 1 THEN Unwritable(ts[t][i]) ELSE ts[t][i]
  /\ \A k \in 1 .. m, t \in 1 .. n, i \in Indices :
       owner[t] = p /\ path[t] = paths[k] =>
         \/ Len(path[t]) = Levels - 1 /\ ts2[n + k][i] = Unwritable(ts[t][i])
         \/ /\ Len(path[t]) # Levels - 1 /\ (ts[t][i] = NoEntry \/ ~ Own(p, path[t], i))
            /\ ts2[n + k][i] = ts[t][i]
         \/ /\ Len(path[t]) # Levels - 1 /\ ts[t][i] # NoEntry /\ Own(p, path[t], i)
            /\ \E j \in 1 .. m : Child(paths[j], path[t], i) /\ ts2[n + k][i] = Link(q, n + j)

\* Who owns the tables after the copy, and their paths.
CopiesOwner(owner, n, m, q) == [t \in 1 .. n + m |-> IF t <= n THEN owner[t] ELSE q]
CopiesPath(path, n, m, paths) == [t \in 1 .. n + m |-> IF t <= n THEN path[t] ELSE paths[t - n]]

\* The copies have the child as their owner, whose directory is the first of them.
CopiesNamed(ts, pglv, pglv2, owner, path, owner2, path2, q, paths, first) ==
  /\ pglv2 = [pglv EXCEPT ![q] = Len(ts) + first]
  /\ owner2 = CopiesOwner(owner, Len(ts), Len(paths), q)
  /\ path2 = CopiesPath(path, Len(ts), Len(paths), paths)

\* Parent and child map what the parent did, and write nothing; the others map what they did.
MapsAfterFork(ts, owner, path, ts2, owner2, path2, p, q) ==
  \A x \in Owners, v \in [1 .. Levels -> Indices] :
    Look(ts2, owner2, path2, x, v) =
      IF x \in {p, q} THEN Unwritable(Look(ts, owner, path, p, v)) ELSE Look(ts, owner, path, x, v)

\* Copies keep the tables formed: parent and child map alike and write nothing.
LEMMA CopiesFormed ==
  ASSUME Directories, NEW ts, NEW ts2, NEW pglv, NEW pglv2, NEW owner, NEW path,
         Formed(ts, pglv, owner, path), NEW p \in Procs, NEW q \in Procs, pglv[p] # 0, pglv[q] = 0,
         NEW paths, Copies(ts, ts2, owner, path, p, q, paths),
         NEW first \in 1 .. Len(paths), paths[first] = <<>>, NEW owner2, NEW path2,
         CopiesNamed(ts, pglv, pglv2, owner, path, owner2, path2, q, paths, first)
  PROVE  /\ Formed(ts2, pglv2, owner2, path2)
         /\ MapsAfterFork(ts, owner, path, ts2, owner2, path2, p, q)
<1> DEFINE n == Len(ts)
           m == Len(paths)
<1>1. /\ n \in Nat \ {0} /\ m \in Nat /\ Len(ts2) = n + m /\ Levels \in Nat /\ Levels >= 2
      /\ owner \in [1 .. n -> Owners \cup {Nobody}] /\ path \in [1 .. n -> Paths]
      /\ paths \in [1 .. m -> Paths] /\ pglv \in [Procs -> 0 .. n] /\ Kernel = 1
      /\ p \in Owners /\ q \in Owners /\ KernelOwner \notin Procs /\ Nobody \notin Owners /\ p # q
  <2>1. p \in Owners /\ q \in Owners /\ KernelOwner \notin Procs /\ Nobody \notin Owners
    BY OwnersDiffer DEF Owners
  <2>2. n \in Nat \ {0} BY <2>1, TableFacts
  <2>3. m \in Nat /\ paths \in [1 .. m -> Paths]
    <3> paths \in Seq(Paths) BY DEF Copies
    <3> QED BY LenProperties
  <2>4. Len(ts2) = n + m BY DEF Copies
  <2> QED BY <2>1, <2>2, <2>3, <2>4 DEF Formed, Typed, Directories, Kernel
<1>2. /\ owner2 \in [1 .. n + m -> Owners \cup {Nobody}] /\ path2 \in [1 .. n + m -> Paths]
      /\ \A t \in 1 .. n : t \in 1 .. n + m /\ owner2[t] = owner[t] /\ path2[t] = path[t]
      /\ \A k \in 1 .. m : n + k \in 1 .. n + m /\ owner2[n + k] = q /\ path2[n + k] = paths[k]
      /\ \A t \in 1 .. n + m : t \in 1 .. n \/ \E k \in 1 .. m : t = n + k
  <2>1. \A t \in 1 .. n + m : t \notin 1 .. n => t - n \in 1 .. m /\ t = n + (t - n) BY <1>1
  <2>2. \A t \in 1 .. n : t <= n /\ t \in 1 .. n + m BY <1>1
  <2>3. \A k \in 1 .. m : ~ (n + k <= n) /\ n + k \in 1 .. n + m /\ (n + k) - n = k BY <1>1
  <2>4. owner2 = [t \in 1 .. n + m |-> IF t <= n THEN owner[t] ELSE q] BY DEF CopiesNamed, CopiesOwner
  <2>5. path2 = [t \in 1 .. n + m |-> IF t <= n THEN path[t] ELSE paths[t - n]] BY DEF CopiesNamed, CopiesPath
  <2>6. \A t \in 1 .. n : t \in 1 .. n + m /\ owner2[t] = owner[t] /\ path2[t] = path[t] BY <2>2, <2>4, <2>5
  <2>7. \A k \in 1 .. m : n + k \in 1 .. n + m /\ owner2[n + k] = q /\ path2[n + k] = paths[k]
    BY <2>3, <2>4, <2>5
  <2>8. \A t \in 1 .. n + m : t \in 1 .. n \/ \E k \in 1 .. m : t = n + k BY <2>1
  <2>9. \A t \in 1 .. n + m : owner2[t] \in Owners \cup {Nobody} /\ path2[t] \in Paths
    <3> SUFFICES ASSUME NEW t \in 1 .. n + m
                 PROVE  owner2[t] \in Owners \cup {Nobody} /\ path2[t] \in Paths
      OBVIOUS
    <3>1. CASE t \in 1 .. n BY <1>1, <2>6, <3>1
    <3>2. ASSUME NEW k \in 1 .. m, t = n + k
          PROVE  owner2[t] \in Owners \cup {Nobody} /\ path2[t] \in Paths
      BY <1>1, <2>7, <3>2
    <3> QED BY <2>8, <3>1, <3>2
  <2>10. owner2 \in [1 .. n + m -> Owners \cup {Nobody}] BY <2>4, <2>9
  <2>11. path2 \in [1 .. n + m -> Paths] BY <2>5, <2>9
  <2> QED BY <2>6, <2>7, <2>8, <2>10, <2>11
<1>3. \A t \in 1 .. n : owner[t] # q BY <1>1 DEF Formed, Rooted
<1>4. /\ \A j, k \in 1 .. m : paths[j] = paths[k] => j = k
      /\ \A t \in 1 .. n : owner[t] = p => \E k \in 1 .. m : paths[k] = path[t]
      /\ \A k \in 1 .. m : \E t \in 1 .. n : owner[t] = p /\ path[t] = paths[k]
      /\ ts2 \in Seq([Indices -> AnyEntry \cup {NoEntry}])
      /\ \A t \in 1 .. n, i \in Indices :
           ts2[t][i] = IF owner[t] = p /\ Len(path[t]) = Levels - 1 THEN Unwritable(ts[t][i]) ELSE ts[t][i]
  BY DEF Copies
<1>5. \A k \in 1 .. m, t \in 1 .. n, i \in Indices :
       owner[t] = p /\ path[t] = paths[k] =>
         \/ Len(path[t]) = Levels - 1 /\ ts2[n + k][i] = Unwritable(ts[t][i])
         \/ /\ Len(path[t]) # Levels - 1 /\ (ts[t][i] = NoEntry \/ ~ Own(p, path[t], i))
            /\ ts2[n + k][i] = ts[t][i]
         \/ /\ Len(path[t]) # Levels - 1 /\ ts[t][i] # NoEntry /\ Own(p, path[t], i)
            /\ \E j \in 1 .. m : Child(paths[j], path[t], i) /\ ts2[n + k][i] = Link(q, n + j)
  BY DEF Copies
<1>6. pglv2[q] = n + first /\ \A x \in Procs \ {q} : pglv2[x] = pglv[x] BY <1>1 DEF CopiesNamed
<1>7. pglv2 \in [Procs -> 0 .. n + m]
  <2>1. n + first \in 0 .. n + m BY <1>1
  <2>2. \A x \in Procs : pglv[x] \in 0 .. n + m BY <1>1
  <2> QED BY <1>1, <2>1, <2>2 DEF CopiesNamed
<1>8. Typed(ts2, pglv2, owner2, path2) BY <1>1, <1>2, <1>4, <1>7 DEF Typed
<1> HIDE DEF n, m
<1>9. Rooted(ts2, pglv2, owner2, path2)
  <2>1. ASSUME NEW o \in Owners, Root(pglv2, o) # 0
        PROVE  owner2[Root(pglv2, o)] = o /\ path2[Root(pglv2, o)] = <<>>
    <3>1. CASE o = q BY <1>1, <1>2, <1>6, <3>1 DEF Root, m
    <3>2. CASE o # q
      <4>1. Root(pglv2, o) = Root(pglv, o) BY <1>1, <1>6, <3>2 DEF Root, Owners
      <4>2. Root(pglv, o) \in 1 .. n BY <1>1, <2>1, <4>1 DEF Root, Owners
      <4>3. owner[Root(pglv, o)] = o /\ path[Root(pglv, o)] = <<>> BY <2>1, <4>1 DEF Formed, Rooted
      <4> QED BY <1>2, <4>1, <4>2, <4>3
    <3> QED BY <3>1, <3>2
  <2>2. ASSUME NEW t \in 1 .. n + m, owner2[t] \in Procs
        PROVE  pglv2[owner2[t]] # 0
    <3>1. CASE owner2[t] = q BY <1>1, <1>6, <3>1
    <3>2. CASE owner2[t] # q
      <4>1. t \in 1 .. n /\ owner2[t] = owner[t] BY <1>2, <3>2
      <4>2. pglv[owner[t]] # 0 BY <2>2, <4>1 DEF Formed, Rooted, n
      <4> QED BY <1>6, <2>2, <3>2, <4>1, <4>2
    <3> QED BY <3>1, <3>2
  <2> QED BY <1>1, <2>1, <2>2 DEF Rooted
<1>10. Apart(ts2, owner2, path2)
  <2> SUFFICES ASSUME NEW t \in 1 .. n + m, NEW u \in 1 .. n + m,
                      owner2[t] \in Owners, owner2[t] = owner2[u], path2[t] = path2[u]
               PROVE  t = u
    BY <1>1 DEF Apart
  <2>1. CASE owner2[t] = q
    <3>1. PICK j \in 1 .. m : t = n + j BY <1>2, <1>3, <2>1
    <3>2. PICK k \in 1 .. m : u = n + k BY <1>2, <1>3, <2>1
    <3>3. paths[j] = paths[k] BY <1>2, <3>1, <3>2
    <3> QED BY <1>4, <3>1, <3>2, <3>3
  <2>2. CASE owner2[t] # q
    <3>1. t \in 1 .. n /\ u \in 1 .. n BY <1>2, <2>2
    <3> QED BY <1>2, <3>1 DEF Formed, Apart, n
  <2> QED BY <2>1, <2>2
<1>11. Down(ts2, owner2, path2)
  <2> SUFFICES ASSUME NEW t \in 1 .. n + m, NEW i \in Indices,
                      owner2[t] \in Owners, Own(owner2[t], path2[t], i), ts2[t][i] # NoEntry
               PROVE  IF Len(path2[t]) = Levels - 1 THEN ts2[t][i] \in Leaves(owner2[t])
                      ELSE \E u \in 1 .. n + m :
                             /\ ts2[t][i] = Link(owner2[t], u)
                             /\ owner2[u] = owner2[t] /\ Child(path2[u], path2[t], i)
    BY <1>1 DEF Down
  <2>1. ASSUME NEW s \in 1 .. n, owner[s] \in Owners, Own(owner[s], path[s], i), ts[s][i] # NoEntry
        PROVE  IF Len(path[s]) = Levels - 1 THEN ts[s][i] \in Leaves(owner[s])
               ELSE \E u \in 1 .. n :
                      /\ ts[s][i] = Link(owner[s], u)
                      /\ owner[u] = owner[s] /\ Child(path[u], path[s], i)
    BY <2>1 DEF Formed, Down, n
  <2>2. ASSUME NEW s \in 1 .. n, owner[s] = p, Len(path[s]) = Levels - 1, Unwritable(ts[s][i]) # NoEntry
        PROVE  Unwritable(ts[s][i]) \in Leaves(p) /\ Unwritable(ts[s][i]) \in Leaves(q)
    <3>1. ts[s][i] # NoEntry BY <2>2, UnwritableFacts
    <3>2. Own(p, path[s], i)
      <4> path[s] # <<>> BY <1>1, <2>2
      <4> QED BY DEF Own
    <3>3. ts[s][i] \in Leaves(p) BY <1>1, <2>1, <2>2, <3>1, <3>2
    <3>4. Leaves(q) = Leaves(p) BY DEF Leaves
    <3> QED BY <3>3, <3>4, UnwritableFacts
  <2>3. CASE t \in 1 .. n
    <3>1. owner2[t] = owner[t] /\ path2[t] = path[t] BY <1>2, <2>3
    <3>2. CASE owner[t] = p /\ Len(path[t]) = Levels - 1
      <4>1. ts2[t][i] = Unwritable(ts[t][i]) BY <1>4, <2>3, <3>2
      <4> QED BY <2>2, <2>3, <3>1, <3>2, <4>1
    <3>3. CASE ~ (owner[t] = p /\ Len(path[t]) = Levels - 1)
      <4>1. ts2[t][i] = ts[t][i] BY <1>4, <2>3, <3>3
      <4>2. IF Len(path[t]) = Levels - 1 THEN ts[t][i] \in Leaves(owner[t])
            ELSE \E u \in 1 .. n :
                   /\ ts[t][i] = Link(owner[t], u)
                   /\ owner[u] = owner[t] /\ Child(path[u], path[t], i)
        BY <2>1, <2>3, <3>1, <4>1
      <4> QED BY <1>2, <3>1, <4>1, <4>2
    <3> QED BY <3>2, <3>3
  <2>4. ASSUME NEW k \in 1 .. m, t = n + k
        PROVE  IF Len(path2[t]) = Levels - 1 THEN ts2[t][i] \in Leaves(owner2[t])
               ELSE \E u \in 1 .. n + m :
                      /\ ts2[t][i] = Link(owner2[t], u)
                      /\ owner2[u] = owner2[t] /\ Child(path2[u], path2[t], i)
    <3>1. PICK s \in 1 .. n : owner[s] = p /\ path[s] = paths[k] BY <1>4
    <3>2. owner2[t] = q /\ path2[t] = path[s] BY <1>2, <2>4, <3>1
    <3>3. CASE Len(path[s]) = Levels - 1
      <4>1. ts2[t][i] = Unwritable(ts[s][i]) BY <1>5, <2>4, <3>1, <3>3
      <4> QED BY <2>2, <3>1, <3>2, <3>3, <4>1
    <3>4. CASE Len(path[s]) # Levels - 1
      <4>1. Own(p, path[s], i)
        <5> p # KernelOwner /\ q # KernelOwner BY <1>1
        <5> QED BY <3>2 DEF Own
      <4>2. PICK j \in 1 .. m : Child(paths[j], path[s], i) /\ ts2[t][i] = Link(q, n + j)
        <5>1. \/ ts[s][i] = NoEntry /\ ts2[n + k][i] = ts[s][i]
              \/ \E j \in 1 .. m : Child(paths[j], path[s], i) /\ ts2[n + k][i] = Link(q, n + j)
          BY <1>5, <3>1, <3>4, <4>1
        <5> QED BY <2>4, <5>1
      <4>3. n + j \in 1 .. n + m /\ owner2[n + j] = q /\ path2[n + j] = paths[j] BY <1>2
      <4> QED BY <3>2, <3>4, <4>2, <4>3
    <3> QED BY <3>3, <3>4
  <2> QED BY <1>2, <2>3, <2>4
<1>12. Up(ts2, owner2, path2)
  <2>0. Len(ts2) = n + m BY <1>1
  <2> SUFFICES ASSUME NEW t \in 1 .. Len(ts2), owner2[t] \in Owners, path2[t] # <<>>
               PROVE  \E u \in 1 .. Len(ts2), i \in Indices :
                        /\ owner2[u] = owner2[t] /\ Child(path2[t], path2[u], i)
                        /\ Own(owner2[t], path2[u], i) /\ ts2[u][i] = Link(owner2[t], t)
    BY DEF Up
  <2>1. ASSUME NEW s \in 1 .. n, owner[s] \in Owners, path[s] # <<>>
        PROVE  \E u \in 1 .. n, i \in Indices :
                 /\ owner[u] = owner[s] /\ Child(path[s], path[u], i)
                 /\ Own(owner[s], path[u], i) /\ ts[u][i] = Link(owner[s], s)
                 /\ Len(path[u]) # Levels - 1
    <3>1. PICK u \in 1 .. n, i \in Indices :
            /\ owner[u] = owner[s] /\ Child(path[s], path[u], i)
            /\ Own(owner[s], path[u], i) /\ ts[u][i] = Link(owner[s], s)
      BY <2>1 DEF Formed, Up, n
    <3>2. path[u] \in Seq(Indices) /\ path[s] \in Seq(Indices) /\ Len(path[s]) \in 0 .. Levels - 1
          /\ Len(path[u]) \in 0 .. Levels - 1
      BY <1>1, PathsAreSequences
    <3>3. Len(path[s]) = Len(path[u]) + 1 BY <3>1, <3>2, ChildFacts
    <3>4. Len(path[u]) # Levels - 1 BY <1>1, <3>2, <3>3
    <3> QED BY <3>1, <3>4
  <2>2. CASE t \in 1 .. n
    <3>1. owner2[t] = owner[t] /\ path2[t] = path[t] BY <1>2, <2>2
    <3>2. PICK u \in 1 .. n, i \in Indices :
            /\ owner[u] = owner[t] /\ Child(path[t], path[u], i)
            /\ Own(owner[t], path[u], i) /\ ts[u][i] = Link(owner[t], t)
            /\ Len(path[u]) # Levels - 1
      BY <2>1, <2>2, <3>1
    <3>3. ts2[u][i] = ts[u][i] BY <1>4, <3>2
    <3>4. owner2[u] = owner[u] /\ path2[u] = path[u] /\ u \in 1 .. n + m BY <1>2
    <3> QED BY <2>0, <3>1, <3>2, <3>3, <3>4
  <2>3. ASSUME NEW k \in 1 .. m, t = n + k
        PROVE  \E u \in 1 .. Len(ts2), i \in Indices :
                 /\ owner2[u] = owner2[t] /\ Child(path2[t], path2[u], i)
                 /\ Own(owner2[t], path2[u], i) /\ ts2[u][i] = Link(owner2[t], t)
    <3>1. PICK s \in 1 .. n : owner[s] = p /\ path[s] = paths[k] BY <1>4
    <3>2. owner2[t] = q /\ path2[t] = path[s] /\ path[s] = paths[k] BY <1>2, <2>3, <3>1
    <3>3. PICK w \in 1 .. n, i \in Indices :
            /\ owner[w] = p /\ Child(path[s], path[w], i)
            /\ Own(p, path[w], i) /\ ts[w][i] = Link(p, s)
            /\ Len(path[w]) # Levels - 1
      BY <1>1, <2>1, <3>1, <3>2
    <3>4. PICK l \in 1 .. m : paths[l] = path[w] BY <1>4, <3>3
    <3>5. ts[w][i] # NoEntry
      <4>1. s \in Nat BY <1>1
      <4>2. Link(p, s) # NoEntry BY <4>1, LinkFacts
      <4> QED BY <3>3, <4>2
    <3>6. PICK j \in 1 .. m : Child(paths[j], path[w], i) /\ ts2[n + l][i] = Link(q, n + j)
      BY <1>5, <3>3, <3>4, <3>5
    <3>7. j = k
      <4>1. path[w] \in Seq(Indices) /\ paths[j] \in Seq(Indices) /\ path[s] \in Seq(Indices)
        BY <1>1, PathsAreSequences
      <4>2. paths[j] = path[s] BY <3>3, <3>6, <4>1, ChildFacts
      <4>3. paths[j] = paths[k] BY <3>2, <4>2
      <4> QED BY <1>4, <4>3
    <3>8. owner2[n + l] = q /\ path2[n + l] = path[w] /\ n + l \in 1 .. n + m BY <1>2, <3>4
    <3>9. Own(q, path[w], i)
      <4> p # KernelOwner /\ q # KernelOwner BY <1>1
      <4> QED BY <3>3 DEF Own
    <3>10. ts2[n + l][i] = Link(q, t) BY <2>3, <3>6, <3>7
    <3> QED BY <2>0, <3>2, <3>3, <3>8, <3>9, <3>10
  <2> QED BY <1>2, <2>0, <2>2, <2>3
<1>13. Shared(ts2, pglv2)
  <2>1. ASSUME NEW t \in 1 .. n, path[t] = <<>>, NEW i \in Indices
        PROVE  ts2[t][i] = ts[t][i]
    <3> Len(path[t]) # Levels - 1 BY <1>1, <2>1
    <3> QED BY <1>4
  <2>2. Kernel \in 1 .. n /\ path[Kernel] = <<>> BY RootFacts DEF n
  <2>3. /\ \A i \in Indices : ts[Kernel][i] # NoEntry <=> i \in Tops
        /\ \A x \in Procs, i \in Tops : pglv[x] # 0 => ts[pglv[x]][i] = ts[Kernel][i]
    BY DEF Formed, Shared
  <2>4. Tops \subseteq Indices
    <3> SUFFICES ASSUME NEW v \in KernelPages
                 PROVE  v[1] \in Indices
      BY DEF Tops
    <3> v \in [1 .. Levels -> Indices] /\ 1 \in 1 .. Levels BY <1>1 DEF Directories
    <3> QED OBVIOUS
  <2>5. ASSUME NEW x \in Procs, NEW i \in Tops, pglv2[x] # 0
        PROVE  ts2[pglv2[x]][i] = ts2[Kernel][i]
    <3>1. \A y \in Procs : pglv[y] # 0 => pglv[y] \in 1 .. n /\ owner[pglv[y]] = y /\ path[pglv[y]] = <<>>
      BY RootFacts DEF n
    <3>2. i \in Indices BY <2>4
    <3>3. ts2[Kernel][i] = ts[Kernel][i] BY <2>1, <2>2, <3>2
    <3>4. CASE x = q
      <4>1. pglv[p] \in 1 .. n /\ owner[pglv[p]] = p /\ path[pglv[p]] = paths[first] BY <3>1
      <4>2. first \in 1 .. m BY DEF m
      <4>3. Len(path[pglv[p]]) # Levels - 1 /\ ~ Own(p, path[pglv[p]], i)
        <5> p # KernelOwner BY <1>1
        <5> path[pglv[p]] = <<>> BY <4>1
        <5> QED BY <1>1 DEF Own
      <4>4. ts2[n + first][i] = ts[pglv[p]][i] BY <1>5, <3>2, <4>1, <4>2, <4>3
      <4>5. ts[pglv[p]][i] = ts[Kernel][i] BY <2>3
      <4> QED BY <1>6, <3>3, <3>4, <4>4, <4>5
    <3>5. CASE x # q
      <4>1. pglv2[x] = pglv[x] BY <1>6, <3>5
      <4>2. ts2[pglv[x]][i] = ts[pglv[x]][i] BY <2>1, <2>5, <3>1, <3>2, <4>1
      <4> QED BY <2>3, <2>5, <3>3, <4>1, <4>2
    <3> QED BY <3>4, <3>5
  <2>6. \A i \in Indices : ts2[Kernel][i] = ts[Kernel][i] BY <2>1, <2>2
  <2> QED BY <2>3, <2>5, <2>6 DEF Shared
<1>14. Formed(ts2, pglv2, owner2, path2) BY <1>8, <1>9, <1>10, <1>11, <1>12, <1>13 DEF Formed
<1>15. ASSUME NEW x \in Owners, NEW v \in [1 .. Levels -> Indices]
       PROVE  Look(ts2, owner2, path2, x, v) =
                IF x \in {p, q} THEN Unwritable(Look(ts, owner, path, p, v)) ELSE Look(ts, owner, path, x, v)
  <2>1. PICK yes \in BOOLEAN, no \in BOOLEAN : yes = TRUE /\ no = FALSE OBVIOUS
  <2>6. p \in Owners /\ q \in Owners BY <1>1
  <2>2. CASE x = q
    <3>1. \A t \in 1 .. Len(ts) : owner[t] = p /\ Len(path[t]) = Levels - 1 =>
            \E u \in 1 .. Len(ts2) :
              /\ owner2[u] = q /\ path2[u] = path[t]
              /\ \A i \in Indices : ts2[u][i] = IF no THEN ts[t][i] ELSE Unwritable(ts[t][i])
      <4> SUFFICES ASSUME NEW t \in 1 .. n, owner[t] = p, Len(path[t]) = Levels - 1
                   PROVE  \E u \in 1 .. n + m :
                            /\ owner2[u] = q /\ path2[u] = path[t]
                            /\ \A i \in Indices : ts2[u][i] = IF no THEN ts[t][i] ELSE Unwritable(ts[t][i])
        BY <1>1 DEF n
      <4>1. PICK k \in 1 .. m : paths[k] = path[t] BY <1>4
      <4>2. \A i \in Indices : ts2[n + k][i] = Unwritable(ts[t][i]) BY <1>5, <4>1
      <4>3. owner2[n + k] = q /\ path2[n + k] = path[t] /\ n + k \in 1 .. n + m BY <1>2, <4>1
      <4> QED BY <2>1, <4>2, <4>3
    <3>2. \A u \in 1 .. Len(ts2) : owner2[u] = q /\ Len(path2[u]) = Levels - 1 =>
            Has(owner, path, p, path2[u])
      <4> SUFFICES ASSUME NEW u \in 1 .. n + m, owner2[u] = q
                   PROVE  Has(owner, path, p, path2[u])
        BY <1>1
      <4>1. PICK k \in 1 .. m : u = n + k BY <1>2, <1>3
      <4>2. PICK t \in 1 .. n : owner[t] = p /\ path[t] = paths[k] BY <1>4
      <4>3. path2[u] = paths[k] BY <1>2, <4>1
      <4> QED BY <1>1, <4>2, <4>3 DEF Has
    <3>3. Look(ts2, owner2, path2, q, v) =
            IF no THEN Look(ts, owner, path, p, v) ELSE Unwritable(Look(ts, owner, path, p, v))
      <4> Moved(ts, owner, path, p, ts2, owner2, path2, q, no) BY <3>1, <3>2 DEF Moved
      <4> QED BY <1>14, <2>6, LookMoved
    <3> QED BY <2>1, <2>2, <3>3
  <2>3. ASSUME x # q
        PROVE  \A u \in 1 .. Len(ts2) : owner2[u] = x /\ Len(path2[u]) = Levels - 1 =>
                 Has(owner, path, x, path2[u])
    <3> SUFFICES ASSUME NEW u \in 1 .. n + m, owner2[u] = x
                 PROVE  Has(owner, path, x, path2[u])
      BY <1>1
    <3>1. u \in 1 .. n /\ owner[u] = x /\ path2[u] = path[u] BY <1>2, <2>3
    <3> QED BY <1>1, <3>1 DEF Has
  <2>4. CASE x = p
    <3>1. \A t \in 1 .. Len(ts) : owner[t] = p /\ Len(path[t]) = Levels - 1 =>
            \E u \in 1 .. Len(ts2) :
              /\ owner2[u] = p /\ path2[u] = path[t]
              /\ \A i \in Indices : ts2[u][i] = IF no THEN ts[t][i] ELSE Unwritable(ts[t][i])
      <4> SUFFICES ASSUME NEW t \in 1 .. n, owner[t] = p, Len(path[t]) = Levels - 1
                   PROVE  \E u \in 1 .. n + m :
                            /\ owner2[u] = p /\ path2[u] = path[t]
                            /\ \A i \in Indices : ts2[u][i] = IF no THEN ts[t][i] ELSE Unwritable(ts[t][i])
        BY <1>1 DEF n
      <4>1. \A i \in Indices : ts2[t][i] = Unwritable(ts[t][i]) BY <1>4
      <4>2. owner2[t] = p /\ path2[t] = path[t] /\ t \in 1 .. n + m BY <1>2
      <4> QED BY <2>1, <4>1, <4>2
    <3>2. \A u \in 1 .. Len(ts2) : owner2[u] = p /\ Len(path2[u]) = Levels - 1 =>
            Has(owner, path, p, path2[u])
      BY <1>1, <2>3, <2>4
    <3>3. Look(ts2, owner2, path2, p, v) =
            IF no THEN Look(ts, owner, path, p, v) ELSE Unwritable(Look(ts, owner, path, p, v))
      <4> Moved(ts, owner, path, p, ts2, owner2, path2, p, no) BY <3>1, <3>2 DEF Moved
      <4> QED BY <1>14, <2>6, LookMoved
    <3> QED BY <2>1, <2>4, <3>3
  <2>5. CASE x \notin {p, q}
    <3>1. \A t \in 1 .. Len(ts) : owner[t] = x /\ Len(path[t]) = Levels - 1 =>
            \E u \in 1 .. Len(ts2) :
              /\ owner2[u] = x /\ path2[u] = path[t]
              /\ \A i \in Indices : ts2[u][i] = IF yes THEN ts[t][i] ELSE Unwritable(ts[t][i])
      <4> SUFFICES ASSUME NEW t \in 1 .. n, owner[t] = x
                   PROVE  \E u \in 1 .. n + m :
                            /\ owner2[u] = x /\ path2[u] = path[t]
                            /\ \A i \in Indices : ts2[u][i] = IF yes THEN ts[t][i] ELSE Unwritable(ts[t][i])
        BY <1>1 DEF n
      <4>1. \A i \in Indices : ts2[t][i] = ts[t][i] BY <1>4, <2>5
      <4>2. owner2[t] = x /\ path2[t] = path[t] /\ t \in 1 .. n + m BY <1>2
      <4> QED BY <2>1, <4>1, <4>2
    <3>2. \A u \in 1 .. Len(ts2) : owner2[u] = x /\ Len(path2[u]) = Levels - 1 =>
            Has(owner, path, x, path2[u])
      BY <2>3, <2>5
    <3>3. Look(ts2, owner2, path2, x, v) =
            IF yes THEN Look(ts, owner, path, x, v) ELSE Unwritable(Look(ts, owner, path, x, v))
      <4> Moved(ts, owner, path, x, ts2, owner2, path2, x, yes) BY <3>1, <3>2 DEF Moved
      <4> QED BY <1>14, <2>6, LookMoved
    <3> QED BY <2>1, <2>5, <3>3
  <2> QED BY <2>2, <2>4, <2>5
<1> QED BY <1>14, <1>15 DEF MapsAfterFork

-----------------------------------------------------------------------------
(* The order in which cow_clone copies *)

\* SetToSeq lists every element once.
LEMMA SetToSeqFacts ==
  ASSUME NEW S, IsFiniteSet(S)
  PROVE  /\ SetToSeq(S) \in Seq(S) /\ Len(SetToSeq(S)) \in Nat /\ DOMAIN SetToSeq(S) = 1 .. Len(SetToSeq(S))
         /\ \A j, k \in 1 .. Len(SetToSeq(S)) : SetToSeq(S)[j] = SetToSeq(S)[k] => j = k
         /\ \A x \in S : \E k \in 1 .. Len(SetToSeq(S)) : SetToSeq(S)[k] = x
<1> DEFINE n == Cardinality(S)
           f == SetToSeq(S)
<1>1. n \in Nat /\ ExistsBijection(1 .. n, S) BY FS_CardinalityType
<1>2. PICK g \in [1 .. n -> S] : IsInjective(g)
  BY <1>1 DEF ExistsBijection, Bijection, Injection
<1>3. f \in [1 .. n -> S] /\ IsInjective(f) BY <1>2 DEF SetToSeq
<1> HIDE DEF f
<1>4. f \in Injection(1 .. n, S) BY <1>3 DEF Injection
<1>5. IsFiniteSet(1 .. n) /\ Cardinality(1 .. n) = n
  <2>1. IsFiniteSet(1 .. n) /\ Cardinality(1 .. n) = IF 1 > n THEN 0 ELSE n - 1 + 1
    BY <1>1, FS_Interval
  <2> QED BY <1>1, <2>1
<1>6. f \in Surjection(1 .. n, S)
  <2> HIDE DEF n
  <2>1. Cardinality(1 .. n) = Cardinality(S) <=> f \in Surjection(1 .. n, S) BY <1>4, FS_Injection
  <2> QED BY <1>5, <2>1 DEF n
<1>7. \A x \in S : \E k \in 1 .. n : f[k] = x BY <1>6 DEF Surjection
<1> HIDE DEF n
<1>8. f \in Seq(S) /\ Len(f) = n /\ DOMAIN f = 1 .. n BY <1>1, <1>3
<1>9. \A j, k \in 1 .. n : f[j] = f[k] => j = k BY <1>3, <1>8 DEF IsInjective
<1> QED BY <1>1, <1>7, <1>8, <1>9 DEF f

\* The paths that cow_clone copies are those of the process's own tables.
LEMMA CopiedFacts ==
  ASSUME Directories, NEW owner, NEW path, Formed(tables, m_pglv, owner, path),
         NEW p \in Procs, m_pglv[p] # 0, NEW a \in Paths
  PROVE  /\ a \in CopiedPaths(m_pglv[p]) <=> Has(owner, path, p, a)
         /\ Has(owner, path, p, a) => Entry(m_pglv[p], a).addr = TableAt(owner, path, p, a)
<1> DEFINE r == m_pglv[p]
<1>1. /\ a \in Seq(Indices) /\ Len(a) \in 0 .. Levels - 1 /\ Len(a) <= Levels
      /\ Levels \in Nat /\ p \in Owners /\ p # KernelOwner /\ KernelOwner \in Owners
      /\ Len(a) \in 0 .. Len(a) /\ Len(a) # Levels
  <2>1. a \in Seq(Indices) /\ Len(a) \in 0 .. Levels - 1 BY PathsAreSequences
  <2>2. p \in Owners /\ p # KernelOwner /\ KernelOwner \in Owners BY OwnersDiffer DEF Owners
  <2> QED BY <2>1, <2>2 DEF Directories
<1>2. r \in 1 .. Len(tables) /\ owner[r] = p /\ path[r] = <<>> /\ r \in LiveRoots(m_pglv)
  BY RootFacts DEF LiveRoots
<1>3. a \in CopiedPaths(r) <=> \A k \in 1 .. Len(a) : IsCopied(Entry(r, SubSeq(a, 1, k)))
  BY DEF CopiedPaths, Paths
<1>4. SubSeq(a, 1, Len(a)) = a /\ Prefix(a, Len(a)) = a BY <1>1, PrefixFacts
<1> HIDE DEF r
<1>5. CASE Len(a) = 0
  <2>1. a = <<>> BY <1>1, <1>5
  <2>2. Has(owner, path, p, a) /\ TableAt(owner, path, p, a) = r BY <1>1, <1>2, <2>1, TableFacts
  <2>3. \A k \in 1 .. Len(a) : FALSE BY <1>5
  <2>4. Way(m_pglv, p, r, a) BY <1>5 DEF Way, r
  <2>5. Entry(r, SubSeq(a, 1, 0)) = Met(tables, owner, path, p, r, a, 0)
    <3> 0 \in 0 .. Len(a) BY <1>5
    <3> QED BY <1>1, <2>4, EntryMet
  <2>6. Met(tables, owner, path, p, r, a, 0) = Skel(r, TRUE, TRUE) BY DEF Met
  <2>7. Entry(r, a) = Skel(r, TRUE, TRUE) BY <1>4, <1>5, <2>5, <2>6
  <2>8. Entry(r, a).addr = r BY <2>7 DEF Skel
  <2> QED BY <1>3, <2>2, <2>3, <2>8 DEF r
<1>6. CASE Len(a) > 0 /\ a[1] \notin Tops
  <2>1. Way(m_pglv, p, r, a) BY <1>6 DEF Way, r
  <2>2. ASSUME NEW k \in 1 .. Len(a)
        PROVE  /\ Entry(r, SubSeq(a, 1, k)) =
                    IF Has(owner, path, p, Prefix(a, k)) THEN Link(p, TableAt(owner, path, p, Prefix(a, k))) ELSE NoEntry
               /\ Has(owner, path, p, Prefix(a, k)) =>
                    IsCopied(Entry(r, SubSeq(a, 1, k))) /\ TableAt(owner, path, p, Prefix(a, k)) \in Nat
    <3>1. k \in 0 .. Len(a) /\ k \in Nat /\ k # 0 /\ k # Levels BY <1>1
    <3>2. Entry(r, SubSeq(a, 1, k)) = Met(tables, owner, path, p, r, a, k) BY <1>1, <2>1, <3>1, EntryMet
    <3>3. Entry(r, SubSeq(a, 1, k)) =
            IF Has(owner, path, p, Prefix(a, k)) THEN Link(p, TableAt(owner, path, p, Prefix(a, k))) ELSE NoEntry
      BY <3>1, <3>2 DEF Met
    <3>4. ASSUME Has(owner, path, p, Prefix(a, k))
          PROVE  IsCopied(Entry(r, SubSeq(a, 1, k))) /\ TableAt(owner, path, p, Prefix(a, k)) \in Nat
      <4> DEFINE t == TableAt(owner, path, p, Prefix(a, k))
      <4>1. t \in Nat BY <1>1, <3>4, TableFacts
      <4> HIDE DEF t
      <4>2. Link(p, t) # NoEntry /\ Link(p, t).user = (p \in Procs) BY <4>1, LinkFacts
      <4>3. Entry(r, SubSeq(a, 1, k)) = Link(p, t) BY <3>3, <3>4 DEF t
      <4>4. IsCopied(Link(p, t)) BY <4>2 DEF IsCopied
      <4> QED BY <4>1, <4>3, <4>4 DEF t
    <3> QED BY <3>3, <3>4
  <2>3. ASSUME Has(owner, path, p, a)
        PROVE  \A k \in 1 .. Len(a) : IsCopied(Entry(r, SubSeq(a, 1, k)))
    <3> SUFFICES ASSUME NEW k \in 1 .. Len(a)
                 PROVE  IsCopied(Entry(r, SubSeq(a, 1, k)))
      OBVIOUS
    <3>1. k \in 0 .. Len(a) BY <1>1
    <3>2. Has(owner, path, p, Prefix(a, Len(a))) BY <1>4, <2>3
    <3>3. Has(owner, path, p, Prefix(a, k)) BY <1>1, <3>1, <3>2, WayClosed
    <3> QED BY <2>2, <3>3
  <2>4. ASSUME \A k \in 1 .. Len(a) : IsCopied(Entry(r, SubSeq(a, 1, k)))
        PROVE  Has(owner, path, p, a)
    <3>1. Len(a) \in 1 .. Len(a) BY <1>1, <1>6
    <3>2. Entry(r, SubSeq(a, 1, Len(a))) # NoEntry BY <2>4, <3>1 DEF IsCopied
    <3> QED BY <1>4, <2>2, <3>1, <3>2
  <2>5. ASSUME Has(owner, path, p, a)
        PROVE  Entry(r, a).addr = TableAt(owner, path, p, a)
    <3> DEFINE k == Len(a)
    <3>0. Len(a) \in 1 .. Len(a) BY <1>1, <1>6
    <3>1. k \in 1 .. Len(a) /\ SubSeq(a, 1, k) = a /\ Prefix(a, k) = a BY <1>4, <3>0
    <3> HIDE DEF k
    <3>2. Entry(r, a) = Link(p, TableAt(owner, path, p, a)) /\ TableAt(owner, path, p, a) \in Nat
      BY <2>2, <2>5, <3>1
    <3> QED BY <3>2, LinkFacts
  <2> QED BY <1>3, <2>3, <2>4, <2>5 DEF r
<1>7. CASE Len(a) > 0 /\ a[1] \in Tops
  <2>1. 1 \in 0 .. Len(a) /\ 1 \in 1 .. Len(a) /\ 0 \in 0 .. Len(a) /\ 0 < Len(a) /\ 1 # Levels
    BY <1>1, <1>7 DEF Directories
  <2>2. ~ Has(owner, path, p, a)
    <3>1. SUFFICES ASSUME Has(owner, path, p, a)
                   PROVE  FALSE
      OBVIOUS
    <3>2. Has(owner, path, p, Prefix(a, Len(a))) BY <1>4, <3>1
    <3>3. Has(owner, path, p, Prefix(a, 1)) BY <1>1, <2>1, <3>2, WayClosed
    <3>4. Child(Prefix(a, 1), <<>>, a[1]) /\ a[1] \in Indices
      <4>1. Prefix(a, 0 + 1) = Append(Prefix(a, 0), a[0 + 1]) /\ Prefix(a, 0) = <<>> /\ a[0 + 1] \in Indices
        BY <1>1, <2>1, PrefixFacts
      <4>2. 0 + 1 = 1 OBVIOUS
      <4> QED BY <4>1, <4>2 DEF Child
    <3>5. <<>> \in Seq(Indices) OBVIOUS
    <3>6. Own(p, <<>>, a[1]) BY <1>1, <3>3, <3>4, <3>5, ParentFacts
    <3> QED BY <1>1, <1>7, <3>6 DEF Own
  <2>3. ~ IsCopied(Entry(r, SubSeq(a, 1, 1)))
    <3> DEFINE t == TableAt(owner, path, KernelOwner, Prefix(a, 1))
    <3>1. Way(m_pglv, KernelOwner, r, a) BY <1>2, <1>7 DEF Way
    <3>2. Entry(r, SubSeq(a, 1, 1)) = Met(tables, owner, path, KernelOwner, r, a, 1)
      BY <1>1, <2>1, <3>1, EntryMet
    <3>3. Met(tables, owner, path, KernelOwner, r, a, 1) =
            IF Has(owner, path, KernelOwner, Prefix(a, 1)) THEN Link(KernelOwner, t) ELSE NoEntry
      BY <2>1 DEF Met
    <3>4. CASE Has(owner, path, KernelOwner, Prefix(a, 1))
      <4>1. t \in Nat BY <1>1, <3>4, TableFacts
      <4> HIDE DEF t
      <4>2. Link(KernelOwner, t).user = (KernelOwner \in Procs) BY <4>1, LinkFacts
      <4>3. KernelOwner \notin Procs BY OwnersDiffer
      <4>4. ~ Link(KernelOwner, t).user BY <4>2, <4>3
      <4>5. Entry(r, SubSeq(a, 1, 1)) = Link(KernelOwner, t) BY <3>2, <3>3, <3>4
      <4> QED BY <4>4, <4>5 DEF IsCopied
    <3>5. CASE ~ Has(owner, path, KernelOwner, Prefix(a, 1)) BY <3>2, <3>3, <3>5 DEF IsCopied
    <3> QED BY <3>4, <3>5
  <2> QED BY <1>3, <2>1, <2>2, <2>3 DEF r
<1>8. Len(a) = 0 \/ Len(a) > 0 BY <1>1
<1> QED BY <1>5, <1>6, <1>7, <1>8

-----------------------------------------------------------------------------
(* cow_clone's copies *)

\* The entry that cow_clone writes above a page.
LEMMA ReaddressedIs ==
  ASSUME NEW e \in AnyEntry, NEW addr
  PROVE  [e EXCEPT !.addr = addr] = Skel(addr, e.user, e.write)
  BY DEF AnyEntry, Skel

\* How cow_clone's copy of the table at path a is defined.
CopyOf(r, q, a) ==
  LET paths == SetToSeq(CopiedPaths(r))
      fresh(b) == Len(tables) + CHOOSE n \in DOMAIN paths : paths[n] = b
  IN [i \in Indices |->
       LET e == tables[Entry(r, a).addr][i] IN
       IF ~IsCopied(e) THEN e
       ELSE IF Len(a) < Levels - 1 THEN [e EXCEPT !.addr = fresh(Append(a, i))]
       ELSE Protected(e)]

\* cow_clone copies the process's tables, which are finitely many.
LEMMA CopiedAreFinite ==
  ASSUME Directories, NEW owner, NEW path, Formed(tables, m_pglv, owner, path),
         NEW p \in Procs, m_pglv[p] # 0
  PROVE  /\ IsFiniteSet(CopiedPaths(m_pglv[p])) /\ CopiedPaths(m_pglv[p]) \subseteq Paths
         /\ \A a \in Paths : a \in CopiedPaths(m_pglv[p]) <=> Has(owner, path, p, a)
<1> DEFINE S == CopiedPaths(m_pglv[p])
           n == Len(tables)
           f == [a \in S |-> TableAt(owner, path, p, a)]
<1>1. S \subseteq Paths BY DEF CopiedPaths, Paths
<1>2. \A a \in Paths : a \in S <=> Has(owner, path, p, a) BY CopiedFacts
<1>3. p \in Owners BY DEF Owners
<1>4. n \in Nat BY <1>3, TableFacts
<1> HIDE DEF S, n
<1>5. \A a \in S : f[a] \in 1 .. n /\ owner[f[a]] = p /\ path[f[a]] = a
  <2> SUFFICES ASSUME NEW a \in S
               PROVE  f[a] \in 1 .. n /\ owner[f[a]] = p /\ path[f[a]] = a
    OBVIOUS
  <2>1. Has(owner, path, p, a) BY <1>1, <1>2
  <2> QED BY <1>3, <2>1, TableFacts DEF n
<1>6. f \in [S -> 1 .. n] BY <1>5
<1>7. DOMAIN f = S OBVIOUS
<1> HIDE DEF f
<1>8. f \in Injection(S, 1 .. n)
  <2>1. \A a, b \in DOMAIN f : f[a] = f[b] => a = b BY <1>5, <1>7
  <2> QED BY <1>6, <2>1 DEF Injection, IsInjective
<1>9. IsFiniteSet(1 .. n) BY <1>4, FS_Interval
<1>10. IsFiniteSet(S) BY <1>8, <1>9, FS_Injection
<1> QED BY <1>1, <1>2, <1>10 DEF S

\* Of an entry of the process's own, and of one of the kernel's.
EntryRule(owner, path, p, t, i) ==
  LET e == tables[t][i] IN
  /\ Len(path[t]) = Levels - 1 =>
       Protected(e) = Unwritable(e)
       /\ (e # NoEntry => e \in Leaves(p)) /\ (~ IsCopied(e) => e = NoEntry)
  /\ Len(path[t]) # Levels - 1 =>
       IF e = NoEntry \/ ~ Own(p, path[t], i) THEN ~ IsCopied(e)
       ELSE /\ IsCopied(e) /\ e \in AnyEntry /\ e.user = TRUE /\ e.write = TRUE
            /\ \E u \in 1 .. Len(tables) : owner[u] = p /\ Child(path[u], path[t], i)

\* Which entries of the process's tables are copied or protected.
LEMMA EntryCopied ==
  ASSUME Directories, NEW owner, NEW path, Formed(tables, m_pglv, owner, path),
         NEW p \in Procs, m_pglv[p] # 0, NEW t \in 1 .. Len(tables), owner[t] = p, NEW i \in Indices
  PROVE  EntryRule(owner, path, p, t, i)
<1> DEFINE e == tables[t][i]
<1>1. p \in Owners /\ p # KernelOwner /\ path[t] \in Paths BY OwnersDiffer DEF Owners, Formed, Typed
<1>2. Levels \in Nat /\ Levels >= 2 /\ path[t] \in Seq(Indices) BY <1>1, PathsAreSequences DEF Directories
<1> HIDE DEF e
<1>3. CASE e = NoEntry BY <1>3 DEF EntryRule, IsCopied, Protected, Unwritable, e
<1>4. CASE e # NoEntry /\ Own(p, path[t], i)
  <2>1. IF Len(path[t]) = Levels - 1 THEN e \in Leaves(p)
        ELSE \E u \in 1 .. Len(tables) :
               /\ e = Link(p, u) /\ owner[u] = p /\ Child(path[u], path[t], i)
    BY <1>1, <1>4 DEF Formed, Down, e
  <2>2. CASE Len(path[t]) = Levels - 1
    <3>1. e \in Leaves(p) BY <2>1, <2>2
    <3>2. e.user = (p \in Procs) BY <3>1, LeafFacts
    <3>3. IsCopied(e) BY <1>4, <3>2 DEF IsCopied
    <3>4. Unwritable(e) = [e EXCEPT !.write = FALSE] BY <1>4 DEF Unwritable
    <3>5. Protected(e) = Unwritable(e) BY <3>3, <3>4 DEF Protected
    <3> QED BY <2>2, <3>1, <3>3, <3>5 DEF EntryRule, e
  <2>3. CASE Len(path[t]) # Levels - 1
    <3>1. PICK u \in 1 .. Len(tables) : e = Link(p, u) /\ owner[u] = p /\ Child(path[u], path[t], i)
      BY <2>1, <2>3
    <3>2. u \in Nat BY <1>1, TableFacts
    <3>3. e \in AnyEntry /\ e.user = (p \in Procs) /\ e.write = TRUE BY <3>1, <3>2, LinkFacts
    <3>4. e.user = TRUE BY <3>3
    <3>5. IsCopied(e) BY <1>4, <3>4 DEF IsCopied
    <3> QED BY <1>4, <2>3, <3>1, <3>3, <3>4, <3>5 DEF EntryRule, e
  <2> QED BY <2>2, <2>3
<1>5. CASE e # NoEntry /\ ~ Own(p, path[t], i)
  <2>1. path[t] = <<>> /\ i \in Tops BY <1>5 DEF Own
  <2>2. Len(path[t]) # Levels - 1 BY <1>2, <2>1
  <2>3. m_pglv[p] \in 1 .. Len(tables) /\ owner[m_pglv[p]] = p /\ path[m_pglv[p]] = <<>>
        /\ m_pglv[p] \in LiveRoots(m_pglv)
    BY RootFacts DEF LiveRoots
  <2>4. t = m_pglv[p] BY <1>1, <2>1, <2>3 DEF Formed, Apart
  <2>5. e = tables[Kernel][i] BY <2>1, <2>3, <2>4, RootFacts DEF e
  <2>6. e.user = FALSE BY <1>5, <2>5, KernelEntriesFacts
  <2>7. ~ IsCopied(e) BY <2>6 DEF IsCopied
  <2> QED BY <1>5, <2>2, <2>7 DEF EntryRule, e
<1> QED BY <1>3, <1>4, <1>5

\* The copy of a table leads to copies; that of a table of pages protects them.
LEMMA CopyIs ==
  ASSUME Directories, NEW owner, NEW path, Formed(tables, m_pglv, owner, path),
         NEW p \in Procs, NEW q \in Procs, m_pglv[p] # 0,
         NEW paths, paths = SetToSeq(CopiedPaths(m_pglv[p])),
         NEW k \in 1 .. Len(paths), NEW t \in 1 .. Len(tables), owner[t] = p, path[t] = paths[k]
  PROVE  /\ CopyOf(m_pglv[p], q, paths[k]) \in [Indices -> AnyEntry \cup {NoEntry}]
         /\ \A i \in Indices :
              LET e2 == CopyOf(m_pglv[p], q, paths[k])[i] IN
              \/ Len(path[t]) = Levels - 1 /\ e2 = Unwritable(tables[t][i])
              \/ /\ Len(path[t]) # Levels - 1 /\ (tables[t][i] = NoEntry \/ ~ Own(p, path[t], i))
                 /\ e2 = tables[t][i]
              \/ /\ Len(path[t]) # Levels - 1 /\ tables[t][i] # NoEntry /\ Own(p, path[t], i)
                 /\ \E j \in 1 .. Len(paths) :
                      Child(paths[j], path[t], i) /\ e2 = Link(q, Len(tables) + j)
<1> DEFINE r == m_pglv[p]
           a == paths[k]
           fresh(b) == Len(tables) + CHOOSE j \in DOMAIN paths : paths[j] = b
           val(i) == LET e == tables[Entry(r, a).addr][i] IN
                     IF ~IsCopied(e) THEN e
                     ELSE IF Len(a) < Levels - 1 THEN [e EXCEPT !.addr = fresh(Append(a, i))]
                     ELSE Protected(e)
<1>1. CopyOf(r, q, a) = [i \in Indices |-> val(i)] BY DEF CopyOf
<1>2. /\ p \in Owners /\ Levels \in Nat /\ path[t] \in Paths /\ path[t] \in Seq(Indices)
      /\ Len(path[t]) \in 0 .. Levels - 1 /\ Len(tables) \in Nat
      /\ tables[t] \in [Indices -> AnyEntry \cup {NoEntry}]
  <2>1. p \in Owners /\ path[t] \in Paths BY DEF Owners, Formed, Typed
  <2>2. path[t] \in Seq(Indices) /\ Len(path[t]) \in 0 .. Levels - 1 BY <2>1, PathsAreSequences
  <2>3. Len(tables) \in Nat BY <2>1, TableFacts
  <2>4. tables[t] \in [Indices -> AnyEntry \cup {NoEntry}] BY DEF Formed, Typed
  <2> QED BY <2>1, <2>2, <2>3, <2>4 DEF Directories
<1>3. Entry(r, a).addr = t
  <2>1. Has(owner, path, p, path[t]) /\ TableAt(owner, path, p, path[t]) = t BY <1>2, TableFacts
  <2>2. Entry(r, path[t]).addr = TableAt(owner, path, p, path[t]) BY <1>2, <2>1, CopiedFacts
  <2> QED BY <2>1, <2>2
<1>4. /\ DOMAIN paths = 1 .. Len(paths) /\ Len(paths) \in Nat
      /\ \A j, l \in 1 .. Len(paths) : paths[j] = paths[l] => j = l
      /\ \A b \in CopiedPaths(r) : \E j \in 1 .. Len(paths) : paths[j] = b
      /\ \A b \in Paths : b \in CopiedPaths(r) <=> Has(owner, path, p, b)
  <2>1. IsFiniteSet(CopiedPaths(r)) BY CopiedAreFinite
  <2>2. \A b \in Paths : b \in CopiedPaths(r) <=> Has(owner, path, p, b) BY CopiedAreFinite
  <2> HIDE DEF r
  <2> QED BY <2>1, <2>2, SetToSeqFacts, SMTT(40) DEF r
<1>5. \A j \in 1 .. Len(paths) : fresh(paths[j]) = Len(tables) + j
  <2> SUFFICES ASSUME NEW j \in 1 .. Len(paths)
               PROVE  (CHOOSE l \in DOMAIN paths : paths[l] = paths[j]) = j
    OBVIOUS
  <2> QED BY <1>4
<1> HIDE DEF r, fresh
<1>6. ASSUME NEW i \in Indices
      PROVE  /\ val(i) \in AnyEntry \cup {NoEntry}
             /\ \/ Len(path[t]) = Levels - 1 /\ val(i) = Unwritable(tables[t][i])
                \/ /\ Len(path[t]) # Levels - 1 /\ (tables[t][i] = NoEntry \/ ~ Own(p, path[t], i))
                   /\ val(i) = tables[t][i]
                \/ /\ Len(path[t]) # Levels - 1 /\ tables[t][i] # NoEntry /\ Own(p, path[t], i)
                   /\ \E j \in 1 .. Len(paths) :
                        Child(paths[j], path[t], i) /\ val(i) = Link(q, Len(tables) + j)
  <2> DEFINE e == tables[t][i]
  <2>1. val(i) = IF ~IsCopied(e) THEN e
                 ELSE IF Len(path[t]) < Levels - 1 THEN [e EXCEPT !.addr = fresh(Append(path[t], i))]
                 ELSE Protected(e)
    BY <1>3
  <2>2. /\ Len(path[t]) = Levels - 1 =>
             Protected(e) = Unwritable(e)
             /\ (e # NoEntry => e \in Leaves(p)) /\ (~ IsCopied(e) => e = NoEntry)
        /\ Len(path[t]) # Levels - 1 =>
             IF e = NoEntry \/ ~ Own(p, path[t], i) THEN ~ IsCopied(e)
             ELSE /\ IsCopied(e) /\ e \in AnyEntry /\ e.user = TRUE /\ e.write = TRUE
                  /\ \E u \in 1 .. Len(tables) : owner[u] = p /\ Child(path[u], path[t], i)
    <3> EntryRule(owner, path, p, t, i) BY EntryCopied
    <3> QED BY DEF EntryRule
  <2>3. e \in AnyEntry \cup {NoEntry} BY <1>2
  <2> HIDE DEF val, e
  <2>4. CASE Len(path[t]) = Levels - 1
    <3>1. ~ (Len(path[t]) < Levels - 1) BY <1>2, <2>4
    <3>2. val(i) = Unwritable(e)
      <4>1. CASE IsCopied(e) BY <2>1, <2>2, <2>4, <3>1, <4>1
      <4>2. CASE ~ IsCopied(e) BY <2>1, <2>2, <2>4, <4>2, UnwritableFacts
      <4> QED BY <4>1, <4>2
    <3>3. Unwritable(e) \in AnyEntry \cup {NoEntry}
      <4>1. CASE e = NoEntry BY <4>1, UnwritableFacts
      <4>2. CASE e # NoEntry BY <2>2, <2>4, <4>2, UnwritableFacts
      <4> QED BY <4>1, <4>2
    <3> QED BY <2>4, <3>2, <3>3 DEF e
  <2>5. CASE Len(path[t]) # Levels - 1 /\ (e = NoEntry \/ ~ Own(p, path[t], i))
    <3>1. val(i) = e BY <2>1, <2>2, <2>5
    <3> QED BY <2>3, <2>5, <3>1 DEF e
  <2>6. CASE Len(path[t]) # Levels - 1 /\ e # NoEntry /\ Own(p, path[t], i)
    <3>1. PICK u \in 1 .. Len(tables) : owner[u] = p /\ Child(path[u], path[t], i) BY <2>2, <2>6
    <3>2. IsCopied(e) /\ e \in AnyEntry /\ e.user = TRUE /\ e.write = TRUE BY <2>2, <2>6
    <3>3. PICK j \in 1 .. Len(paths) : paths[j] = path[u]
      <4>1. Has(owner, path, p, path[u]) BY <1>2, <3>1, TableFacts
      <4>2. path[u] \in Paths BY DEF Formed, Typed
      <4> QED BY <1>4, <4>1, <4>2
    <3>4. fresh(Append(path[t], i)) = Len(tables) + j
      <4>1. Append(path[t], i) = paths[j] BY <3>1, <3>3 DEF Child
      <4> QED BY <1>5, <4>1
    <3>5. Len(path[t]) < Levels - 1 BY <1>2, <2>6
    <3>6. val(i) = [e EXCEPT !.addr = Len(tables) + j] BY <2>1, <3>2, <3>4, <3>5
    <3>7. [e EXCEPT !.addr = Len(tables) + j] = Skel(Len(tables) + j, TRUE, TRUE) BY <3>2, ReaddressedIs
    <3>8. Link(q, Len(tables) + j) = Skel(Len(tables) + j, TRUE, TRUE)
      <4>1. (q \in Procs) = TRUE OBVIOUS
      <4> QED BY <4>1 DEF Link
    <3>9. Len(tables) + j \in Nat BY <1>2, <1>4
    <3>10. Link(q, Len(tables) + j) \in AnyEntry BY <3>9, LinkFacts
    <3>11. Child(paths[j], path[t], i) BY <3>1, <3>3
    <3>12. val(i) = Link(q, Len(tables) + j) BY <3>6, <3>7, <3>8
    <3> QED BY <2>6, <3>10, <3>11, <3>12 DEF e
  <2> QED BY <2>4, <2>5, <2>6
<1> HIDE DEF val
<1>7. CopyOf(r, q, a) \in [Indices -> AnyEntry \cup {NoEntry}] /\ \A i \in Indices : CopyOf(r, q, a)[i] = val(i)
  BY <1>1, <1>6
<1> QED BY <1>6, <1>7 DEF r

-----------------------------------------------------------------------------
(* cow_clone *)

\* The tables of the process that cow_clone protects.
LeafTables(r) ==
  {Entry(r, path).addr : path \in {x \in CopiedPaths(r) : Len(x) = Levels - 1}}

\* They are those of pages.
LEMMA LeafTablesAre ==
  ASSUME Directories, NEW owner, NEW path, Formed(tables, m_pglv, owner, path),
         NEW p \in Procs, m_pglv[p] # 0, NEW t \in 1 .. Len(tables)
  PROVE  t \in LeafTables(m_pglv[p]) <=> owner[t] = p /\ Len(path[t]) = Levels - 1
<1>1. p \in Owners /\ path[t] \in Paths BY DEF Owners, Formed, Typed
<1>2. ASSUME t \in LeafTables(m_pglv[p])
      PROVE  owner[t] = p /\ Len(path[t]) = Levels - 1
  <2>1. PICK a \in CopiedPaths(m_pglv[p]) : Len(a) = Levels - 1 /\ t = Entry(m_pglv[p], a).addr
    BY <1>2 DEF LeafTables
  <2>2. a \in Paths /\ Has(owner, path, p, a) BY <2>1, CopiedAreFinite
  <2>3. t = TableAt(owner, path, p, a)
    <3> Entry(m_pglv[p], a).addr = TableAt(owner, path, p, a) BY <2>2, CopiedFacts
    <3> QED BY <2>1
  <2>4. owner[TableAt(owner, path, p, a)] = p /\ path[TableAt(owner, path, p, a)] = a
    BY <1>1, <2>2, TableFacts
  <2> QED BY <2>1, <2>3, <2>4
<1>3. ASSUME owner[t] = p, Len(path[t]) = Levels - 1
      PROVE  t \in LeafTables(m_pglv[p])
  <2>1. Has(owner, path, p, path[t]) /\ TableAt(owner, path, p, path[t]) = t BY <1>1, <1>3, TableFacts
  <2>2. path[t] \in CopiedPaths(m_pglv[p]) BY <1>1, <2>1, CopiedFacts
  <2>3. Entry(m_pglv[p], path[t]).addr = t BY <1>1, <2>1, CopiedFacts
  <2> QED BY <1>3, <2>2, <2>3 DEF LeafTables
<1> QED BY <1>2, <1>3

\* What cow_clone leaves in the tables that there were.
Shielded(r) ==
  [t \in DOMAIN tables |->
     IF t \in LeafTables(r) THEN [i \in Indices |-> Protected(tables[t][i])] ELSE tables[t]]

\* The parent's tables after it.
LEMMA ShieldedIs ==
  ASSUME Directories, NEW owner, NEW path, Formed(tables, m_pglv, owner, path),
         NEW p \in Procs, m_pglv[p] # 0
  PROVE  /\ Shielded(m_pglv[p]) \in Seq([Indices -> AnyEntry \cup {NoEntry}])
         /\ Len(Shielded(m_pglv[p])) = Len(tables)
         /\ \A t \in 1 .. Len(tables), i \in Indices :
              Shielded(m_pglv[p])[t][i] =
                IF owner[t] = p /\ Len(path[t]) = Levels - 1 THEN Unwritable(tables[t][i]) ELSE tables[t][i]
<1> DEFINE n == Len(tables)
           S == [Indices -> AnyEntry \cup {NoEntry}]
           row(t) == IF t \in LeafTables(m_pglv[p]) THEN [i \in Indices |-> Protected(tables[t][i])] ELSE tables[t]
<1>1. n \in Nat /\ DOMAIN tables = 1 .. n /\ \A t \in 1 .. n : tables[t] \in S
  <2>1. tables \in Seq(S) BY DEF Formed, Typed
  <2> HIDE DEF S
  <2> QED BY <2>1, LenProperties
<1>2. Shielded(m_pglv[p]) = [t \in 1 .. n |-> row(t)] BY <1>1 DEF Shielded
<1>3. ASSUME NEW t \in 1 .. n
      PROVE  /\ row(t) \in S
             /\ \A i \in Indices : row(t)[i] =
                  IF owner[t] = p /\ Len(path[t]) = Levels - 1 THEN Unwritable(tables[t][i]) ELSE tables[t][i]
  <2>1. t \in LeafTables(m_pglv[p]) <=> owner[t] = p /\ Len(path[t]) = Levels - 1 BY LeafTablesAre
  <2>2. CASE owner[t] = p /\ Len(path[t]) = Levels - 1
    <3>1. row(t) = [i \in Indices |-> Protected(tables[t][i])] BY <2>1, <2>2
    <3> HIDE DEF row
    <3>2. ASSUME NEW i \in Indices
          PROVE  row(t)[i] = Unwritable(tables[t][i]) /\ row(t)[i] \in AnyEntry \cup {NoEntry}
      <4>1. EntryRule(owner, path, p, t, i) BY <2>2, EntryCopied
      <4>2. Protected(tables[t][i]) = Unwritable(tables[t][i]) /\ (tables[t][i] # NoEntry => tables[t][i] \in Leaves(p))
        BY <2>2, <4>1 DEF EntryRule
      <4>3. Unwritable(tables[t][i]) \in AnyEntry \cup {NoEntry}
        <5>1. CASE tables[t][i] = NoEntry BY <5>1, UnwritableFacts
        <5>2. CASE tables[t][i] # NoEntry BY <4>2, <5>2, UnwritableFacts
        <5> QED BY <5>1, <5>2
      <4> QED BY <3>1, <4>2, <4>3
    <3>3. row(t) = [i \in Indices |-> row(t)[i]] BY <3>1
    <3>4. row(t) \in S BY <3>2, <3>3
    <3> QED BY <2>2, <3>2, <3>4
  <2>3. CASE ~ (owner[t] = p /\ Len(path[t]) = Levels - 1) BY <1>1, <2>1, <2>3
  <2> QED BY <2>2, <2>3
<1> HIDE DEF row, S, n
<1>4. Shielded(m_pglv[p]) \in [1 .. n -> S] BY <1>2, <1>3
<1>5. Shielded(m_pglv[p]) \in Seq(S) /\ Len(Shielded(m_pglv[p])) = n BY <1>1, <1>4
<1>6. \A t \in 1 .. n : Shielded(m_pglv[p])[t] = row(t) BY <1>2
<1> QED BY <1>3, <1>5, <1>6 DEF S, n

\* cow_clone in these terms.
LEMMA CloneIs ==
  ASSUME NEW p \in Procs, NEW q \in Procs, cow_clone(p, q)
  PROVE  tables' = Shielded(m_pglv[p]) \o
           [k \in DOMAIN SetToSeq(CopiedPaths(m_pglv[p])) |->
             CopyOf(m_pglv[p], q, SetToSeq(CopiedPaths(m_pglv[p]))[k])]
  BY Zenon DEF cow_clone, Shielded, LeafTables, CopyOf

\* cow_clone copies the tables of the process.
LEMMA CloneCopies ==
  ASSUME Directories, NEW owner, NEW path, Formed(tables, m_pglv, owner, path),
         NEW p \in Procs, NEW q \in Procs, cow_clone(p, q),
         NEW paths, paths = SetToSeq(CopiedPaths(m_pglv[p]))
  PROVE  /\ Copies(tables, tables', owner, path, p, q, paths)
         /\ \E first \in 1 .. Len(paths) :
              paths[first] = <<>> /\ m_pglv' = [m_pglv EXCEPT ![q] = Len(tables) + first]
<1> DEFINE r == m_pglv[p]
           n == Len(tables)
           m == Len(paths)
           S == [Indices -> AnyEntry \cup {NoEntry}]
           old == Shielded(r)
           new == [k \in DOMAIN paths |-> CopyOf(r, q, paths[k])]
<1>1. r # 0 BY Zenon DEF cow_clone, Exists
<1>2. /\ paths \in Seq(Paths) /\ m \in Nat /\ DOMAIN paths = 1 .. m
      /\ \A j, k \in 1 .. m : paths[j] = paths[k] => j = k
      /\ \A a \in CopiedPaths(r) : \E k \in 1 .. m : paths[k] = a
      /\ \A k \in 1 .. m : paths[k] \in CopiedPaths(r)
  <2>1. IsFiniteSet(CopiedPaths(r)) /\ CopiedPaths(r) \subseteq Paths BY <1>1, CopiedAreFinite
  <2>2. PICK X : X = CopiedPaths(r) OBVIOUS
  <2>3. IsFiniteSet(X) /\ X \subseteq Paths BY <2>1, <2>2
  <2>4. /\ paths \in Seq(X) /\ m \in Nat /\ DOMAIN paths = 1 .. m
        /\ \A j, k \in 1 .. m : paths[j] = paths[k] => j = k
        /\ \A a \in X : \E k \in 1 .. m : paths[k] = a
    BY <2>2, <2>3, SetToSeqFacts, SMTT(40)
  <2>5. paths \in [1 .. m -> X] BY <2>4
  <2>6. paths \in [1 .. m -> Paths] BY <2>3, <2>5
  <2> QED BY <2>2, <2>4, <2>5, <2>6, SMTT(40)
<1>3. /\ p \in Owners /\ n \in Nat
      /\ \A a \in Paths : a \in CopiedPaths(r) <=> Has(owner, path, p, a)
      /\ DOMAIN owner = 1 .. n /\ \A t \in 1 .. n : path[t] \in Paths
  <2>1. p \in Owners BY DEF Owners
  <2> QED BY <1>1, <2>1, TableFacts, CopiedAreFinite DEF Formed, Typed
<1>4. paths \in [1 .. m -> Paths] BY <1>2
<1>5. \A t \in 1 .. n : owner[t] = p => \E k \in 1 .. m : paths[k] = path[t]
  <2> SUFFICES ASSUME NEW t \in 1 .. n, owner[t] = p
               PROVE  \E k \in 1 .. m : paths[k] = path[t]
    OBVIOUS
  <2>1. Has(owner, path, p, path[t]) BY <1>3 DEF Has
  <2> QED BY <1>2, <1>3, <2>1
<1>6. \A k \in 1 .. m : \E t \in 1 .. n : owner[t] = p /\ path[t] = paths[k]
  <2> SUFFICES ASSUME NEW k \in 1 .. m
               PROVE  \E t \in 1 .. n : owner[t] = p /\ path[t] = paths[k]
    OBVIOUS
  <2>1. Has(owner, path, p, paths[k]) BY <1>2, <1>3, <1>4
  <2> QED BY <1>3, <2>1 DEF Has
<1>7. tables' = old \o new /\ \E first \in 1 .. m :
        paths[first] = <<>> /\ m_pglv' = [m_pglv EXCEPT ![q] = n + first]
  <2>1. tables' = old \o new BY Zenon, CloneIs
  <2>2. m_pglv' = [m_pglv EXCEPT ![q] = n + CHOOSE k \in DOMAIN paths : paths[k] = <<>>] BY Zenon DEF cow_clone
  <2>3. \E k \in 1 .. m : paths[k] = <<>>
    <3>1. r \in 1 .. n /\ owner[r] = p /\ path[r] = <<>> BY <1>1, RootFacts
    <3> QED BY <1>5, <3>1
  <2>4. PICK first : first = CHOOSE k \in DOMAIN paths : paths[k] = <<>> OBVIOUS
  <2>5. first \in 1 .. m /\ paths[first] = <<>> BY <1>2, <2>3, <2>4
  <2> QED BY <2>1, <2>2, <2>4, <2>5
<1>8. /\ old \in Seq(S) /\ Len(old) = n
      /\ \A t \in 1 .. n, i \in Indices : old[t][i] =
           IF owner[t] = p /\ Len(path[t]) = Levels - 1 THEN Unwritable(tables[t][i]) ELSE tables[t][i]
  BY <1>1, ShieldedIs
<1>9. ASSUME NEW k \in 1 .. m
      PROVE  /\ CopyOf(r, q, paths[k]) \in S
             /\ \A t \in 1 .. n, i \in Indices : owner[t] = p /\ path[t] = paths[k] =>
                  LET e2 == CopyOf(r, q, paths[k])[i] IN
                  \/ Len(path[t]) = Levels - 1 /\ e2 = Unwritable(tables[t][i])
                  \/ /\ Len(path[t]) # Levels - 1 /\ (tables[t][i] = NoEntry \/ ~ Own(p, path[t], i))
                     /\ e2 = tables[t][i]
                  \/ /\ Len(path[t]) # Levels - 1 /\ tables[t][i] # NoEntry /\ Own(p, path[t], i)
                     /\ \E j \in 1 .. m : Child(paths[j], path[t], i) /\ e2 = Link(q, n + j)
  <2>1. PICK t \in 1 .. n : owner[t] = p /\ path[t] = paths[k] BY <1>6
  <2>2. CopyOf(r, q, paths[k]) \in S BY <1>1, <2>1, CopyIs
  <2>3. ASSUME NEW u \in 1 .. n, owner[u] = p, path[u] = paths[k]
        PROVE  \A i \in Indices :
                 LET e2 == CopyOf(r, q, paths[k])[i] IN
                 \/ Len(path[u]) = Levels - 1 /\ e2 = Unwritable(tables[u][i])
                 \/ /\ Len(path[u]) # Levels - 1 /\ (tables[u][i] = NoEntry \/ ~ Own(p, path[u], i))
                    /\ e2 = tables[u][i]
                 \/ /\ Len(path[u]) # Levels - 1 /\ tables[u][i] # NoEntry /\ Own(p, path[u], i)
                    /\ \E j \in 1 .. m : Child(paths[j], path[u], i) /\ e2 = Link(q, n + j)
    BY <1>1, <2>3, CopyIs
  <2> QED BY <2>2, <2>3
<1>10. new \in [1 .. m -> S] /\ \A k \in 1 .. m : new[k] = CopyOf(r, q, paths[k])
  BY <1>2, <1>9
<1> HIDE DEF old, new, S, n, m, r
<1>11. new \in Seq(S) /\ Len(new) = m BY <1>2, <1>10
<1>12. /\ tables' \in Seq(S) /\ Len(tables') = n + m
       /\ \A t \in 1 .. n : tables'[t] = old[t]
       /\ \A k \in 1 .. m : tables'[n + k] = CopyOf(r, q, paths[k])
  <2>1. /\ old \o new \in Seq(S) /\ Len(old \o new) = n + m
        /\ \A j \in 1 .. n + m : (old \o new)[j] = IF j <= n THEN old[j] ELSE new[j - n]
    BY <1>8, <1>11, ConcatProperties
  <2>2. \A t \in 1 .. n : t \in 1 .. n + m /\ t <= n BY <1>2, <1>3
  <2>3. \A k \in 1 .. m : n + k \in 1 .. n + m /\ ~ (n + k <= n) /\ (n + k) - n = k BY <1>2, <1>3
  <2>4. \A t \in 1 .. n : (old \o new)[t] = old[t] BY <2>1, <2>2
  <2>5. \A k \in 1 .. m : (old \o new)[n + k] = new[k] BY <2>1, <2>3
  <2>6. tables' = old \o new BY <1>7
  <2> QED BY <1>10, <2>1, <2>4, <2>5, <2>6
<1>13. \A t \in 1 .. n, i \in Indices : tables'[t][i] =
         IF owner[t] = p /\ Len(path[t]) = Levels - 1 THEN Unwritable(tables[t][i]) ELSE tables[t][i]
  BY <1>8, <1>12
<1>14. \A k \in 1 .. m, t \in 1 .. n, i \in Indices :
         owner[t] = p /\ path[t] = paths[k] =>
           \/ Len(path[t]) = Levels - 1 /\ tables'[n + k][i] = Unwritable(tables[t][i])
           \/ /\ Len(path[t]) # Levels - 1 /\ (tables[t][i] = NoEntry \/ ~ Own(p, path[t], i))
              /\ tables'[n + k][i] = tables[t][i]
           \/ /\ Len(path[t]) # Levels - 1 /\ tables[t][i] # NoEntry /\ Own(p, path[t], i)
              /\ \E j \in 1 .. m : Child(paths[j], path[t], i) /\ tables'[n + k][i] = Link(q, n + j)
  BY <1>9, <1>12
<1>15. Copies(tables, tables', owner, path, p, q, paths)
  BY <1>2, <1>5, <1>6, <1>12, <1>13, <1>14 DEF Copies, S, n, m
<1> QED BY Zenon, <1>7, <1>15 DEF n, m

\* It keeps the tables formed: parent and child map alike and write nothing.
LEMMA CloneStep ==
  ASSUME Directories, NEW owner, NEW path, Formed(tables, m_pglv, owner, path),
         NEW p \in Procs, NEW q \in Procs, cow_clone(p, q)
  PROVE  \E owner2, path2 :
           /\ Formed(tables', m_pglv', owner2, path2)
           /\ \A x \in Owners, v \in [1 .. Levels -> Indices] :
                Look(tables', owner2, path2, x, v) =
                  IF x \in {p, q} THEN Unwritable(Look(tables, owner, path, p, v))
                  ELSE Look(tables, owner, path, x, v)
<1>1. m_pglv[p] # 0 /\ m_pglv[q] = 0 BY Zenon DEF cow_clone, Exists
<1>2. PICK paths : paths = SetToSeq(CopiedPaths(m_pglv[p])) OBVIOUS
<1>3. /\ Copies(tables, tables', owner, path, p, q, paths)
      /\ \E first \in 1 .. Len(paths) :
           paths[first] = <<>> /\ m_pglv' = [m_pglv EXCEPT ![q] = Len(tables) + first]
  BY <1>2, CloneCopies
<1>4. PICK first \in 1 .. Len(paths) :
        paths[first] = <<>> /\ m_pglv' = [m_pglv EXCEPT ![q] = Len(tables) + first]
  BY <1>3
<1>5. PICK owner2, path2 :
        CopiesNamed(tables, m_pglv, m_pglv', owner, path, owner2, path2, q, paths, first)
  BY <1>4 DEF CopiesNamed
<1>6. /\ Formed(tables', m_pglv', owner2, path2)
      /\ MapsAfterFork(tables, owner, path, tables', owner2, path2, p, q)
  <2>1. paths[first] = <<>> BY <1>4
  <2>2. Copies(tables, tables', owner, path, p, q, paths) BY <1>3
  <2> QED BY <1>1, <1>5, <2>1, <2>2, CopiesFormed
<1> QED BY <1>6 DEF MapsAfterFork

-----------------------------------------------------------------------------
(* The first directory *)

\* The kernel's directory when the first process is made.
InitDirectory(tops) ==
  [i \in Indices |-> IF \E n \in DOMAIN tops : tops[n] = i
                       THEN Skel(1 + CHOOSE n \in DOMAIN tops : tops[n] = i, FALSE, TRUE) ELSE NoEntry]

\* The first tables are formed.
LEMMA InitFormed ==
  ASSUME Directories, Init
  PROVE  \E owner, path : Formed(tables, m_pglv, owner, path)
<1> DEFINE tops == SetToSeq(Tops)
           m == Len(tops)
           rest == [n \in DOMAIN tops |-> Cleared]
           S == [Indices -> AnyEntry \cup {NoEntry}]
           owner == [t \in 1 .. 1 + m |-> KernelOwner]
           path == [t \in 1 .. 1 + m |-> IF t = 1 THEN <<>> ELSE Append(<<>>, tops[t - 1])]
<1>1. /\ Levels \in Nat /\ Levels >= 2 /\ IsFiniteSet(Indices) /\ Tops \subseteq Indices
      /\ IsFiniteSet(Tops)
  <2>1. Levels \in Nat /\ Levels >= 2 /\ IsFiniteSet(Indices) BY DEF Directories
  <2>2. Tops \subseteq Indices
    <3> SUFFICES ASSUME NEW v \in KernelPages
                 PROVE  v[1] \in Indices
      BY DEF Tops
    <3> v \in [1 .. Levels -> Indices] /\ 1 \in 1 .. Levels BY <2>1 DEF Directories
    <3> QED OBVIOUS
  <2>3. IsFiniteSet(Tops) BY <2>1, <2>2, FS_Subset
  <2> QED BY <2>1, <2>2, <2>3
<1>2. /\ tops \in Seq(Tops) /\ m \in Nat /\ DOMAIN tops = 1 .. m
      /\ \A j, k \in 1 .. m : tops[j] = tops[k] => j = k
      /\ \A i \in Tops : \E k \in 1 .. m : tops[k] = i
  BY <1>1, SetToSeqFacts
<1>3. \A k \in 1 .. m : tops[k] \in Tops BY <1>2
<1>4. tables = <<InitDirectory(tops)>> \o rest /\ m_pglv = [p \in Procs |-> 0]
  BY Zenon DEF Init, InitDirectory, Tops
<1> HIDE DEF tops, m, rest
<1>5. KernelOwner \notin Procs /\ KernelOwner \in Owners BY OwnersDiffer DEF Owners
<1>6. /\ InitDirectory(tops) \in S
      /\ \A i \in Indices \ Tops : InitDirectory(tops)[i] = NoEntry
      /\ \A k \in 1 .. m : InitDirectory(tops)[tops[k]] = Link(KernelOwner, 1 + k)
  <2> DEFINE place(i) == CHOOSE n \in DOMAIN tops : tops[n] = i
  <2>1. \A k \in 1 .. m : place(tops[k]) = k BY <1>2
  <2>2. \A i \in Tops : \E n \in DOMAIN tops : tops[n] = i BY <1>2
  <2>3. \A i \in Indices \ Tops : ~ \E n \in DOMAIN tops : tops[n] = i BY <1>2, <1>3
  <2> DEFINE entry(i) == IF \E n \in DOMAIN tops : tops[n] = i THEN Skel(1 + place(i), FALSE, TRUE) ELSE NoEntry
  <2>4. InitDirectory(tops) = [i \in Indices |-> entry(i)] BY DEF InitDirectory
  <2>5. \A k \in 1 .. m : entry(tops[k]) = Link(KernelOwner, 1 + k) /\ entry(tops[k]) \in AnyEntry
    <3> SUFFICES ASSUME NEW k \in 1 .. m
                 PROVE  entry(tops[k]) = Link(KernelOwner, 1 + k) /\ entry(tops[k]) \in AnyEntry
      OBVIOUS
    <3>1. \E n \in DOMAIN tops : tops[n] = tops[k] BY <1>2
    <3>2. entry(tops[k]) = Skel(1 + k, FALSE, TRUE) BY <2>1, <3>1
    <3> HIDE DEF entry
    <3>3. (KernelOwner \in Procs) = FALSE BY <1>5
    <3>4. Link(KernelOwner, 1 + k) = Skel(1 + k, FALSE, TRUE) BY <3>3 DEF Link
    <3>5. 1 + k \in Nat BY <1>2
    <3>6. Link(KernelOwner, 1 + k) \in AnyEntry BY <3>5, LinkFacts
    <3> QED BY <3>2, <3>4, <3>6
  <2>6. \A i \in Indices \ Tops : entry(i) = NoEntry BY <2>3
  <2> HIDE DEF entry, place
  <2>7. \A i \in Indices : entry(i) \in AnyEntry \cup {NoEntry} BY <1>2, <2>5, <2>6
  <2> QED BY <1>1, <1>3, <2>4, <2>5, <2>6, <2>7
<1>7. rest \in [1 .. m -> S] /\ (\A k \in 1 .. m : rest[k] = Cleared) /\ (\A i \in Indices : Cleared[i] = NoEntry)
  BY <1>2 DEF rest, Cleared
<1> HIDE DEF S
<1>8. rest \in Seq(S) /\ Len(rest) = m BY <1>2, <1>7
<1>9. <<InitDirectory(tops)>> \in Seq(S) /\ Len(<<InitDirectory(tops)>>) = 1
      /\ <<InitDirectory(tops)>>[1] = InitDirectory(tops)
  BY <1>6
<1>10. /\ tables \in Seq(S) /\ Len(tables) = 1 + m
       /\ tables[1] = InitDirectory(tops)
       /\ \A k \in 1 .. m : tables[1 + k] = Cleared
  <2>1. /\ <<InitDirectory(tops)>> \o rest \in Seq(S)
        /\ Len(<<InitDirectory(tops)>> \o rest) = 1 + m
        /\ \A j \in 1 .. 1 + m : (<<InitDirectory(tops)>> \o rest)[j] =
             IF j <= 1 THEN <<InitDirectory(tops)>>[j] ELSE rest[j - 1]
    BY <1>8, <1>9, ConcatProperties
  <2>2. 1 \in 1 .. 1 + m /\ \A k \in 1 .. m : 1 + k \in 1 .. 1 + m /\ ~ (1 + k <= 1) /\ (1 + k) - 1 = k
    BY <1>2
  <2> QED BY <1>4, <1>7, <1>9, <2>1, <2>2
<1>11. /\ owner \in [1 .. 1 + m -> Owners \cup {Nobody}] /\ path \in [1 .. 1 + m -> Paths]
       /\ \A t \in 1 .. 1 + m : owner[t] = KernelOwner
       /\ 1 \in 1 .. 1 + m /\ path[1] = <<>>
       /\ \A k \in 1 .. m : 1 + k \in 1 .. 1 + m /\ path[1 + k] = Append(<<>>, tops[k])
       /\ \A t \in 1 .. 1 + m : t = 1 \/ \E k \in 1 .. m : t = 1 + k
  <2>1. \A t \in 1 .. 1 + m : t # 1 => t - 1 \in 1 .. m /\ t = 1 + (t - 1) BY <1>2
  <2>2. \A k \in 1 .. m : 1 + k \in 1 .. 1 + m /\ 1 + k # 1 /\ (1 + k) - 1 = k BY <1>2
  <2>3. \A k \in 1 .. m : path[1 + k] = Append(<<>>, tops[k]) BY <2>2
  <2>4. <<>> \in Paths
    <3>1. <<>> \in Seq(Indices) /\ Len(<<>>) <= Levels - 1 BY <1>1
    <3> QED BY <3>1, SequencesArePaths
  <2>5. \A i \in Indices : Append(<<>>, i) \in Paths
    <3> SUFFICES ASSUME NEW i \in Indices
                 PROVE  Append(<<>>, i) \in Paths
      BY Zenon
    <3>1. <<>> \in Seq(Indices) /\ Len(<<>>) = 0 OBVIOUS
    <3>2. Append(<<>>, i) \in Seq(Indices) /\ Len(Append(<<>>, i)) = 0 + 1 BY <3>1, AppendFacts
    <3>3. Len(Append(<<>>, i)) <= Levels - 1 BY <1>1, <3>2
    <3> QED BY <3>2, <3>3, SequencesArePaths
  <2>6. 1 \in 1 .. 1 + m /\ path[1] = <<>> BY <1>2
  <2>7. \A t \in 1 .. 1 + m : path[t] \in Paths
    <3> SUFFICES ASSUME NEW t \in 1 .. 1 + m
                 PROVE  path[t] \in Paths
      OBVIOUS
    <3>1. CASE t = 1 BY <2>4, <2>6, <3>1
    <3>2. CASE t # 1
      <4>1. path[t] = Append(<<>>, tops[t - 1]) BY <3>2
      <4>2. tops[t - 1] \in Indices BY <1>1, <1>3, <2>1, <3>2
      <4> QED BY <2>5, <4>1, <4>2
    <3> QED BY <3>1, <3>2
  <2>8. path \in [1 .. 1 + m -> Paths] BY <2>7
  <2>9. owner \in [1 .. 1 + m -> Owners \cup {Nobody}] BY <1>5
  <2> QED BY <2>1, <2>2, <2>3, <2>6, <2>8, <2>9
<1> HIDE DEF owner, path
<1>12. <<>> \in Seq(Indices) /\ Len(<<>>) = 0 /\ Len(<<>>) # Levels - 1 BY <1>1
<1>13. Typed(tables, m_pglv, owner, path)
  <2>1. Len(tables) >= 1 BY <1>2, <1>10
  <2>2. m_pglv \in [Procs -> 0 .. 1 + m] BY <1>2, <1>4
  <2> QED BY <1>10, <1>11, <2>1, <2>2 DEF Typed, S
<1>14. Rooted(tables, m_pglv, owner, path)
  <2>1. \A t \in 1 .. Len(tables) : owner[t] \notin Procs BY <1>5, <1>10, <1>11
  <2>2. ASSUME NEW o \in Owners, Root(m_pglv, o) # 0
        PROVE  owner[Root(m_pglv, o)] = o /\ path[Root(m_pglv, o)] = <<>>
    <3>1. o = KernelOwner BY <1>4, <2>2 DEF Root, Owners
    <3>2. Root(m_pglv, KernelOwner) = 1 BY DEF Root, Kernel
    <3> QED BY <1>11, <3>1, <3>2
  <2> QED BY <2>1, <2>2 DEF Rooted
<1>15. Apart(tables, owner, path)
  <2> SUFFICES ASSUME NEW t \in 1 .. 1 + m, NEW u \in 1 .. 1 + m, path[t] = path[u]
               PROVE  t = u
    BY <1>10 DEF Apart
  <2>1. \A k \in 1 .. m : path[1 + k] # <<>>
    <3> SUFFICES ASSUME NEW k \in 1 .. m
                 PROVE  path[1 + k] # <<>>
      OBVIOUS
    <3>1. Append(<<>>, tops[k]) # <<>> BY <1>1, <1>3, <1>12, AppendFacts
    <3> QED BY <1>11, <3>1
  <2>2. CASE t = 1
    <3>1. path[u] = <<>> BY <1>11, <2>2
    <3>2. u = 1 BY <1>11, <2>1, <3>1
    <3> QED BY <2>2, <3>2
  <2>3. CASE u = 1
    <3>1. path[t] = <<>> BY <1>11, <2>3
    <3>2. t = 1 BY <1>11, <2>1, <3>1
    <3> QED BY <2>3, <3>2
  <2>4. ASSUME NEW j \in 1 .. m, NEW k \in 1 .. m, t = 1 + j, u = 1 + k
        PROVE  t = u
    <3>1. Append(<<>>, tops[j]) = Append(<<>>, tops[k]) BY <1>11, <2>4
    <3>2. tops[j] \in Indices /\ tops[k] \in Indices BY <1>1, <1>3
    <3>3. tops[j] = tops[k] BY <1>12, <3>1, <3>2, AppendFacts
    <3>4. j = k BY <1>2, <3>3
    <3> QED BY <2>4, <3>4
  <2> QED BY <1>11, <2>2, <2>3, <2>4
<1>16. Down(tables, owner, path)
  <2> SUFFICES ASSUME NEW t \in 1 .. 1 + m, NEW i \in Indices, tables[t][i] # NoEntry
               PROVE  /\ Len(path[t]) # Levels - 1
                      /\ \E u \in 1 .. 1 + m :
                           tables[t][i] = Link(KernelOwner, u) /\ Child(path[u], path[t], i)
    BY <1>10, <1>11 DEF Down
  <2>1. t = 1 BY <1>7, <1>10, <1>11
  <2>2. path[t] = <<>> /\ tables[t] = InitDirectory(tops) BY <1>10, <1>11, <2>1
  <2>3. i \in Tops BY <1>6, <2>2
  <2>4. PICK k \in 1 .. m : tops[k] = i BY <1>2, <2>3
  <2>5. tables[t][i] = Link(KernelOwner, 1 + k) BY <1>6, <2>2, <2>4
  <2>6. Child(path[1 + k], <<>>, i) BY <1>11, <2>4 DEF Child
  <2> QED BY <1>11, <1>12, <2>2, <2>5, <2>6
<1>17. Up(tables, owner, path)
  <2> SUFFICES ASSUME NEW t \in 1 .. 1 + m, path[t] # <<>>
               PROVE  \E u \in 1 .. 1 + m, i \in Indices :
                        /\ Child(path[t], path[u], i) /\ Own(KernelOwner, path[u], i)
                        /\ tables[u][i] = Link(KernelOwner, t)
    BY <1>10, <1>11 DEF Up
  <2>1. PICK k \in 1 .. m : t = 1 + k BY <1>11
  <2>2. tops[k] \in Indices BY <1>1, <1>3
  <2>3. path[t] = Append(<<>>, tops[k]) BY <1>11, <2>1
  <2>4. Child(path[t], path[1], tops[k]) BY <1>11, <2>3 DEF Child
  <2>5. tables[1][tops[k]] = Link(KernelOwner, t) BY <1>6, <1>10, <2>1
  <2>6. Own(KernelOwner, path[1], tops[k]) BY DEF Own
  <2> QED BY <1>11, <2>2, <2>4, <2>5, <2>6
<1>18. Shared(tables, m_pglv)
  <2>1. \A i \in Indices : tables[Kernel][i] # NoEntry <=> i \in Tops
    <3> SUFFICES ASSUME NEW i \in Indices
                 PROVE  InitDirectory(tops)[i] # NoEntry <=> i \in Tops
      BY <1>10 DEF Kernel
    <3>1. CASE i \in Tops
      <4>1. PICK k \in 1 .. m : tops[k] = i BY <1>2, <3>1
      <4>2. InitDirectory(tops)[i] = Link(KernelOwner, 1 + k) BY <1>6, <4>1
      <4>3. 1 + k \in Nat BY <1>2
      <4>4. Link(KernelOwner, 1 + k) # NoEntry BY <4>3, LinkFacts
      <4> QED BY <3>1, <4>2, <4>4
    <3>2. CASE i \notin Tops BY <1>6, <3>2
    <3> QED BY <3>1, <3>2
  <2> QED BY <1>4, <2>1 DEF Shared
<1>19. Formed(tables, m_pglv, owner, path) BY <1>13, <1>14, <1>15, <1>16, <1>17, <1>18 DEF Formed
<1> QED BY <1>19

-----------------------------------------------------------------------------
(* What the tables map *)

\* The maps of AddressSpaces, in the tables.
UsersIn(ts, pglv) == [p \in Procs |-> [v \in UserPages |-> TranslateIn(ts, pglv[p], v)]]
KernelsIn(ts) == [v \in KernelPages |-> TranslateIn(ts, Kernel, v)]
Users == [p \in Procs |-> [v \in UserPages |-> Translate(m_pglv[p], v)]]
Kernels == [v \in KernelPages |-> Translate(Kernel, v)]

\* They are those that Spaces is given.
LEMMA UsersAre ==
  /\ Users = UsersIn(tables, m_pglv) /\ Users' = UsersIn(tables', m_pglv')
  /\ Kernels = KernelsIn(tables) /\ Kernels' = KernelsIn(tables')
<1>1. Users = UsersIn(tables, m_pglv) BY DEF Users, UsersIn, Translate, TranslateIn
<1>2. Users' = UsersIn(tables', m_pglv') BY DEF Users, UsersIn, Translate, TranslateIn, Walk
<1>3. Kernels = KernelsIn(tables) BY DEF Kernels, KernelsIn, Translate, TranslateIn
<1>4. Kernels' = KernelsIn(tables') BY DEF Kernels, KernelsIn, Translate, TranslateIn, Walk, Kernel
<1> QED BY <1>1, <1>2, <1>3, <1>4

\* The maps that the abstract specification is about, as the last tables hold them.
LEMMA MapsAre ==
  ASSUME Directories, NEW ts, NEW pglv, NEW owner, NEW path, Formed(ts, pglv, owner, path)
  PROVE  /\ UsersIn(ts, pglv) = [p \in Procs |-> [v \in UserPages |-> Look(ts, owner, path, p, v)]]
         /\ KernelsIn(ts) = [v \in KernelPages |-> Look(ts, owner, path, KernelOwner, v)]
<1>1. \A p \in Procs, v \in UserPages : TranslateIn(ts, pglv[p], v) = Look(ts, owner, path, p, v)
  BY MapFacts
<1>2. \A v \in KernelPages : TranslateIn(ts, Kernel, v) = Look(ts, owner, path, KernelOwner, v)
  BY MapFacts DEF LiveRoots
<1> QED BY <1>1, <1>2 DEF UsersIn, KernelsIn

\* The first tables are formed and map as AddressSpaces begins.
LEMMA InitMaps ==
  ASSUME Directories, Init
  PROVE  TablesFormed /\ Spaces!Init
<1>1. PICK owner, path : Formed(tables, m_pglv, owner, path) BY InitFormed
<1>2. Users = [p \in Procs |-> [v \in UserPages |-> NoEntry]]
  <2>1. \A p \in Procs, v \in UserPages : TranslateIn(tables, m_pglv[p], v) = NoEntry
    BY DEF Init, TranslateIn
  <2>2. UsersIn(tables, m_pglv) = [p \in Procs |-> [v \in UserPages |-> NoEntry]] BY <2>1 DEF UsersIn
  <2> QED BY <2>2, UsersAre
<1>3. Kernels \in [KernelPages -> [addr : Pages, user : {FALSE}, write : {TRUE}] \cup {NoEntry}]
  <2>1. ASSUME NEW v \in KernelPages
        PROVE  Look(tables, owner, path, KernelOwner, v) \in
                 [addr : Pages, user : {FALSE}, write : {TRUE}] \cup {NoEntry}
    <3>1. v \in [1 .. Levels -> Indices] BY DEF Directories
    <3>2. KernelOwner \in Owners /\ KernelOwner \notin Procs BY OwnersDiffer DEF Owners
    <3>3. Look(tables, owner, path, KernelOwner, v) # NoEntry =>
            Look(tables, owner, path, KernelOwner, v) \in Leaves(KernelOwner)
      BY <1>1, <3>1, <3>2, LookIsLeaf
    <3>4. Leaves(KernelOwner) = [addr : Pages, user : {FALSE}, write : {TRUE}] BY <3>2 DEF Leaves
    <3> QED BY <3>3, <3>4
  <2>2. Kernels = [v \in KernelPages |-> Look(tables, owner, path, KernelOwner, v)]
    BY <1>1, MapsAre, UsersAre
  <2> QED BY <2>1, <2>2
<1>4. TablesFormed BY <1>1 DEF TablesFormed
<1>5. Spaces!Init BY <1>2, <1>3 DEF Spaces!Init, Spaces!Empty, Users, Kernels
<1> QED BY <1>4, <1>5

\* Where one page of one owner is written, the maps change for that page only.
LEMMA WrittenMaps ==
  ASSUME Directories, NEW owner, NEW path, Formed(tables, m_pglv, owner, path),
         NEW owner2, NEW path2, Formed(tables', m_pglv', owner2, path2),
         NEW o \in Owners, NEW v \in [1 .. Levels -> Indices], NEW e,
         Written(tables, tables', owner, path, owner2, path2, o, v, e)
  PROVE  /\ \A x \in Procs, w \in UserPages : Users'[x][w] = IF x = o /\ w = v THEN e ELSE Users[x][w]
         /\ \A w \in KernelPages : Kernels'[w] = IF KernelOwner = o /\ w = v THEN e ELSE Kernels[w]
<1>1. /\ Users = [p \in Procs |-> [w \in UserPages |-> Look(tables, owner, path, p, w)]]
      /\ Kernels = [w \in KernelPages |-> Look(tables, owner, path, KernelOwner, w)]
  BY MapsAre, UsersAre
<1>2. /\ Users' = [p \in Procs |-> [w \in UserPages |-> Look(tables', owner2, path2, p, w)]]
      /\ Kernels' = [w \in KernelPages |-> Look(tables', owner2, path2, KernelOwner, w)]
  BY MapsAre, UsersAre
<1>3. \A x \in Owners, w \in [1 .. Levels -> Indices] :
        Look(tables', owner2, path2, x, w) = IF x = o /\ w = v THEN e ELSE Look(tables, owner, path, x, w)
  BY DEF Written
<1>4. UserPages \subseteq [1 .. Levels -> Indices] /\ KernelPages \subseteq [1 .. Levels -> Indices]
  BY DEF Directories
<1>5. KernelOwner \in Owners /\ Procs \subseteq Owners BY DEF Owners
<1>6. \A x \in Procs, w \in UserPages : Users'[x][w] = IF x = o /\ w = v THEN e ELSE Users[x][w]
  BY <1>1, <1>2, <1>3, <1>4, <1>5
<1>7. \A w \in KernelPages : Kernels'[w] = IF KernelOwner = o /\ w = v THEN e ELSE Kernels[w]
  BY <1>1, <1>2, <1>3, <1>4, <1>5
<1> QED BY <1>6, <1>7

\* What a user page and a page of the kernel are mapped to.
UserEntries == [addr : Pages, user : {TRUE}, write : BOOLEAN]
KernelEntries == [addr : Pages, user : {FALSE}, write : {TRUE}]

\* The maps are functions of processes and pages.
LEMMA UsersTyped ==
  /\ Users = [p \in Procs |-> Users[p]] /\ Users' = [p \in Procs |-> Users'[p]]
  /\ \A p \in Procs : Users[p] = [v \in UserPages |-> Users[p][v]]
  /\ \A p \in Procs : Users'[p] = [v \in UserPages |-> Users'[p][v]]
  /\ Kernels = [v \in KernelPages |-> Kernels[v]] /\ Kernels' = [v \in KernelPages |-> Kernels'[v]]
  BY DEF Users, Kernels

\* A user page that is written is a step of AddressSpaces.
LEMMA UserWritten ==
  ASSUME Directories, NEW owner, NEW path, Formed(tables, m_pglv, owner, path),
         NEW owner2, NEW path2, Formed(tables', m_pglv', owner2, path2),
         NEW p \in Procs, NEW v \in UserPages, NEW e \in UserEntries,
         Written(tables, tables', owner, path, owner2, path2, p, v, e)
  PROVE  Spaces!Next
<1>1. v \in [1 .. Levels -> Indices] BY DEF Directories
<1>2. p \in Owners /\ KernelOwner # p BY OwnersDiffer DEF Owners
<1>3. /\ \A x \in Procs, w \in UserPages : Users'[x][w] = IF x = p /\ w = v THEN e ELSE Users[x][w]
      /\ \A w \in KernelPages : Kernels'[w] = IF KernelOwner = p /\ w = v THEN e ELSE Kernels[w]
  BY <1>1, <1>2, WrittenMaps
<1>4. Users' = [Users EXCEPT ![p][v] = e]
  <2> DEFINE new == [Users EXCEPT ![p][v] = e]
  <2>1. new = [Users EXCEPT ![p] = [Users[p] EXCEPT ![v] = e]] OBVIOUS
  <2>2. \A x \in Procs : Users'[x] = [w \in UserPages |-> Users'[x][w]] BY UsersTyped
  <2>3. \A x \in Procs : Users[x] = [w \in UserPages |-> Users[x][w]] BY UsersTyped
  <2>4. [Users[p] EXCEPT ![v] = e] = [w \in UserPages |-> IF w = v THEN e ELSE Users[p][w]] BY <2>3
  <2>5. Users'[p] = [w \in UserPages |-> IF w = v THEN e ELSE Users[p][w]] BY <1>3, <2>2
  <2>6. \A x \in Procs \ {p} : Users'[x] = Users[x] BY <1>3, <2>2, <2>3
  <2>7. Users = [x \in Procs |-> Users[x]] /\ Users' = [x \in Procs |-> Users'[x]] BY UsersTyped
  <2>8. [Users EXCEPT ![p] = Users'[p]] = [x \in Procs |-> IF x = p THEN Users'[p] ELSE Users[x]] BY <2>7
  <2>9. Users' = [x \in Procs |-> IF x = p THEN Users'[p] ELSE Users[x]] BY <2>6, <2>7
  <2> QED BY <2>1, <2>4, <2>5, <2>8, <2>9
<1>5. Kernels' = Kernels BY <1>2, <1>3, UsersTyped
<1>6. Spaces!Changed(Users, Users')
  <2>1. e \in [addr : Pages, user : {TRUE}, write : BOOLEAN] BY DEF UserEntries
  <2> QED BY <1>4, <2>1 DEF Spaces!Changed
<1> QED BY <1>5, <1>6 DEF Spaces!Next, Users, Kernels

\* So is a page of the kernel's.
LEMMA KernelWritten ==
  ASSUME Directories, NEW owner, NEW path, Formed(tables, m_pglv, owner, path),
         NEW owner2, NEW path2, Formed(tables', m_pglv', owner2, path2),
         NEW v \in KernelPages, NEW e \in KernelEntries,
         Written(tables, tables', owner, path, owner2, path2, KernelOwner, v, e)
  PROVE  Spaces!Next
<1>1. v \in [1 .. Levels -> Indices] BY DEF Directories
<1>2. KernelOwner \in Owners /\ KernelOwner \notin Procs BY OwnersDiffer DEF Owners
<1>3. /\ \A x \in Procs, w \in UserPages : Users'[x][w] = IF x = KernelOwner /\ w = v THEN e ELSE Users[x][w]
      /\ \A w \in KernelPages : Kernels'[w] = IF KernelOwner = KernelOwner /\ w = v THEN e ELSE Kernels[w]
  BY <1>1, <1>2, WrittenMaps
<1>4. Kernels' = [Kernels EXCEPT ![v] = e] BY <1>3, UsersTyped
<1>5. Users' = Users
  <2>1. \A x \in Procs, w \in UserPages : Users'[x][w] = Users[x][w] BY <1>2, <1>3
  <2>2. \A x \in Procs : Users'[x] = Users[x] BY <2>1, UsersTyped
  <2> QED BY <2>2, UsersTyped
<1>6. e \in [addr : Pages, user : {FALSE}, write : {TRUE}] BY DEF KernelEntries
<1>7. Spaces!MapKernel(v, e) BY <1>4 DEF Spaces!MapKernel, Kernels
<1> QED BY <1>5, <1>6, <1>7 DEF Spaces!Next, Users

-----------------------------------------------------------------------------
(* Steps of the page tables *)

\* Each action keeps the tables formed and is a step of AddressSpaces: create_user,
LEMMA CreateMaps ==
  ASSUME Directories, TablesFormed, NEW p \in Procs, create_user(p)
  PROVE  TablesFormed' /\ Spaces!Next
<1>1. PICK owner, path : Formed(tables, m_pglv, owner, path) BY DEF TablesFormed
<1>2. PICK owner2, path2 :
        /\ Formed(tables', m_pglv', owner2, path2)
        /\ \A x \in Owners, v \in [1 .. Levels -> Indices] :
             Look(tables', owner2, path2, x, v) = IF x = p THEN NoEntry ELSE Look(tables, owner, path, x, v)
  BY <1>1, CreateStep
<1>3. TablesFormed' BY <1>2 DEF TablesFormed
<1>4. /\ Users = [x \in Procs |-> [w \in UserPages |-> Look(tables, owner, path, x, w)]]
      /\ Kernels = [w \in KernelPages |-> Look(tables, owner, path, KernelOwner, w)]
  BY <1>1, MapsAre, UsersAre
<1>5. /\ Users' = [x \in Procs |-> [w \in UserPages |-> Look(tables', owner2, path2, x, w)]]
      /\ Kernels' = [w \in KernelPages |-> Look(tables', owner2, path2, KernelOwner, w)]
  BY <1>2, MapsAre, UsersAre
<1>6. /\ UserPages \subseteq [1 .. Levels -> Indices] /\ KernelPages \subseteq [1 .. Levels -> Indices]
      /\ KernelOwner \in Owners /\ Procs \subseteq Owners /\ KernelOwner # p
  BY OwnersDiffer DEF Directories, Owners
<1>7. Users' = [Users EXCEPT ![p] = Spaces!Empty]
  <2>1. \A x \in Procs \ {p} : Users'[x] = Users[x] BY <1>2, <1>4, <1>5, <1>6
  <2>2. Users'[p] = [v \in UserPages |-> NoEntry] BY <1>2, <1>5, <1>6
  <2>3. Users'[p] = Spaces!Empty BY <2>2 DEF Spaces!Empty
  <2> QED BY <2>1, <2>3, UsersTyped
<1>8. Kernels' = Kernels BY <1>2, <1>4, <1>5, <1>6
<1>9. Spaces!Changed(Users, Users') BY <1>7 DEF Spaces!Changed
<1>10. Spaces!Next BY <1>8, <1>9 DEF Spaces!Next, Users, Kernels
<1> QED BY <1>3, <1>10

\* cow_clone,
LEMMA CloneMaps ==
  ASSUME Directories, TablesFormed, NEW p \in Procs, NEW q \in Procs, cow_clone(p, q)
  PROVE  TablesFormed' /\ Spaces!Next
<1>1. PICK owner, path : Formed(tables, m_pglv, owner, path) BY DEF TablesFormed
<1>2. PICK owner2, path2 :
        /\ Formed(tables', m_pglv', owner2, path2)
        /\ \A x \in Owners, v \in [1 .. Levels -> Indices] :
             Look(tables', owner2, path2, x, v) =
               IF x \in {p, q} THEN Unwritable(Look(tables, owner, path, p, v))
               ELSE Look(tables, owner, path, x, v)
  BY <1>1, CloneStep
<1>3. TablesFormed' BY <1>2 DEF TablesFormed
<1>4. /\ Users = [x \in Procs |-> [w \in UserPages |-> Look(tables, owner, path, x, w)]]
      /\ Kernels = [w \in KernelPages |-> Look(tables, owner, path, KernelOwner, w)]
  BY <1>1, MapsAre, UsersAre
<1>5. /\ Users' = [x \in Procs |-> [w \in UserPages |-> Look(tables', owner2, path2, x, w)]]
      /\ Kernels' = [w \in KernelPages |-> Look(tables', owner2, path2, KernelOwner, w)]
  BY <1>2, MapsAre, UsersAre
<1>6. /\ UserPages \subseteq [1 .. Levels -> Indices] /\ KernelPages \subseteq [1 .. Levels -> Indices]
      /\ KernelOwner \in Owners /\ Procs \subseteq Owners /\ KernelOwner \notin {p, q}
  BY OwnersDiffer DEF Directories, Owners
<1>7. q \in Procs \ {p} BY Zenon DEF cow_clone
<1> DEFINE shared == [v \in UserPages |-> Unwritable(Users[p][v])]
<1>8. Users' = [Users EXCEPT ![p] = shared, ![q] = shared]
  <2>1. \A x \in Procs \ {p, q} : Users'[x] = Users[x] BY <1>2, <1>4, <1>5, <1>6
  <2>2. \A x \in {p, q} : Users'[x] = shared
    <3> SUFFICES ASSUME NEW x \in {p, q}
                 PROVE  Users'[x] = shared
      OBVIOUS
    <3>1. Users'[x] = [w \in UserPages |-> Look(tables', owner2, path2, x, w)] BY <1>5
    <3>2. \A w \in UserPages : Look(tables', owner2, path2, x, w) = Unwritable(Users[p][w])
      BY <1>2, <1>4, <1>6
    <3> QED BY <3>1, <3>2
  <2> HIDE DEF shared
  <2>3. [Users EXCEPT ![p] = shared, ![q] = shared] =
          [x \in Procs |-> IF x \in {p, q} THEN shared ELSE Users[x]]
    BY <1>7, UsersTyped
  <2> QED BY <2>1, <2>2, <2>3, UsersTyped
<1>9. Kernels' = Kernels BY <1>2, <1>4, <1>5, <1>6
<1>10. Spaces!Changed(Users, Users')
  <2> HIDE DEF shared
  <2>1. \E r \in Procs \ {p} : Users' = [Users EXCEPT ![p] = shared, ![r] = shared] BY <1>7, <1>8
  <2> QED BY <2>1 DEF Spaces!Changed, shared
<1>11. Spaces!Next BY <1>9, <1>10 DEF Spaces!Next, Users, Kernels
<1> QED BY <1>3, <1>11

\* map_page_user,
LEMMA MapMaps ==
  ASSUME Directories, TablesFormed, NEW p \in Procs, NEW v \in UserPages, NEW page \in Pages,
         map_page_user(p, v, page, TRUE)
  PROVE  TablesFormed' /\ Spaces!Next
<1>1. PICK owner, path : Formed(tables, m_pglv, owner, path) BY DEF TablesFormed
<1>2. v \in [1 .. Levels -> Indices] /\ v[1] \notin Tops BY DEF Directories
<1>3. Way(m_pglv, p, m_pglv[p], v) BY <1>2 DEF Way, map_page_user, Exists
<1>4. Rights(TRUE, p) BY DEF Rights
<1>5. tables' = Mapped(m_pglv[p], v, page, TRUE, TRUE) /\ m_pglv' = m_pglv BY DEF map_page_user
<1> DEFINE e == Skel(page, TRUE, TRUE)
<1>6. e \in UserEntries BY DEF UserEntries, Skel
<1>7. PICK owner2, path2 :
        Formed(tables', m_pglv, owner2, path2) /\ Written(tables, tables', owner, path, owner2, path2, p, v, e)
  BY <1>1, <1>2, <1>3, <1>4, <1>5, MapStep
<1> HIDE DEF e
<1>8. Formed(tables', m_pglv', owner2, path2) BY <1>5, <1>7
<1>9. Spaces!Next BY <1>1, <1>6, <1>7, <1>8, UserWritten
<1> QED BY <1>8, <1>9 DEF TablesFormed

\* resolve_cow
LEMMA ResolveMaps ==
  ASSUME Directories, TablesFormed, NEW p \in Procs, NEW v \in UserPages, NEW page \in Pages,
         resolve_cow(p, v, page)
  PROVE  TablesFormed' /\ Spaces!Next
<1>1. PICK owner, path : Formed(tables, m_pglv, owner, path) BY DEF TablesFormed
<1> DEFINE e == Skel(page, TRUE, TRUE)
<1>2. e \in UserEntries BY DEF UserEntries, Skel
<1>3. PICK owner2, path2 :
        Formed(tables', m_pglv, owner2, path2) /\ Written(tables, tables', owner, path, owner2, path2, p, v, e)
  BY <1>1, ResolveStep
<1> HIDE DEF e
<1>4. m_pglv' = m_pglv BY DEF resolve_cow
<1>5. Formed(tables', m_pglv', owner2, path2) BY <1>3, <1>4
<1>6. Spaces!Next BY <1>1, <1>2, <1>3, <1>5, UserWritten
<1> QED BY <1>5, <1>6 DEF TablesFormed

\* and map_page.
LEMMA KernelMaps ==
  ASSUME Directories, TablesFormed, NEW root \in Roots, NEW v \in KernelPages, NEW page \in Pages,
         map_page(root, v, page)
  PROVE  TablesFormed' /\ Spaces!Next
<1>1. PICK owner, path : Formed(tables, m_pglv, owner, path) BY DEF TablesFormed
<1>2. v \in [1 .. Levels -> Indices] /\ v[1] \in Tops BY DEF Directories, Tops
<1>3. Way(m_pglv, KernelOwner, root, v) BY <1>2 DEF Way, Roots, LiveRoots, Exists
<1>4. Rights(FALSE, KernelOwner)
  <2> (KernelOwner \in Procs) = FALSE BY OwnersDiffer
  <2> QED BY DEF Rights
<1>5. tables' = Mapped(root, v, page, FALSE, TRUE) /\ m_pglv' = m_pglv BY DEF map_page
<1> DEFINE e == Skel(page, FALSE, TRUE)
<1>6. e \in KernelEntries BY DEF KernelEntries, Skel
<1>7. PICK owner2, path2 :
        /\ Formed(tables', m_pglv, owner2, path2)
        /\ Written(tables, tables', owner, path, owner2, path2, KernelOwner, v, e)
  BY <1>1, <1>2, <1>3, <1>4, <1>5, MapStep
<1> HIDE DEF e
<1>8. Formed(tables', m_pglv', owner2, path2) BY <1>5, <1>7
<1>9. Spaces!Next BY <1>1, <1>6, <1>7, <1>8, KernelWritten
<1> QED BY <1>8, <1>9 DEF TablesFormed

\* Every step keeps the tables formed and maps to a step or a stutter.
LEMMA StepMaps ==
  ASSUME Directories, TablesFormed, [Next]_vars
  PROVE  TablesFormed' /\ (Spaces!Next \/ (Users' = Users /\ Kernels' = Kernels))
<1>1. ASSUME NEW p \in Procs, NEW v \in UserPages, NEW page \in Pages, map_page_user(p, v, page, TRUE)
      PROVE  TablesFormed' /\ Spaces!Next
  BY <1>1, MapMaps
<1>2. ASSUME NEW p \in Procs, NEW v \in UserPages, NEW page \in Pages, resolve_cow(p, v, page)
      PROVE  TablesFormed' /\ Spaces!Next
  BY <1>2, ResolveMaps
<1>3. ASSUME NEW p \in Procs, create_user(p)
      PROVE  TablesFormed' /\ Spaces!Next
  BY <1>3, CreateMaps
<1>4. ASSUME NEW p \in Procs, NEW q \in Procs, cow_clone(p, q)
      PROVE  TablesFormed' /\ Spaces!Next
  BY <1>4, CloneMaps
<1>5. ASSUME NEW root \in Roots, NEW v \in KernelPages, NEW page \in Pages, map_page(root, v, page)
      PROVE  TablesFormed' /\ Spaces!Next
  BY <1>5, KernelMaps
<1>6. CASE UNCHANGED vars
  <2>1. tables' = tables /\ m_pglv' = m_pglv BY <1>6 DEF vars
  <2>2. TablesFormed' BY <2>1 DEF TablesFormed
  <2>3. Users' = Users /\ Kernels' = Kernels BY <2>1, UsersAre
  <2> QED BY <2>2, <2>3
<1> QED BY <1>1, <1>2, <1>3, <1>4, <1>5, <1>6 DEF Next

\* Tables that are formed translate the kernel's pages alike.
LEMMA FormedAlike ==
  ASSUME Directories, TablesFormed
  PROVE  KernelAlike
<1>1. PICK owner, path : Formed(tables, m_pglv, owner, path) BY DEF TablesFormed
<1>2. KernelOwner \in Owners /\ KernelOwner \notin Procs BY OwnersDiffer DEF Owners
<1>3. ASSUME NEW root \in Roots, NEW v \in KernelPages
      PROVE  /\ Translate(root, v) = Translate(Kernel, v)
             /\ Translate(root, v) # NoEntry => ~ Translate(root, v).user
  <2> DEFINE e == Look(tables, owner, path, KernelOwner, v)
  <2>1. root \in LiveRoots(m_pglv) /\ Kernel \in LiveRoots(m_pglv) BY DEF Roots, LiveRoots, Exists
  <2>2. TranslateIn(tables, root, v) = e /\ TranslateIn(tables, Kernel, v) = e BY <1>1, <2>1, MapFacts
  <2>3. Translate(root, v) = e /\ Translate(Kernel, v) = e BY <2>2 DEF Translate, TranslateIn
  <2>4. v \in [1 .. Levels -> Indices] BY DEF Directories
  <2>5. e # NoEntry => e \in Leaves(KernelOwner) BY <1>1, <1>2, <2>4, LookIsLeaf
  <2>6. (KernelOwner \in Procs) = FALSE BY <1>2
  <2> HIDE DEF e
  <2>7. e # NoEntry => e.user = (KernelOwner \in Procs) BY <2>5, LeafFacts
  <2> QED BY <2>3, <2>6, <2>7
<1> QED BY <1>3 DEF KernelAlike

\* Every directory translates the kernel's pages alike, whatever is mapped, made or copied.
LEMMA TablesKeepAlike == Directories => (Spec => []KernelAlike)
<1> SUFFICES ASSUME Directories
             PROVE  Spec => []KernelAlike
  OBVIOUS
<1>1. Init => TablesFormed BY InitMaps
<1>2. TablesFormed /\ [Next]_vars => TablesFormed' BY StepMaps
<1>3. TablesFormed => KernelAlike BY FormedAlike
<1> QED BY <1>1, <1>2, <1>3, PTL DEF Spec

\* The tables implement the maps.
LEMMA TablesImplement == Directories => (Spec => IsSpaces)
<1> SUFFICES ASSUME Directories
             PROVE  Spec => IsSpaces
  OBVIOUS
<1>1. Init => TablesFormed /\ Spaces!Init BY InitMaps
<1>2. TablesFormed /\ [Next]_vars => TablesFormed' BY StepMaps
<1>3. TablesFormed /\ [Next]_vars => [Spaces!Next]_<<[p \in Procs |-> [v \in UserPages |-> Translate(m_pglv[p], v)]],
                                            [v \in KernelPages |-> Translate(Kernel, v)]>>
  BY StepMaps DEF Users, Kernels
<1> QED BY <1>1, <1>2, <1>3, PTL DEF Spec, IsSpaces, Spaces!Spec
=============================================================================
