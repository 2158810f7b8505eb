---------------------------- MODULE CowMemoryProofs ----------------------------
(***************************************************************************)
(* Copy on write keeps memory private, for any number of processes, pages  *)
(* and frames, as long as programs have the kernel store only where it     *)
(* resolves or where they may store themselves, and map no page that is    *)
(* shared (~AnyAddress), and until a CoWPage is used that was deleted in    *)
(* the place of another.                                                   *)
(***************************************************************************)
EXTENDS CowMemory, FiniteSetTheorems, TLAPS

TypeOK ==
  /\ born \subseteq Procs
  /\ table \in [Procs -> [Pages -> [frame : 0 .. MaxFrames, write : BOOLEAN]]]
  /\ cow \in [Procs -> [Pages -> 0 .. MaxObjects]]
  /\ used \subseteq Objects
  /\ refs \in [Objects -> Int]
  /\ skel \in [Objects -> 0 .. MaxFrames]
  /\ frames \in 0 .. MaxFrames
  /\ contents \in [Frames -> Values]
  /\ reading \in [Procs -> SUBSET Pages]
  /\ stale \subseteq Procs \X Pages /\ astray \in BOOLEAN

\* Who has not been born has nothing.
UnbornEmpty ==
  \A p \in Procs \ born :
    /\ table[p] = NoTable /\ cow[p] = NoCow /\ reading[p] = {}
    /\ \A v \in Pages : <<p, v>> \notin stale

\* Frames in use were given away; the others are cleared.
FramesGiven ==
  /\ \A p \in Procs : \A v \in Mapped(p) : table[p][v].frame < frames
  /\ \A f \in Frames : f >= frames => contents[f] = Zero

\* A page is writable unless it has a CoWPage, which knows its frame if it has not
\* been deleted.
CowPages ==
  \A p \in Procs : \A v \in Pages :
    IF cow[p][v] = NoObject
      THEN (v \in Mapped(p) => table[p][v].write) /\ <<p, v>> \notin stale
      ELSE /\ v \in Mapped(p) /\ ~table[p][v].write
           /\ \/ <<p, v>> \in stale
              \/ cow[p][v] \in used /\ skel[cow[p][v]] = table[p][v].frame

\* Two tables hold a frame with the same CoWPage, which is deleted under both or
\* under neither.
SameCow(p, q, v) ==
  /\ cow[p][v] = cow[q][v] /\ cow[p][v] # NoObject
  /\ <<p, v>> \in stale <=> <<q, v>> \in stale

\* A frame in two places is at the same page of two tables with the same CoWPage.
SharedByCow ==
  \A p, q \in Procs : \A v \in Mapped(p), w \in Mapped(q) :
    table[p][v].frame = table[q][w].frame => v = w /\ (p = q \/ SameCow(p, q, v))

Counted == \A c \in Objects : Holders(c) # {} => refs[c] >= Cardinality(Holders(c))

ReadsReady == ReadsWhereWritable /\ \A p \in Procs : reading[p] \subseteq Mapped(p)

Inv == /\ TypeOK /\ UnbornEmpty /\ FramesGiven /\ CowPages /\ SharedByCow
       /\ Counted /\ ReadsReady

-----------------------------------------------------------------------------
(* Facts used throughout *)

LEMMA Types ==
  ASSUME TypeOK
  PROVE  /\ \A p \in Procs, v \in Pages :
              /\ table[p][v] = Entry(table[p][v].frame, table[p][v].write)
              /\ table[p][v].frame \in 0 .. MaxFrames
              /\ table[p][v].write \in BOOLEAN
              /\ cow[p][v] \in 0 .. MaxObjects
         /\ \A p \in Procs : \A v \in Mapped(p) : v \in Pages /\ table[p][v].frame \in Frames
BY SizesAssumption DEF TypeOK, Entry, Mapped, Frames, NoFrame

\* Nobody else finds anything in a frame that a process may write to.
LEMMA WritableIsOwn ==
  ASSUME Inv, NEW p \in Procs, NEW q \in Procs, NEW v \in Mapped(p), NEW w \in Mapped(q),
         table[p][v].write, table[p][v].frame = table[q][w].frame
  PROVE  p = q /\ v = w
<1>1. v \in Pages /\ cow[p][v] = NoObject
  BY DEF Inv, CowPages, Mapped
<1> QED BY <1>1 DEF Inv, SharedByCow, SameCow

\* What relates tables and counts survives a step that changes neither.
LEMMA SameTables ==
  ASSUME Inv, UNCHANGED <<table, cow, used, refs, skel, stale>>
  PROVE  /\ CowPages' /\ SharedByCow' /\ Counted'
         /\ \A q \in Procs : Mapped(q)' = Mapped(q)
<1>1. \A q \in Procs : Mapped(q)' = Mapped(q)
  BY DEF Mapped
<1>2. CowPages'
  BY DEF Inv, CowPages, Mapped
<1>3. SharedByCow'
  BY DEF Inv, SharedByCow, SameCow, Mapped
<1>4. Counted'
  BY DEF Inv, Counted, Holders
<1> QED BY <1>1, <1>2, <1>3, <1>4

-----------------------------------------------------------------------------
(* Stores *)

LEMMA FillChangesOwnPages ==
  ASSUME Inv, NEW p \in Procs, NEW pages \in SUBSET Mapped(p), NEW x \in Values,
         \A v \in pages : table[p][v].write
  PROVE  \A q \in Procs : \A w \in Mapped(q) :
           Filled(p, pages, x)[table[q][w].frame] =
             IF q = p /\ w \in pages THEN x ELSE contents[table[q][w].frame]
<1> TAKE q \in Procs
<1> TAKE w \in Mapped(q)
<1>1. table[q][w].frame \in Frames
  BY Types DEF Inv
<1>2. (\E v \in pages : table[p][v].frame = table[q][w].frame) <=> q = p /\ w \in pages
  BY WritableIsOwn
<1> QED BY <1>1, <1>2 DEF Filled

\* The contents of frames in use change; nothing else does, or a read ends.
LEMMA FillKeepsInv ==
  ASSUME Inv, NEW p \in Procs, NEW pages \in SUBSET Mapped(p), NEW x \in Values,
         contents' = Filled(p, pages, x),
         UNCHANGED <<born, table, cow, used, refs, skel, frames, stale, astray>>,
         reading' = reading \/ reading' = [reading EXCEPT ![p] = {}]
  PROVE  Inv'
<1>1. contents' \in [Frames -> Values]
  BY DEF Inv, TypeOK, Filled
<1>2. reading' \in [Procs -> SUBSET Pages] /\ \A q \in Procs : reading'[q] \subseteq reading[q]
  BY DEF Inv, TypeOK
<1>3. \A f \in Frames : f >= frames => contents'[f] = contents[f]
  <2> SUFFICES ASSUME NEW f \in Frames, f >= frames PROVE contents'[f] = contents[f]
    OBVIOUS
  <2>1. \A v \in pages : table[p][v].frame # f
    BY Types, SizesAssumption DEF Inv, FramesGiven, TypeOK, Frames
  <2> QED BY <2>1 DEF Filled
<1>4. TypeOK' /\ UnbornEmpty'
  BY <1>1, <1>2 DEF Inv, TypeOK, UnbornEmpty
<1>5. FramesGiven'
  BY <1>3 DEF Inv, FramesGiven, Mapped
<1>6. CowPages' /\ SharedByCow' /\ Counted'
  BY SameTables
<1>7. ReadsReady'
  BY <1>2 DEF Inv, ReadsReady, ReadsWhereWritable, Mapped
<1> QED BY <1>4, <1>5, <1>6, <1>7 DEF Inv

-----------------------------------------------------------------------------
(* Memory *)

LEMMA SameTable ==
  ASSUME NEW A, NEW B, NEW f, NEW g,
         f = [a \in A |-> [b \in B |-> f[a][b]]], g = [a \in A |-> [b \in B |-> g[a][b]]],
         \A a \in A : \A b \in B : f[a][b] = g[a][b]
  PROVE  f = g
<1>1. \A a \in A : [b \in B |-> f[a][b]] = [b \in B |-> g[a][b]]
  OBVIOUS
<1> DEFINE F(a) == [b \in B |-> f[a][b]]
           G(a) == [b \in B |-> g[a][b]]
<1>2. [a \in A |-> F(a)] = [a \in A |-> G(a)]
  <2> HIDE DEF F, G
  <2>1. \A a \in A : F(a) = G(a)
    BY <1>1 DEF F, G
  <2> QED BY <2>1
<1> QED BY <1>2

LEMMA MemoryAt ==
  \A q \in Procs, w \in Pages :
    /\ Memory[q][w] = IF w \in Mapped(q) THEN contents[table[q][w].frame] ELSE Unmapped
    /\ Memory'[q][w] = IF w \in Mapped(q)' THEN contents'[table'[q][w].frame] ELSE Unmapped
BY DEF Memory, Mapped

LEMMA MemoryIs ==
  ASSUME NEW g, g = [q \in Procs |-> [w \in Pages |-> g[q][w]]],
         \A q \in Procs : \A w \in Pages : Memory'[q][w] = g[q][w]
  PROVE  Memory' = g
<1>1. Memory' = [q \in Procs |-> [w \in Pages |-> Memory'[q][w]]]
  BY DEF Memory
<1> QED BY <1>1, SameTable

LEMMA FillIsStore ==
  ASSUME Inv, NEW p \in Procs, NEW pages \in SUBSET Mapped(p), NEW x \in Values,
         \A v \in pages : table[p][v].write,
         contents' = Filled(p, pages, x), UNCHANGED <<born, table>>
  PROVE  Private!Store(p, pages, x)
<1>1. pages \subseteq Private!Mapped(p)
  BY Types, ValuesAssumption DEF Private!Mapped, Memory, Mapped, Inv, TypeOK
<1> DEFINE g == [Memory EXCEPT ![p] = Private!Stored(p, pages, x)]
<1>2. ASSUME NEW q \in Procs, NEW w \in Pages
      PROVE  g[q][w] = IF q = p /\ w \in pages THEN x ELSE Memory[q][w]
  BY DEF Private!Stored, Memory
<1>3. ASSUME NEW q \in Procs, NEW w \in Pages
      PROVE  Memory'[q][w] = g[q][w]
  <2> HIDE DEF g
  <2>1. Mapped(q)' = Mapped(q) /\ table'[q][w] = table[q][w]
    BY DEF Mapped
  <2>2. CASE w \in Mapped(q)
    BY <2>1, <2>2, <1>2, FillChangesOwnPages, MemoryAt
  <2>3. CASE w \notin Mapped(q)
    BY <2>1, <2>3, <1>2, MemoryAt
  <2> QED BY <2>2, <2>3
<1>4. g = [q \in Procs |-> [w \in Pages |-> g[q][w]]]
  BY DEF Memory, Private!Stored
<1>5. Memory' = g
  BY <1>3, <1>4, MemoryIs
<1> QED BY <1>1, <1>5 DEF Private!Store

-----------------------------------------------------------------------------
(* resolve_cow *)

\* Reads that may end a step: nobody's grows but for p's, into pages p may write to.
ReadsMayBe(p) ==
  /\ reading' \in [Procs -> SUBSET Pages]
  /\ \A q \in Procs : \/ reading'[q] = reading[q]
                      \/ q = p /\ \A w \in reading'[q] : w \in Mapped(p) /\ table'[p][w].write

\* What either way of resolve_cow does to the tables.
LEMMA ResolveTables ==
  ASSUME Inv, NEW p \in born, NEW v \in Pages, resolve_cow(p, v)
  PROVE  /\ table' \in [Procs -> [Pages -> [frame : 0 .. MaxFrames, write : BOOLEAN]]]
         /\ cow' \in [Procs -> [Pages -> 0 .. MaxObjects]]
         /\ \A q \in Procs : \A w \in Pages : q # p \/ w # v =>
              table'[q][w] = table[q][w] /\ cow'[q][w] = cow[q][w]
         /\ table'[p][v].write /\ cow'[p][v] = NoObject
         /\ v \in Mapped(p) /\ p \in Procs /\ ~table[p][v].write
         /\ cow[p][v] \in used
         /\ cow[p][v] \in Objects
         /\ skel[cow[p][v]] = table[p][v].frame
         /\ table[p][v].frame \in Frames
<1>1. p \in Procs /\ cow[p][v] # NoObject /\ <<p, v>> \notin stale
  BY DEF Inv, TypeOK, resolve_cow
<1>2. /\ v \in Mapped(p) /\ ~table[p][v].write
      /\ cow[p][v] \in used /\ skel[cow[p][v]] = table[p][v].frame
      /\ cow[p][v] \in Objects /\ table[p][v].frame \in Frames
  BY <1>1, Types DEF Inv, CowPages, TypeOK
<1>3. cow' = [cow EXCEPT ![p][v] = NoObject]
  BY DEF resolve_cow
<1>4. /\ cow' \in [Procs -> [Pages -> 0 .. MaxObjects]]
      /\ cow'[p][v] = NoObject
      /\ \A q \in Procs : \A w \in Pages : q # p \/ w # v => cow'[q][w] = cow[q][w]
  BY <1>1, <1>3, SizesAssumption DEF Inv, TypeOK, NoObject
<1>5. \E f \in 0 .. MaxFrames : table' = [table EXCEPT ![p][v] = Entry(f, TRUE)]
  <2>1. CASE LastHolder(cow[p][v])
    BY <1>1, <2>1, Types DEF resolve_cow, TakeOver, Inv
  <2>2. CASE ~LastHolder(cow[p][v])
    BY <1>1, <2>2 DEF resolve_cow, CopyPage, Inv, TypeOK
  <2> QED BY <2>1, <2>2
<1>6. PICK f \in 0 .. MaxFrames : table' = [table EXCEPT ![p][v] = Entry(f, TRUE)]
  BY <1>5
<1>7. /\ table' \in [Procs -> [Pages -> [frame : 0 .. MaxFrames, write : BOOLEAN]]]
      /\ table'[p][v].write
      /\ \A q \in Procs : \A w \in Pages : q # p \/ w # v => table'[q][w] = table[q][w]
  BY <1>1, <1>6 DEF Inv, TypeOK, Entry
<1> QED BY <1>1, <1>2, <1>4, <1>7

\* Who becomes stale held what was deleted; p's page is not among them.
LEMMA ResolveStale ==
  ASSUME Inv, NEW p \in born, NEW v \in Pages, resolve_cow(p, v)
  PROVE  /\ <<p, v>> \notin stale' /\ stale \subseteq stale' /\ stale' \subseteq Procs \X Pages
         /\ \/ stale' = stale
            \/ \E d \in Objects :
                 /\ d # cow[p][v] /\ used' = used \ {d}
                 /\ \A q \in Procs, w \in Pages :
                      <<q, w>> \in stale' <=> <<q, w>> \in stale \/ cow[q][w] = d
<1>1. /\ <<p, v>> \notin stale /\ stale \subseteq Procs \X Pages
      /\ p \in Procs /\ cow \in [Procs -> [Pages -> 0 .. MaxObjects]] /\ MaxObjects \in Nat
  BY SizesAssumption DEF resolve_cow, Inv, TypeOK
<1>2. CASE ~LastHolder(cow[p][v])
  BY <1>1, <1>2 DEF resolve_cow, CopyPage
<1>3. CASE LastHolder(cow[p][v])
  <2>1. PICK d \in Deletable(p, v) : /\ used' = used \ {d}
                                     /\ stale' = stale \cup OtherHolders(p, v, d)
    BY <1>3 DEF resolve_cow, TakeOver
  <2>2. d \in 0 .. MaxObjects
    <3>1. \A w \in Pages : cow[p][w] \in 0 .. MaxObjects
      BY <1>1
    <3>2. d = 0 \/ \E w \in Pages : d = cow[p][w]
      BY DEF Deletable, NoObject
    <3> QED BY <1>1, <3>1, <3>2
  <2>3. CASE d \in {cow[p][v], NoObject}
    <3>1. stale' = stale
      BY <2>1, <2>3 DEF OtherHolders
    <3> QED BY <1>1, <3>1
  <2>4. CASE d \notin {cow[p][v], NoObject}
    <3>1. d \in Objects /\ d # cow[p][v]
      BY <1>1, <2>2, <2>4 DEF Objects, NoObject
    <3>2. stale' = stale \cup {e \in Procs \X Pages : cow[e[1]][e[2]] = d}
      BY <2>1, <2>4 DEF OtherHolders
    <3>3. \A q \in Procs, w \in Pages :
            <<q, w>> \in stale' <=> <<q, w>> \in stale \/ cow[q][w] = d
      BY <3>2
    <3>4. stale \subseteq stale' /\ stale' \subseteq Procs \X Pages
      BY <1>1, <3>2
    <3>5. <<p, v>> \notin stale'
      BY <1>1, <3>1, <3>3
    <3> QED BY <2>1, <3>1, <3>3, <3>4, <3>5
  <2> QED BY <2>3, <2>4
<1> QED BY <1>2, <1>3

LEMMA StaleHeld ==
  ASSUME Inv, NEW p \in born, NEW v \in Pages, resolve_cow(p, v),
         NEW q \in Procs, NEW w \in Pages, <<q, w>> \in stale', <<q, w>> \notin stale
  PROVE  cow[q][w] # NoObject
<1>1. stale' # stale
  OBVIOUS
<1>2. PICK d \in Objects : \A r \in Procs, u \in Pages :
        <<r, u>> \in stale' <=> <<r, u>> \in stale \/ cow[r][u] = d
  BY <1>1, ResolveStale
<1>3. cow[q][w] = d
  BY <1>2
<1> QED BY <1>3 DEF Objects, NoObject

\* The CoWPage given up loses a holder, and no other gets one.
LEMMA ResolveHolders ==
  ASSUME Inv, NEW p \in born, NEW v \in Pages, resolve_cow(p, v)
  PROVE  \A c \in Objects :
           Holders(c)' \subseteq IF c = cow[p][v] THEN Holders(c) \ {p} ELSE Holders(c)
<1> TAKE c \in Objects
<1>1. c = cow[p][v] => \A w \in Pages : cow[p][w] = c /\ <<p, w>> \notin stale => w = v
  <2> SUFFICES ASSUME c = cow[p][v], NEW w \in Pages, cow[p][w] = c, <<p, w>> \notin stale
               PROVE  w = v
    OBVIOUS
  <2>1. cow[p][v] # NoObject /\ cow[p][w] # NoObject /\ p \in Procs /\ <<p, v>> \notin stale
    <3>1. cow[p][v] \in Objects /\ p \in Procs
      BY ResolveTables
    <3>2. <<p, v>> \notin stale
      BY DEF resolve_cow
    <3> QED BY <3>1, <3>2 DEF Objects, NoObject
  <2>2. v \in Mapped(p) /\ w \in Mapped(p) /\ table[p][v].frame = table[p][w].frame
    BY <2>1 DEF Inv, CowPages
  <2> QED BY <2>1, <2>2 DEF Inv, SharedByCow
<1>2. c # NoObject
  BY DEF Objects, NoObject
<1>3. /\ p \in Procs /\ cow'[p][v] = NoObject /\ stale \subseteq stale'
      /\ \A q \in Procs : \A w \in Pages : q # p \/ w # v => cow'[q][w] = cow[q][w]
  <2>1. stale \subseteq stale'
    BY ResolveStale
  <2> QED BY <2>1, ResolveTables
<1>4. ASSUME NEW q \in Procs, NEW w \in Pages, cow'[q][w] = c, <<q, w>> \notin stale'
      PROVE  q \in Holders(c) /\ (c = cow[p][v] => q # p)
  <2>1. cow[q][w] = c /\ <<q, w>> \notin stale /\ ~(q = p /\ w = v)
    BY <1>2, <1>3, <1>4
  <2> QED BY <1>1, <2>1 DEF Holders
<1> QED BY <1>4 DEF Holders

\* What it does to frames and counts.
LEMMA ResolveFrames ==
  ASSUME Inv, NEW p \in born, NEW v \in Pages, resolve_cow(p, v)
  PROVE  /\ born' = born /\ skel' = skel /\ astray' = astray
         /\ \/ /\ table'[p][v].frame = table[p][v].frame
               /\ frames' = frames /\ contents' = contents
               /\ refs[cow[p][v]] = 1
               /\ \E d \in Deletable(p, v) : /\ used' = used \ {d}
                                            /\ stale' = stale \cup OtherHolders(p, v, d)
               /\ refs' = [refs EXCEPT ![cow[p][v]] = 0]
            \/ /\ table'[p][v].frame = frames /\ frames \in Frames
               /\ frames' = frames + 1
               /\ contents' = [contents EXCEPT ![frames] = contents[table[p][v].frame]]
               /\ used' = used /\ stale' = stale
               /\ refs' = [refs EXCEPT ![cow[p][v]] = refs[cow[p][v]] - 1]
<1>1. p \in Procs /\ skel[cow[p][v]] = table[p][v].frame /\ cow[p][v] \in Objects
  BY ResolveTables
<1>2. CASE LastHolder(cow[p][v])
  BY <1>1, <1>2, SizesAssumption DEF resolve_cow, TakeOver, Inv, TypeOK, Entry, LastHolder
<1>3. CASE ~LastHolder(cow[p][v])
  <2>1. CopyPage(p, v)
    BY <1>3 DEF resolve_cow
  <2>2. frames \in Frames
    BY <2>1, SizesAssumption DEF CopyPage, Inv, TypeOK, Frames
  <2> QED BY <1>1, <2>1, <2>2 DEF resolve_cow, CopyPage, Inv, TypeOK, Entry
<1> QED BY <1>2, <1>3

LEMMA HoldersFinite ==
  ASSUME NEW c \in Objects
  PROVE  IsFiniteSet(Holders(c)) /\ Cardinality(Holders(c)) \in Nat
BY ProcsAssumption, FS_Subset, FS_CardinalityType DEF Holders

\* A count of 1 says it only to the last holder.
LEMMA LastIsLast ==
  ASSUME Inv, NEW c \in Objects, refs[c] = 1, NEW p \in Holders(c), NEW q \in Holders(c)
  PROVE  p = q
<1> SUFFICES ASSUME p # q PROVE FALSE
  OBVIOUS
<1>1. Cardinality(Holders(c)) <= 1
  BY DEF Inv, Counted
<1>2. Cardinality(Holders(c) \ {p}) = Cardinality(Holders(c)) - 1
  BY HoldersFinite, FS_RemoveElement
<1>3. IsFiniteSet(Holders(c) \ {p}) /\ Cardinality(Holders(c) \ {p}) \in Nat
  BY HoldersFinite, FS_Subset, FS_CardinalityType
<1>4. Holders(c) \ {p} = {}
  BY <1>1, <1>2, <1>3, HoldersFinite, FS_EmptySet
<1> QED BY <1>4

\* Nobody else is in the frame that the page ends up in.
LEMMA ResolvedIsOwn ==
  ASSUME Inv, NEW p \in born, NEW v \in Pages, resolve_cow(p, v),
         NEW q \in Procs, NEW w \in Mapped(q), q # p \/ w # v
  PROVE  table[q][w].frame # table'[p][v].frame
<1> DEFINE c == cow[p][v]
<1>1. /\ v \in Mapped(p) /\ p \in Procs /\ c \in Objects /\ w \in Pages /\ <<p, v>> \notin stale
  BY ResolveTables DEF Mapped, resolve_cow
<1>2. ASSUME refs[c] = 1, table[q][w].frame = table[p][v].frame PROVE FALSE
  <2>1. w = v /\ q # p /\ SameCow(p, q, v)
    BY <1>1, <1>2 DEF Inv, SharedByCow
  <2>2. p \in Holders(c) /\ q \in Holders(c)
    BY <1>1, <2>1 DEF Holders, SameCow
  <2> QED BY <1>1, <1>2, <2>1, <2>2, LastIsLast
<1>3. table[q][w].frame < frames
  BY DEF Inv, FramesGiven
<1> HIDE DEF c
<1>4. CASE table'[p][v].frame = table[p][v].frame /\ refs[c] = 1
  BY <1>2, <1>4
<1>5. CASE table'[p][v].frame = frames
  BY <1>3, <1>5, Types DEF Inv, TypeOK, Frames
<1> QED BY <1>4, <1>5, ResolveFrames DEF c

\* Who is not stale keeps its CoWPage.
LEMMA ResolveKeepsUsed ==
  ASSUME Inv, NEW p \in born, NEW v \in Pages, resolve_cow(p, v),
         NEW q \in Procs, NEW w \in Pages, q # p \/ w # v,
         cow[q][w] # NoObject, <<q, w>> \notin stale'
  PROVE  cow[q][w] \in used' /\ <<q, w>> \notin stale
<1> DEFINE c == cow[p][v]
<1>1. /\ v \in Mapped(p) /\ p \in Procs /\ c \in Objects /\ c # NoObject
      /\ <<p, v>> \notin stale /\ skel[c] = table[p][v].frame
  BY ResolveTables DEF Objects, NoObject, resolve_cow
<1>2. <<q, w>> \notin stale
  BY ResolveStale
<1>3. cow[q][w] \in used /\ w \in Mapped(q) /\ skel[cow[q][w]] = table[q][w].frame
  BY <1>2 DEF Inv, CowPages
<1>4. refs[c] = 1 => cow[q][w] # c
  <2> SUFFICES ASSUME refs[c] = 1, cow[q][w] = c PROVE FALSE
    OBVIOUS
  <2>1. p \in Holders(c) /\ q \in Holders(c)
    BY <1>1, <1>2 DEF Holders
  <2>2. p = q
    BY <1>1, <2>1, LastIsLast
  <2>3. table[p][v].frame = table[q][w].frame
    BY <1>1, <1>3
  <2> QED BY <1>1, <1>3, <2>2, <2>3 DEF Inv, SharedByCow
<1>5. CASE used' = used
  BY <1>2, <1>3, <1>5
<1>6. ASSUME refs[c] = 1, NEW d \in Deletable(p, v),
             used' = used \ {d}, stale' = stale \cup OtherHolders(p, v, d)
      PROVE  cow[q][w] # d
  <2>1. CASE d \in {c, NoObject}
    BY <1>4, <1>6, <2>1
  <2>2. CASE d \notin {c, NoObject}
    <3>1. OtherHolders(p, v, d) = {e \in Procs \X Pages : cow[e[1]][e[2]] = d}
      BY <2>2 DEF OtherHolders
    <3>2. <<q, w>> \notin {e \in Procs \X Pages : cow[e[1]][e[2]] = d}
      BY <1>6, <3>1
    <3> QED BY <3>2
  <2> QED BY <2>1, <2>2
<1> QED BY <1>2, <1>3, <1>5, <1>6, ResolveFrames DEF c

LEMMA ResolveCounts ==
  ASSUME Inv, NEW p \in born, NEW v \in Pages, resolve_cow(p, v)
  PROVE  Counted' /\ refs' \in [Objects -> Int] /\ used' \in SUBSET Objects
<1> DEFINE c == cow[p][v]
<1>1. /\ p \in Procs /\ c \in Objects /\ refs \in [Objects -> Int] /\ used \in SUBSET Objects
      /\ <<p, v>> \notin stale
  BY ResolveTables DEF Inv, TypeOK, resolve_cow
<1>2. p \in Holders(c)
  BY <1>1 DEF Holders
<1>3. refs[c] >= Cardinality(Holders(c))
  BY <1>1, <1>2 DEF Inv, Counted
<1> HIDE DEF c
<1>4. /\ refs' \in [Objects -> Int] /\ used' \in SUBSET Objects
      /\ \A d \in Objects : d # c => refs'[d] = refs[d]
      /\ refs'[c] = refs[c] - 1
  BY <1>1, ResolveFrames DEF c
<1>5. \A d \in Objects : Holders(d)' \subseteq IF d = c THEN Holders(d) \ {p} ELSE Holders(d)
  BY ResolveHolders DEF c
<1>6. /\ Cardinality(Holders(c) \ {p}) = Cardinality(Holders(c)) - 1
      /\ IsFiniteSet(Holders(c) \ {p})
  BY <1>1, <1>2, HoldersFinite, FS_RemoveElement, FS_Subset
<1>7. Cardinality(Holders(c)) \in Nat
  BY <1>1, HoldersFinite
<1>8. ASSUME NEW d \in Objects, Holders(d)' # {}
      PROVE  refs'[d] >= Cardinality(Holders(d)')
  <2>1. CASE d = c
    <3>1. Holders(d)' \subseteq Holders(c) \ {p}
      BY <2>1, <1>5
    <3>2. /\ Cardinality(Holders(d)') <= Cardinality(Holders(c)) - 1
          /\ Cardinality(Holders(d)') \in Nat
      BY <3>1, <1>6, FS_Subset, FS_CardinalityType
    <3>3. refs'[d] = refs[c] - 1 /\ refs[c] \in Int
      BY <2>1, <1>1, <1>4
    <3> QED BY <3>2, <3>3, <1>3, <1>7
  <2>2. CASE d # c
    <3>1. Holders(d)' \subseteq Holders(d)
      BY <2>2, <1>5
    <3>2. /\ Cardinality(Holders(d)') <= Cardinality(Holders(d))
          /\ Cardinality(Holders(d)') \in Nat /\ Cardinality(Holders(d)) \in Nat
      BY <3>1, HoldersFinite, FS_Subset, FS_CardinalityType
    <3>3. refs'[d] = refs[d] /\ refs[d] \in Int /\ refs[d] >= Cardinality(Holders(d))
      BY <2>2, <3>1, <1>1, <1>4, <1>8 DEF Inv, Counted
    <3> QED BY <3>2, <3>3
  <2> QED BY <2>1, <2>2
<1> QED BY <1>4, <1>8 DEF Counted, Holders

LEMMA ResolveKeepsInv ==
  ASSUME Inv, NEW p \in born, NEW v \in Pages, resolve_cow(p, v), ReadsMayBe(p)
  PROVE  Inv'
<1>1. /\ p \in Procs /\ v \in Mapped(p) /\ cow'[p][v] = NoObject /\ table'[p][v].write
      /\ \A q \in Procs : \A w \in Pages : q # p \/ w # v =>
           table'[q][w] = table[q][w] /\ cow'[q][w] = cow[q][w]
  BY ResolveTables
<1>2. /\ born' = born /\ skel' = skel /\ frames' \in 0 .. MaxFrames
      /\ contents' \in [Frames -> Values]
      /\ frames' >= frames
      /\ table'[p][v].frame \in Frames /\ table'[p][v].frame < frames'
      /\ \A f \in Frames : f >= frames' => contents'[f] = Zero
  <2>1. /\ table[p][v].frame \in Frames /\ table[p][v].frame < frames
        /\ \A f \in Frames : f >= frames => contents[f] = Zero
        /\ frames \in 0 .. MaxFrames /\ contents \in [Frames -> Values] /\ MaxFrames \in Nat
    BY <1>1, Types, SizesAssumption DEF Inv, FramesGiven, TypeOK
  <2>2. CASE table'[p][v].frame = table[p][v].frame /\ frames' = frames /\ contents' = contents
    BY <2>1, <2>2, ResolveFrames
  <2>3. CASE /\ table'[p][v].frame = frames /\ frames \in Frames /\ frames' = frames + 1
             /\ contents' = [contents EXCEPT ![frames] = contents[table[p][v].frame]]
    BY <2>1, <2>3, ResolveFrames DEF Frames
  <2> QED BY <2>2, <2>3, ResolveFrames
<1>3. \A q \in Procs : Mapped(q)' = Mapped(q)
  BY <1>1, <1>2, SizesAssumption DEF Mapped, Frames, NoFrame
<1>4. TypeOK'
  BY <1>2, ResolveTables, ResolveCounts, ResolveStale, ResolveFrames DEF Inv, TypeOK, ReadsMayBe
<1>5. UnbornEmpty'
  <2> SUFFICES ASSUME NEW q \in Procs \ born
               PROVE  /\ table'[q] = NoTable /\ cow'[q] = NoCow /\ reading'[q] = {}
                      /\ \A w \in Pages : <<q, w>> \notin stale'
    BY <1>2 DEF UnbornEmpty
  <2>1. q # p
    OBVIOUS
  <2>2. table' = [table EXCEPT ![p] = table'[p]] /\ cow' = [cow EXCEPT ![p] = cow'[p]]
    BY DEF resolve_cow, TakeOver, CopyPage, Inv, TypeOK
  <2>3. \A w \in Pages : <<q, w>> \notin stale /\ cow[q][w] = NoObject
    BY DEF Inv, UnbornEmpty, NoCow
  <2>4. \A w \in Pages : <<q, w>> \notin stale'
    BY <2>3, StaleHeld
  <2> QED BY <2>1, <2>2, <2>4 DEF Inv, TypeOK, UnbornEmpty, ReadsMayBe
<1>6. FramesGiven'
  <2> SUFFICES ASSUME NEW q \in Procs, NEW w \in Mapped(q)
               PROVE  table'[q][w].frame < frames'
    BY <1>2, <1>3 DEF FramesGiven
  <2>1. CASE q = p /\ w = v
    BY <1>2, <2>1
  <2>2. CASE q # p \/ w # v
    BY <1>1, <1>2, <2>2, Types, SizesAssumption
       DEF Inv, FramesGiven, TypeOK, Mapped, Frames
  <2> QED BY <2>1, <2>2
<1>7. CowPages'
  <2> SUFFICES ASSUME NEW q \in Procs, NEW w \in Pages
               PROVE  IF cow'[q][w] = NoObject
                        THEN (w \in Mapped(q)' => table'[q][w].write) /\ <<q, w>> \notin stale'
                        ELSE /\ w \in Mapped(q)' /\ ~table'[q][w].write
                             /\ \/ <<q, w>> \in stale'
                                \/ /\ cow'[q][w] \in used'
                                   /\ skel'[cow'[q][w]] = table'[q][w].frame
    BY DEF CowPages
  <2>1. CASE q = p /\ w = v
    BY <1>1, <2>1, ResolveStale
  <2>2. CASE q # p \/ w # v
    <3>1. table'[q][w] = table[q][w] /\ cow'[q][w] = cow[q][w] /\ Mapped(q)' = Mapped(q)
      BY <1>1, <1>3, <2>2
    <3>2. CASE cow[q][w] = NoObject
      <4>1. <<q, w>> \notin stale'
        <5>1. <<q, w>> \notin stale
          BY <3>2 DEF Inv, CowPages
        <5> QED BY <3>2, <5>1, StaleHeld
      <4> QED BY <3>1, <3>2, <4>1 DEF Inv, CowPages
    <3>3. CASE cow[q][w] # NoObject
      <4>1. <<q, w>> \notin stale' => cow[q][w] \in used' /\ <<q, w>> \notin stale
        BY <2>2, <3>3, ResolveKeepsUsed
      <4> QED BY <1>2, <3>1, <3>3, <4>1 DEF Inv, CowPages
    <3> QED BY <3>2, <3>3
  <2> QED BY <2>1, <2>2
<1>8. SharedByCow'
  <2> SUFFICES ASSUME NEW q \in Procs, NEW r \in Procs,
                      NEW w \in Mapped(q), NEW u \in Mapped(r),
                      table'[q][w].frame = table'[r][u].frame
               PROVE  w = u /\ (q = r \/ SameCow(q, r, w)')
    BY <1>3 DEF SharedByCow
  <2>1. w \in Pages /\ u \in Pages
    BY DEF Mapped
  <2>2. CASE q = p /\ w = v
    BY <1>1, <2>1, <2>2, ResolvedIsOwn
  <2>3. CASE r = p /\ u = v
    BY <1>1, <2>1, <2>3, ResolvedIsOwn
  <2>4. CASE (q # p \/ w # v) /\ (r # p \/ u # v)
    <3>1. w = u /\ (q = r \/ SameCow(q, r, w))
      BY <1>1, <2>1, <2>4 DEF Inv, SharedByCow
    <3>2. cow'[q][w] = cow[q][w] /\ cow'[r][u] = cow[r][u]
      BY <1>1, <2>1, <2>4
    <3>3. cow[q][w] = cow[r][w] /\ (<<q, w>> \in stale <=> <<r, w>> \in stale) =>
            (<<q, w>> \in stale' <=> <<r, w>> \in stale')
      BY <2>1, ResolveStale
    <3> QED BY <3>1, <3>2, <3>3 DEF SameCow
  <2> QED BY <2>2, <2>3, <2>4
<1>9. ReadsReady'
  <2> SUFFICES ASSUME NEW q \in Procs, NEW w \in reading'[q]
               PROVE  table'[q][w].write /\ w \in Mapped(q)'
    BY DEF ReadsReady, ReadsWhereWritable
  <2>1. CASE w \in reading[q]
    BY <1>1, <1>3, <2>1 DEF Inv, ReadsReady, ReadsWhereWritable, Mapped
  <2>2. CASE q = p /\ w \in Mapped(p) /\ table'[p][w].write
    BY <1>3, <2>2
  <2> QED BY <2>1, <2>2 DEF ReadsMayBe
<1> QED BY <1>4, <1>5, <1>6, <1>7, <1>8, <1>9, ResolveCounts DEF Inv

\* The page keeps its contents.
LEMMA ResolveKeepsMemory ==
  ASSUME Inv, NEW p \in born, NEW v \in Pages, resolve_cow(p, v)
  PROVE  Memory' = Memory /\ born' = born
<1>1. Memory = [q \in Procs |-> [w \in Pages |-> Memory[q][w]]]
  BY DEF Memory
<1>2. ASSUME NEW q \in Procs, NEW w \in Pages
      PROVE  Memory'[q][w] = Memory[q][w]
  <2>1. /\ p \in Procs /\ v \in Mapped(p)
        /\ q # p \/ w # v => table'[q][w] = table[q][w]
    BY ResolveTables
  <2>2. CASE table'[p][v].frame = table[p][v].frame /\ contents' = contents
    <3>1. table'[q][w].frame = table[q][w].frame
      BY <2>1, <2>2
    <3> QED BY <2>2, <3>1, MemoryAt DEF Mapped
  <2>3. CASE /\ table'[p][v].frame = frames /\ frames \in Frames
             /\ contents' = [contents EXCEPT ![frames] = contents[table[p][v].frame]]
    <3>1. contents'[frames] = contents[table[p][v].frame] /\ frames # NoFrame
      BY <2>3, SizesAssumption DEF Inv, TypeOK, Frames, NoFrame
    <3>2. CASE q = p /\ w = v
      BY <2>1, <2>3, <3>1, <3>2, MemoryAt DEF Mapped
    <3>3. CASE (q # p \/ w # v) /\ w \in Mapped(q)
      <4>1. table[q][w].frame # frames /\ table[q][w].frame \in Frames
        BY <2>3, <3>3, ResolvedIsOwn, Types DEF Inv
      <4>2. contents'[table[q][w].frame] = contents[table[q][w].frame]
        BY <2>3, <4>1 DEF Inv, TypeOK
      <4> QED BY <2>1, <3>3, <4>2, MemoryAt DEF Mapped
    <3>4. CASE (q # p \/ w # v) /\ w \notin Mapped(q)
      BY <2>1, <3>4, MemoryAt DEF Mapped
    <3> QED BY <3>2, <3>3, <3>4
  <2> QED BY <2>2, <2>3, ResolveFrames
<1> QED BY <1>1, <1>2, MemoryIs, ResolveFrames

-----------------------------------------------------------------------------
(* Fresh pages: mmap, exec and spawn *)

\* Page v of p gets a frame nobody has had.
Fresh(p, v) ==
  /\ cow'[p][v] = NoObject /\ table'[p][v].write
  /\ table'[p][v].frame \in frames .. frames' - 1

\* Pages of p are no longer stale when they have no CoWPage any more.
StaleLeaves(p) ==
  /\ stale' \subseteq stale
  /\ \A q \in Procs, v \in Pages :
       <<q, v>> \in stale /\ <<q, v>> \notin stale' => q = p /\ cow'[q][v] = NoObject
  /\ \A v \in Pages : cow'[p][v] = NoObject => <<p, v>> \notin stale'

\* A process keeps its pages, gives them up or gets fresh ones.
OnlyFresh(p) ==
  /\ \A q \in Procs \ {p} : table'[q] = table[q] /\ cow'[q] = cow[q]
  /\ \A v \in Pages :
       \/ table'[p][v] = table[p][v] /\ cow'[p][v] = cow[p][v]
       \/ table'[p][v] = NoEntry /\ cow'[p][v] = NoObject
       \/ Fresh(p, v)
  /\ \A v, w \in Pages :
       Fresh(p, v) /\ Fresh(p, w) /\ table'[p][v].frame = table'[p][w].frame => v = w
  /\ \A f \in Frames : f >= frames => contents'[f] = Zero
  /\ frames' \in frames .. MaxFrames
  /\ reading[p] = {}
  /\ StaleLeaves(p)
  /\ UNCHANGED <<used, refs, skel, reading>>

LEMMA FreshKeepsInv ==
  ASSUME Inv, NEW p \in Procs, OnlyFresh(p), TypeOK', UnbornEmpty'
  PROVE  Inv'
<1>1. frames \in Nat /\ frames' \in Nat /\ MaxFrames \in Nat /\ frames' <= MaxFrames
  BY SizesAssumption DEF Inv, TypeOK, OnlyFresh
<1>2. \A q \in Procs, w \in Pages :
        table[q][w].frame \in 0 .. MaxFrames /\ table'[q][w].frame \in 0 .. MaxFrames
  BY DEF Inv, TypeOK
<1>3. ASSUME NEW q \in Procs, NEW w \in Mapped(q)'
      PROVE  /\ w \in Pages
             /\ \/ w \in Mapped(q) /\ table'[q][w] = table[q][w] /\ cow'[q][w] = cow[q][w]
                \/ q = p /\ Fresh(p, w)
  BY DEF OnlyFresh, Mapped, NoEntry, Entry
<1>4. ASSUME NEW q \in Procs, NEW w \in Pages, cow'[q][w] # NoObject
      PROVE  /\ table'[q][w] = table[q][w] /\ cow'[q][w] = cow[q][w]
             /\ <<q, w>> \in stale' <=> <<q, w>> \in stale
  <2>1. table'[q][w] = table[q][w] /\ cow'[q][w] = cow[q][w]
    BY <1>4 DEF OnlyFresh, Fresh
  <2>2. <<q, w>> \in stale' <=> <<q, w>> \in stale
    BY <1>4 DEF OnlyFresh, StaleLeaves
  <2> QED BY <2>1, <2>2
<1>5. FramesGiven'
  <2>1. ASSUME NEW q \in Procs, NEW w \in Mapped(q)'
        PROVE  table'[q][w].frame < frames'
    <3>1. CASE w \in Mapped(q) /\ table'[q][w] = table[q][w]
      BY <1>1, <1>2, <1>3, <3>1 DEF Inv, FramesGiven, OnlyFresh
    <3>2. CASE q = p /\ Fresh(p, w)
      BY <1>1, <3>2 DEF Fresh
    <3> QED BY <1>3, <3>1, <3>2
  <2>2. \A f \in Frames : f >= frames' => contents'[f] = Zero
    BY <1>1 DEF OnlyFresh, Frames
  <2> QED BY <2>1, <2>2 DEF FramesGiven
<1>6. CowPages'
  <2> SUFFICES ASSUME NEW q \in Procs, NEW w \in Pages
               PROVE  IF cow'[q][w] = NoObject
                        THEN (w \in Mapped(q)' => table'[q][w].write) /\ <<q, w>> \notin stale'
                        ELSE /\ w \in Mapped(q)' /\ ~table'[q][w].write
                             /\ \/ <<q, w>> \in stale'
                                \/ /\ cow'[q][w] \in used'
                                   /\ skel'[cow'[q][w]] = table'[q][w].frame
    BY DEF CowPages
  <2>1. CASE cow'[q][w] = NoObject
    <3>1. w \in Mapped(q)' => table'[q][w].write
      <4>1. w \in Mapped(q) /\ cow[q][w] = NoObject => table[q][w].write
        BY DEF Inv, CowPages
      <4> QED BY <1>3, <2>1, <4>1 DEF Fresh
    <3>2. CASE q = p
      BY <2>1, <3>1, <3>2 DEF OnlyFresh, StaleLeaves
    <3>3. CASE q # p
      <4>1. cow[q][w] = NoObject
        BY <2>1, <3>3 DEF OnlyFresh
      <4>2. <<q, w>> \notin stale'
        BY <4>1 DEF Inv, CowPages, OnlyFresh, StaleLeaves
      <4> QED BY <2>1, <3>1, <4>2
    <3> QED BY <3>2, <3>3
  <2>2. CASE cow'[q][w] # NoObject
    BY <1>4, <2>2 DEF Inv, CowPages, OnlyFresh, Mapped
  <2> QED BY <2>1, <2>2
<1>7. SharedByCow'
  <2> SUFFICES ASSUME NEW q \in Procs, NEW r \in Procs,
                      NEW w \in Mapped(q)', NEW u \in Mapped(r)',
                      table'[q][w].frame = table'[r][u].frame
               PROVE  w = u /\ (q = r \/ SameCow(q, r, w)')
    BY DEF SharedByCow
  <2>1. ASSUME NEW t \in Procs, NEW z \in Mapped(t), table'[t][z] = table[t][z],
               NEW y \in Pages, Fresh(p, y)
        PROVE  table'[t][z].frame # table'[p][y].frame
    BY <1>1, <1>2, <2>1 DEF Inv, FramesGiven, Fresh, Mapped
  <2>2. CASE q = p /\ Fresh(p, w)
    BY <1>3, <2>1, <2>2 DEF OnlyFresh
  <2>3. CASE r = p /\ Fresh(p, u)
    BY <1>3, <2>1, <2>3 DEF OnlyFresh
  <2>4. CASE ~(q = p /\ Fresh(p, w)) /\ ~(r = p /\ Fresh(p, u))
    <3>1. /\ w \in Pages /\ cow'[q][w] = cow[q][w] /\ cow'[r][u] = cow[r][u]
          /\ w = u /\ (q = r \/ SameCow(q, r, w))
      BY <1>3, <2>4 DEF Inv, SharedByCow
    <3>2. CASE q # r
      <4>1. /\ cow'[q][w] # NoObject /\ cow'[r][w] # NoObject /\ cow'[q][w] = cow'[r][w]
            /\ <<q, w>> \in stale <=> <<r, w>> \in stale
        BY <3>1, <3>2 DEF SameCow
      <4> QED BY <1>4, <3>1, <4>1 DEF SameCow
    <3> QED BY <3>1, <3>2
  <2> QED BY <2>2, <2>3, <2>4
<1>8. Counted'
  <2> SUFFICES ASSUME NEW c \in Objects, Holders(c)' # {}
               PROVE  refs'[c] >= Cardinality(Holders(c)')
    BY DEF Counted
  <2>1. Holders(c)' \subseteq Holders(c)
    <3>1. c # NoObject
      BY DEF Objects, NoObject
    <3> QED BY <1>4, <3>1 DEF Holders
  <2>2. Cardinality(Holders(c)') <= Cardinality(Holders(c)) /\ Cardinality(Holders(c)') \in Nat
    BY <2>1, HoldersFinite, FS_Subset, FS_CardinalityType
  <2>3. refs[c] >= Cardinality(Holders(c)) /\ refs[c] \in Int /\ refs'[c] = refs[c]
    BY <2>1 DEF Inv, Counted, TypeOK, OnlyFresh
  <2> QED BY <2>2, <2>3, HoldersFinite
<1>9. ReadsReady'
  <2> SUFFICES ASSUME NEW q \in Procs, NEW w \in reading[q]
               PROVE  table'[q][w].write /\ w \in Mapped(q)'
    BY DEF ReadsReady, ReadsWhereWritable, OnlyFresh
  <2>1. q # p /\ table'[q] = table[q]
    BY DEF OnlyFresh
  <2> QED BY <2>1 DEF Inv, ReadsReady, ReadsWhereWritable, Mapped
<1> QED BY <1>5, <1>6, <1>7, <1>8, <1>9 DEF Inv

LEMMA ProgramTableIs ==
  ASSUME NEW base \in Nat, base + ImageSize <= MaxFrames
  PROVE  /\ ProgramTable(base) \in [Pages -> [frame : 0 .. MaxFrames, write : BOOLEAN]]
         /\ \A v \in Pages : ProgramTable(base)[v] =
              IF v \in Image THEN Entry(base + v, TRUE) ELSE NoEntry
         /\ \A v \in Image : v \in Pages /\ v \in Nat /\ v < ImageSize
BY PagesAssumption, SizesAssumption
   DEF ProgramTable, NoEntry, NoFrame, Entry, Pages, Image

\* exec gives its caller, and spawn a new process, the table of a fresh program.
GetsProgram(p) ==
  /\ frames + ImageSize <= MaxFrames
  /\ frames' = frames + ImageSize
  /\ table' = [table EXCEPT ![p] = ProgramTable(frames)]
  /\ cow' = [cow EXCEPT ![p] = NoCow]
  /\ \A f \in Frames : f >= frames => contents'[f] = Zero
  /\ reading[p] = {}
  /\ stale' = stale \ ({p} \X Pages)
  /\ UNCHANGED <<used, refs, skel, reading, astray>>

LEMMA ProgramIsFresh ==
  ASSUME Inv, NEW p \in Procs, GetsProgram(p)
  PROVE  /\ OnlyFresh(p)
         /\ table' \in [Procs -> [Pages -> [frame : 0 .. MaxFrames, write : BOOLEAN]]]
         /\ cow' \in [Procs -> [Pages -> 0 .. MaxObjects]]
         /\ frames' \in 0 .. MaxFrames
         /\ \A q \in Procs \ {p} : table'[q] = table[q] /\ cow'[q] = cow[q]
         /\ \A v \in Pages :
              table'[p][v] = IF v \in Image THEN Entry(frames + v, TRUE) ELSE NoEntry
         /\ \A v \in Image : frames + v \in Frames /\ frames + v >= frames
<1>1. frames \in Nat /\ frames + ImageSize <= MaxFrames /\ ImageSize \in Nat /\ MaxFrames \in Nat
  BY PagesAssumption, SizesAssumption DEF GetsProgram, Inv, TypeOK
<1>2. /\ table' = [table EXCEPT ![p] = ProgramTable(frames)]
      /\ cow' = [cow EXCEPT ![p] = NoCow]
      /\ table'[p] = ProgramTable(frames) /\ cow'[p] = NoCow
      /\ \A q \in Procs \ {p} : table'[q] = table[q] /\ cow'[q] = cow[q]
  BY DEF GetsProgram, Inv, TypeOK
<1>3. table' \in [Procs -> [Pages -> [frame : 0 .. MaxFrames, write : BOOLEAN]]]
  BY <1>1, <1>2, ProgramTableIs DEF Inv, TypeOK
<1>4. cow' \in [Procs -> [Pages -> 0 .. MaxObjects]]
  BY <1>2, SizesAssumption DEF Inv, TypeOK, NoCow, NoObject
<1>5. \A v \in Pages : cow'[p][v] = NoObject
  BY <1>2 DEF NoCow
<1>6. frames' = frames + ImageSize /\ frames' \in 0 .. MaxFrames /\ frames' \in frames .. MaxFrames
  BY <1>1 DEF GetsProgram
<1>7. ASSUME NEW v \in Image
      PROVE  /\ v \in Nat /\ v \in Pages
             /\ frames + v \in frames .. frames' - 1 /\ frames + v \in Frames
             /\ frames + v >= frames
  <2>1. v \in Nat /\ v < ImageSize /\ v \in Pages
    BY <1>1, ProgramTableIs
  <2> QED BY <1>1, <1>6, <2>1 DEF Frames
<1>8. \A v \in Pages :
        table'[p][v] = IF v \in Image THEN Entry(frames + v, TRUE) ELSE NoEntry
  BY <1>1, <1>2, ProgramTableIs
<1>9. ASSUME NEW v \in Pages
      PROVE  /\ v \in Image => Fresh(p, v) /\ table'[p][v].frame = frames + v
             /\ v \notin Image => table'[p][v] = NoEntry /\ ~Fresh(p, v)
  <2>1. CASE v \in Image
    <3>1. table'[p][v] = Entry(frames + v, TRUE)
      BY <1>8, <2>1
    <3> QED BY <1>5, <1>7, <2>1, <3>1 DEF Fresh, Entry
  <2>2. CASE v \notin Image
    <3>1. table'[p][v] = NoEntry
      BY <1>8, <2>2
    <3>2. table'[p][v].write = FALSE
      BY <3>1 DEF NoEntry, Entry
    <3> QED BY <2>2, <3>1, <3>2 DEF Fresh
  <2> QED BY <2>1, <2>2
<1>10. OnlyFresh(p)
  <2>1. ASSUME NEW v \in Pages, NEW w \in Pages, Fresh(p, v), Fresh(p, w),
               table'[p][v].frame = table'[p][w].frame
        PROVE  v = w
    <3>1. v \in Image /\ w \in Image
      BY <1>9, <2>1
    <3>2. frames + v = frames + w
      BY <1>9, <2>1, <3>1
    <3> QED BY <1>1, <1>7, <3>1, <3>2
  <2>2. \A v \in Pages : (table'[p][v] = NoEntry /\ cow'[p][v] = NoObject) \/ Fresh(p, v)
    BY <1>5, <1>9
  <2>3. StaleLeaves(p)
    BY <1>5 DEF StaleLeaves, GetsProgram
  <2> QED BY <1>2, <1>6, <2>1, <2>2, <2>3 DEF OnlyFresh, GetsProgram
<1> QED BY <1>1, <1>2, <1>3, <1>4, <1>6, <1>7, <1>8, <1>10

LEMMA ProgramIsProgram ==
  ASSUME Inv, NEW p \in Procs, GetsProgram(p), NEW v \in Pages
  PROVE  Memory'[p][v] = Private!Program[v]
<1>1. v \in Image => contents'[frames + v] = Zero /\ frames + v # NoFrame
  <2>1. v \in Image => frames + v \in Frames /\ frames + v >= frames
    BY ProgramIsFresh
  <2>2. \A f \in Frames : f >= frames => contents'[f] = Zero
    BY DEF GetsProgram
  <2> QED BY <2>1, <2>2, SizesAssumption DEF Frames, NoFrame
<1>2. table'[p][v] = IF v \in Image THEN Entry(frames + v, TRUE) ELSE NoEntry
  BY ProgramIsFresh
<1> QED BY <1>1, <1>2, MemoryAt DEF Mapped, Entry, NoEntry, Private!Program

LEMMA ExecKeepsInv ==
  ASSUME Inv, NEW p \in Procs, exec(p)
  PROVE  Inv' /\ Private!Exec(p)
<1>1. GetsProgram(p)
  BY DEF exec, GetsProgram, Runs, Inv, FramesGiven
<1>2. p \in born /\ born' = born /\ contents' = contents
  BY DEF exec, Runs
<1>3. TypeOK' /\ UnbornEmpty'
  BY <1>1, <1>2, ProgramIsFresh DEF Inv, TypeOK, UnbornEmpty, GetsProgram
<1>4. Inv'
  BY <1>1, <1>3, ProgramIsFresh, FreshKeepsInv
<1> DEFINE g == [Memory EXCEPT ![p] = Private!Program]
<1>5. ASSUME NEW q \in Procs, NEW w \in Pages
      PROVE  Memory'[q][w] = g[q][w]
  <2>1. g[q][w] = IF q = p THEN Private!Program[w] ELSE Memory[q][w]
    BY DEF Memory
  <2> HIDE DEF g
  <2>2. CASE q = p
    BY <1>1, <2>1, <2>2, ProgramIsProgram
  <2>3. CASE q # p
    <3>1. table'[q] = table[q]
      BY <1>1, <2>3, ProgramIsFresh
    <3> QED BY <1>2, <2>1, <2>3, <3>1, MemoryAt DEF Mapped
  <2> QED BY <2>2, <2>3
<1>6. g = [q \in Procs |-> [w \in Pages |-> g[q][w]]]
  BY DEF Memory, Private!Program
<1>7. Memory' = g
  BY <1>5, <1>6, MemoryIs
<1> QED BY <1>2, <1>4, <1>7 DEF Private!Exec

LEMMA SpawnKeepsInv ==
  ASSUME Inv, ~AnyAddress, NEW p \in Procs, NEW q \in Procs, NEW v \in Pages, NEW x \in Values,
         spawn(p, q, v, x)
  PROVE  Inv' /\ Private!Spawn(p, q, {v}, x)
<1>1. /\ p \in born /\ q \notin born /\ p # q /\ v \in Mapped(p) /\ table[p][v].write
      /\ born' = born \cup {q} /\ contents' = Filled(p, {v}, x)
  BY DEF spawn, Runs
<1>2. \A f \in Frames : f >= frames => contents'[f] = Zero
  BY <1>1, Types, SizesAssumption DEF Filled, Inv, FramesGiven, TypeOK, Frames
<1>3. GetsProgram(q)
  <2>1. cow = [cow EXCEPT ![q] = NoCow]
    BY <1>1 DEF Inv, TypeOK, UnbornEmpty
  <2>2. stale = stale \ ({q} \X Pages)
    BY <1>1 DEF Inv, TypeOK, UnbornEmpty
  <2> QED BY <1>1, <1>2, <2>1, <2>2 DEF spawn, GetsProgram, Inv, UnbornEmpty
<1>4. TypeOK' /\ UnbornEmpty'
  <2>1. contents' \in [Frames -> Values]
    BY <1>1 DEF Filled, Inv, TypeOK
  <2> QED BY <1>1, <1>3, <2>1, ProgramIsFresh DEF Inv, TypeOK, UnbornEmpty, GetsProgram
<1>5. Inv'
  BY <1>3, <1>4, ProgramIsFresh, FreshKeepsInv
<1> DEFINE g == [Memory EXCEPT ![p] = Private!Stored(p, {v}, x), ![q] = Private!Program]
<1>6. ASSUME NEW r \in Procs, NEW w \in Pages
      PROVE  Memory'[r][w] = g[r][w]
  <2>1. g[r][w] = IF r = q THEN Private!Program[w]
                  ELSE IF r = p /\ w = v THEN x ELSE Memory[r][w]
    BY <1>1 DEF Memory, Private!Stored
  <2> HIDE DEF g
  <2>2. CASE r = q
    BY <1>3, <2>1, <2>2, ProgramIsProgram
  <2>3. CASE r # q
    <3>1. table'[r] = table[r]
      BY <1>3, <2>3, ProgramIsFresh
    <3>2. w \in Mapped(r) => contents'[table[r][w].frame] =
                               IF r = p /\ w = v THEN x ELSE contents[table[r][w].frame]
      BY <1>1, FillChangesOwnPages
    <3>3. Mapped(r)' = Mapped(r)
      BY <3>1 DEF Mapped
    <3>4. r = p /\ w = v => w \in Mapped(r)
      BY <1>1
    <3> QED BY <2>1, <2>3, <3>1, <3>2, <3>3, <3>4, MemoryAt
  <2> QED BY <2>2, <2>3
<1>7. g = [r \in Procs |-> [w \in Pages |-> g[r][w]]]
  BY DEF Memory, Private!Program, Private!Stored
<1>8. Memory' = g
  <2> HIDE DEF g
  <2> QED BY <1>6, <1>7, MemoryIs
<1>9. {v} \subseteq Private!Mapped(p)
  BY <1>1, Types, ValuesAssumption DEF Private!Mapped, Memory, Mapped, Inv, TypeOK
<1> QED BY <1>1, <1>5, <1>8, <1>9 DEF Private!Spawn

LEMMA MmapKeepsInv ==
  ASSUME Inv, ~AnyAddress, NEW p \in Procs, NEW first \in Pages, NEW n \in 1 .. MaxFrames,
         mmap(p, first, n)
  PROVE  Inv' /\ \E pages \in SUBSET Pages : Private!Map(p, pages)
<1>1. /\ p \in born /\ reading[p] = {} /\ first .. first + n - 1 \subseteq Pages
      /\ \A v \in first .. first + n - 1 : cow[p][v] = NoObject
      /\ frames \in Nat /\ first \in Int /\ n \in Nat /\ MaxFrames \in Nat
      /\ frames' = frames + n /\ frames' \in frames .. MaxFrames /\ frames' \in 0 .. MaxFrames
      /\ UNCHANGED <<born, cow, used, refs, skel, contents, reading, stale, astray>>
  <2>1. /\ p \in born /\ reading[p] = {} /\ first .. first + n - 1 \subseteq Pages
        /\ \A v \in first .. first + n - 1 : cow[p][v] = NoObject
        /\ frames + n <= MaxFrames /\ frames' = frames + n
        /\ UNCHANGED <<born, cow, used, refs, skel, contents, reading, stale, astray>>
    BY DEF mmap, Runs
  <2>2. frames \in Nat /\ first \in Int /\ n \in Nat /\ MaxFrames \in Nat
    BY SizesAssumption DEF Inv, TypeOK, Pages
  <2>3. frames' \in frames .. MaxFrames /\ frames' \in 0 .. MaxFrames
    BY <2>1, <2>2
  <2> QED BY <2>1, <2>2, <2>3
<1>2. PICK k \in 0 .. n :
        table' = [table EXCEPT ![p] = [v \in Pages |->
          IF v \in first .. first + k - 1 THEN Entry(frames + (v - first), TRUE) ELSE @[v]]]
  BY DEF mmap
<1> DEFINE pages == first .. first + k - 1
<1>3. pages \subseteq Pages /\ k \in Nat /\ k <= n /\ \A v \in pages : cow[p][v] = NoObject
  BY <1>1, <1>2
<1>4. ASSUME NEW v \in pages
      PROVE  /\ frames + (v - first) \in frames .. frames' - 1
             /\ frames + (v - first) \in Frames /\ frames + (v - first) >= frames
             /\ frames + (v - first) \in 0 .. MaxFrames
             /\ v \in Int
  BY <1>1, <1>3 DEF Frames
<1>5. /\ \A q \in Procs \ {p} : table'[q] = table[q]
      /\ \A v \in Pages : table'[p][v] =
           IF v \in pages THEN Entry(frames + (v - first), TRUE) ELSE table[p][v]
  BY <1>2 DEF Inv, TypeOK
<1>6. table' \in [Procs -> [Pages -> [frame : 0 .. MaxFrames, write : BOOLEAN]]]
  BY <1>2, <1>4 DEF Inv, TypeOK, Entry
<1> HIDE DEF pages
<1>7. TypeOK' /\ UnbornEmpty'
  BY <1>1, <1>5, <1>6 DEF Inv, TypeOK, UnbornEmpty
<1>8. ASSUME NEW v \in Pages
      PROVE  /\ v \in pages => Fresh(p, v) /\ table'[p][v].frame = frames + (v - first)
             /\ v \notin pages =>
                  /\ table'[p][v] = table[p][v] /\ cow'[p][v] = cow[p][v]
                  /\ ~Fresh(p, v)
  <2>1. CASE v \in pages
    <3>1. table'[p][v] = Entry(frames + (v - first), TRUE)
      BY <1>5, <2>1
    <3>2. cow'[p][v] = NoObject
      BY <1>1, <1>3, <2>1
    <3> QED BY <1>4, <2>1, <3>1, <3>2 DEF Fresh, Entry
  <2>2. CASE v \notin pages
    <3>1. table'[p][v] = table[p][v] /\ cow'[p][v] = cow[p][v]
      BY <1>1, <1>5, <2>2
    <3>2. v \in Mapped(p) => table[p][v].frame < frames
      BY DEF Inv, FramesGiven
    <3>3. v \notin Mapped(p) => table[p][v].frame = MaxFrames
      BY DEF Mapped, NoFrame
    <3>4. table[p][v].frame \in 0 .. MaxFrames
      BY Types DEF Inv
    <3> QED BY <1>1, <2>2, <3>1, <3>2, <3>3, <3>4 DEF Fresh
  <2> QED BY <2>1, <2>2
<1>9. OnlyFresh(p)
  <2>1. ASSUME NEW v \in Pages, NEW w \in Pages, Fresh(p, v), Fresh(p, w),
               table'[p][v].frame = table'[p][w].frame
        PROVE  v = w
    <3>1. v \in pages /\ w \in pages
      BY <1>8, <2>1
    <3>2. frames + (v - first) = frames + (w - first) /\ v \in Int /\ w \in Int
      BY <1>4, <1>8, <2>1, <3>1
    <3> QED BY <1>1, <3>2
  <2>2. \A f \in Frames : f >= frames => contents'[f] = Zero
    BY <1>1 DEF Inv, FramesGiven
  <2>3. \A q \in Procs \ {p} : table'[q] = table[q] /\ cow'[q] = cow[q]
    BY <1>1, <1>5
  <2>4. StaleLeaves(p)
    BY <1>1 DEF Inv, CowPages, StaleLeaves
  <2> QED BY <1>1, <1>8, <2>1, <2>2, <2>3, <2>4 DEF OnlyFresh
<1>10. Inv'
  BY <1>7, <1>9, FreshKeepsInv
<1> DEFINE g == [Memory EXCEPT ![p] = Private!Stored(p, pages, Zero)]
<1>11. ASSUME NEW q \in Procs, NEW w \in Pages
       PROVE  Memory'[q][w] = g[q][w]
  <2>1. g[q][w] = IF q = p /\ w \in pages THEN Zero ELSE Memory[q][w]
    BY DEF Memory, Private!Stored
  <2> HIDE DEF g
  <2>2. CASE q = p /\ w \in pages
    <3>1. table'[q][w].frame = frames + (w - first)
      BY <1>8, <2>2
    <3>2. table'[q][w].frame \in Frames /\ table'[q][w].frame >= frames
      BY <1>4, <2>2, <3>1 DEF pages
    <3>3. contents'[table'[q][w].frame] = Zero
      BY <1>1, <3>2 DEF Inv, FramesGiven
    <3>4. w \in Mapped(q)'
      BY <1>1, <3>2 DEF Mapped, Frames, NoFrame
    <3> QED BY <2>1, <2>2, <3>3, <3>4, MemoryAt
  <2>3. CASE ~(q = p /\ w \in pages)
    <3>1. table'[q][w] = table[q][w]
      BY <1>5, <2>3
    <3>2. w \in Mapped(q)' <=> w \in Mapped(q)
      BY <3>1 DEF Mapped
    <3> QED BY <1>1, <2>1, <2>3, <3>1, <3>2, MemoryAt
  <2> QED BY <2>2, <2>3
<1>12. g = [q \in Procs |-> [w \in Pages |-> g[q][w]]]
  BY DEF Memory, Private!Stored
<1>13. Memory' = g
  <2> HIDE DEF g
  <2> QED BY <1>11, <1>12, MemoryIs
<1>14. Private!Map(p, pages)
  BY <1>1, <1>13 DEF Private!Map
<1> QED BY <1>3, <1>10, <1>14

-----------------------------------------------------------------------------
(* fork *)

\* What caller p and child q hold after it: the page's CoWPage, a new one if it had
\* none (fresh is the set of those).
Held(p, q, held, fresh) ==
  /\ p \in born /\ q \in Procs \ born /\ born' = born \cup {q}
  /\ reading[p] = {} /\ UNCHANGED <<frames, contents, reading, stale, astray>>
  /\ \A v \in Pages : <<p, v>> \notin stale
  /\ fresh \subseteq Objects \ used /\ used' = used \cup fresh
  /\ held \in [Pages -> 0 .. MaxObjects]
  /\ table' = SharedEntries(p, q) /\ cow' = [cow EXCEPT ![p] = held, ![q] = held]
  /\ refs' = [c \in Objects |-> CountedRefs(c, fresh, {v \in Mapped(p) : held[v] = c})]
  /\ skel' \in [Objects -> 0 .. MaxFrames]
  /\ \A c \in Objects \ fresh : skel'[c] = skel[c]
  /\ \A v \in Pages :
       IF v \notin Mapped(p) THEN held[v] = NoObject
       ELSE IF cow[p][v] # NoObject THEN held[v] = cow[p][v]
       ELSE held[v] \in fresh /\ skel'[held[v]] = table[p][v].frame
  /\ \A c \in fresh : \E v \in Mapped(p) : held[v] = c

LEMMA ForkHeld ==
  ASSUME Inv, NEW p \in Procs, NEW q \in Procs, fork(p, q)
  PROVE  \E held, fresh : Held(p, q, held, fresh)
<1> DEFINE new == {v \in Mapped(p) : cow[p][v] = NoObject}
<1>1. PICK object \in Injection(new, Objects \ used) :
        LET held  == [v \in Pages |-> IF v \in new THEN object[v] ELSE cow[p][v]]
            fresh == Range(object)
        IN /\ cow' = [cow EXCEPT ![p] = held, ![q] = held]
           /\ used' = used \cup fresh
           /\ refs' = [c \in Objects |->
                         CountedRefs(c, fresh, {v \in Mapped(p) : held[v] = c})]
           /\ skel' = [c \in Objects |->
                         IF c \in fresh
                           THEN table[p][CHOOSE v \in new : object[v] = c].frame
                           ELSE skel[c]]
  BY DEF fork
<1> DEFINE held  == [v \in Pages |-> IF v \in new THEN object[v] ELSE cow[p][v]]
           fresh == Range(object)
<1>2. /\ cow' = [cow EXCEPT ![p] = held, ![q] = held] /\ used' = used \cup fresh
      /\ refs' = [c \in Objects |-> CountedRefs(c, fresh, {v \in Mapped(p) : held[v] = c})]
      /\ skel' = [c \in Objects |->
                    IF c \in fresh THEN table[p][CHOOSE v \in new : object[v] = c].frame
                    ELSE skel[c]]
  BY <1>1
<1>3. /\ p \in born /\ q \in Procs \ born /\ born' = born \cup {q}
      /\ reading[p] = {} /\ UNCHANGED <<frames, contents, reading, stale, astray>>
      /\ \A v \in Pages : <<p, v>> \notin stale
      /\ table' = SharedEntries(p, q)
  BY DEF fork, Runs
<1>4. /\ object \in [new -> Objects \ used]
      /\ \A v, w \in new : object[v] = object[w] => v = w
      /\ \A c \in fresh : \E v \in new : object[v] = c
      /\ \A v \in new : object[v] \in fresh
      /\ fresh \subseteq Objects \ used
  BY DEF Injection, IsInjective, Range
<1>5. new \subseteq Pages /\ \A v \in new : v \in Mapped(p)
  BY DEF Mapped
<1>6. \A v \in Pages : v \notin Mapped(p) => cow[p][v] = NoObject
  BY DEF Inv, CowPages
<1> HIDE DEF new, fresh
<1>7. held \in [Pages -> 0 .. MaxObjects]
  BY <1>4, Types DEF Inv, Objects
<1>8. \A v \in Pages : held[v] = IF v \in new THEN object[v] ELSE cow[p][v]
  OBVIOUS
<1>9. \A v \in new : skel'[object[v]] = table[p][v].frame
  <2> TAKE v \in new
  <2>1. object[v] \in fresh /\ object[v] \in Objects
    BY <1>4
  <2>2. (CHOOSE w \in new : object[w] = object[v]) = v
    BY <1>4
  <2> QED BY <1>2, <2>1, <2>2
<1>10. skel' \in [Objects -> 0 .. MaxFrames]
  <2> SUFFICES ASSUME NEW c \in Objects PROVE skel'[c] \in 0 .. MaxFrames
    BY <1>2
  <2>1. CASE c \in fresh
    <3>1. PICK v \in new : object[v] = c
      BY <1>4, <2>1
    <3>2. skel'[c] = table[p][v].frame
      BY <1>9, <3>1
    <3> QED BY <1>5, <3>2, Types DEF Inv
  <2>2. CASE c \notin fresh
    BY <1>2, <2>2 DEF Inv, TypeOK
  <2> QED BY <2>1, <2>2
<1>11. \A c \in Objects \ fresh : skel'[c] = skel[c]
  BY <1>2
<1>12. \A v \in Pages : v \in new <=> v \in Mapped(p) /\ cow[p][v] = NoObject
  BY DEF new
<1> HIDE DEF held
<1>13. \A c \in fresh : \E v \in Mapped(p) : held[v] = c
  BY <1>4, <1>5, <1>8
<1>14. \A v \in Pages :
         IF v \notin Mapped(p) THEN held[v] = NoObject
         ELSE IF cow[p][v] # NoObject THEN held[v] = cow[p][v]
         ELSE held[v] \in fresh /\ skel'[held[v]] = table[p][v].frame
  BY <1>4, <1>6, <1>8, <1>9, <1>12
<1>15. Held(p, q, held, fresh)
  BY <1>2, <1>3, <1>4, <1>7, <1>10, <1>11, <1>13, <1>14 DEF Held
<1> QED BY <1>15

\* What a process has after a fork is what p had, in its child, or what it had.
Source(r, p, q) == IF r = q THEN p ELSE r

LEMMA ForkTables ==
  ASSUME Inv, NEW p \in Procs, NEW q \in Procs, NEW held, NEW fresh, Held(p, q, held, fresh)
  PROVE  /\ p # q
         /\ \A r \in Procs : \A w \in Pages :
              /\ table'[r][w].frame = table[Source(r, p, q)][w].frame
              /\ cow'[r][w] = IF r \in {p, q} THEN held[w] ELSE cow[r][w]
              /\ table'[r][w] = IF r \in {p, q} THEN Entry(table[p][w].frame, FALSE)
                                ELSE table[r][w]
         /\ \A r \in Procs : Mapped(r)' = Mapped(Source(r, p, q))
<1>1. p # q
  BY DEF Held
<1>2. \A r \in Procs : \A w \in Pages :
        /\ cow'[r][w] = IF r \in {p, q} THEN held[w] ELSE cow[r][w]
        /\ table'[r][w] = IF r \in {p, q} THEN Entry(table[p][w].frame, FALSE)
                          ELSE table[r][w]
  BY DEF Held, SharedEntries, Inv, TypeOK
<1>3. \A r \in Procs : \A w \in Pages :
        table'[r][w].frame = table[Source(r, p, q)][w].frame
  <2> SUFFICES ASSUME NEW r \in Procs, NEW w \in Pages
               PROVE  table'[r][w].frame = table[Source(r, p, q)][w].frame
    OBVIOUS
  <2>1. CASE r \in {p, q}
    <3>1. table'[r][w] = Entry(table[p][w].frame, FALSE)
      BY <1>2, <2>1
    <3>2. Source(r, p, q) = p
      BY <2>1 DEF Source
    <3> QED BY <3>1, <3>2 DEF Entry
  <2>2. CASE r \notin {p, q}
    BY <1>2, <2>2 DEF Source
  <2> QED BY <2>1, <2>2
<1>4. \A r \in Procs : Mapped(r)' = Mapped(Source(r, p, q))
  BY <1>3 DEF Mapped, Source
<1> QED BY <1>1, <1>2, <1>3, <1>4

LEMMA ForkTypes ==
  ASSUME Inv, NEW p \in Procs, NEW q \in Procs, NEW held, NEW fresh, Held(p, q, held, fresh)
  PROVE  TypeOK' /\ UnbornEmpty'
<1>1. table' \in [Procs -> [Pages -> [frame : 0 .. MaxFrames, write : BOOLEAN]]]
  <2>1. [v \in Pages |-> Entry(table[p][v].frame, FALSE)]
          \in [Pages -> [frame : 0 .. MaxFrames, write : BOOLEAN]]
    BY Types DEF Inv, Entry
  <2> QED BY <2>1 DEF Held, SharedEntries, Inv, TypeOK
<1>2. cow' \in [Procs -> [Pages -> 0 .. MaxObjects]]
  BY DEF Held, Inv, TypeOK
<1>3. refs' \in [Objects -> Int]
  <2> SUFFICES ASSUME NEW c \in Objects
               PROVE  CountedRefs(c, fresh, {v \in Mapped(p) : held[v] = c}) \in Int
    BY DEF Held
  <2>1. IsFiniteSet(Pages)
    BY PagesAssumption, FS_Interval DEF Pages
  <2>2. IsFiniteSet({v \in Mapped(p) : held[v] = c})
    BY <2>1, FS_Subset DEF Mapped
  <2>3. Cardinality({v \in Mapped(p) : held[v] = c}) \in Nat
    BY <2>2, FS_CardinalityType
  <2> QED BY <2>3 DEF CountedRefs, Inv, TypeOK
<1>4. TypeOK'
  BY <1>1, <1>2, <1>3 DEF Held, Inv, TypeOK
<1>5. UnbornEmpty'
  <2> SUFFICES ASSUME NEW r \in Procs \ born'
               PROVE  /\ table'[r] = NoTable /\ cow'[r] = NoCow /\ reading'[r] = {}
                      /\ \A v \in Pages : <<r, v>> \notin stale'
    BY DEF UnbornEmpty
  <2>1. r # p /\ r # q /\ r \notin born
    BY DEF Held
  <2> QED BY <2>1 DEF Held, SharedEntries, Inv, TypeOK, UnbornEmpty
<1> QED BY <1>4, <1>5

LEMMA ForkCounts ==
  ASSUME Inv, NEW p \in Procs, NEW q \in Procs, NEW held, NEW fresh, Held(p, q, held, fresh)
  PROVE  Counted'
<1> SUFFICES ASSUME NEW c \in Objects, Holders(c)' # {}
             PROVE  refs'[c] >= Cardinality(Holders(c)')
  BY DEF Counted
<1>0. /\ p # q
      /\ \A r \in Procs : \A w \in Pages :
           /\ table'[r][w].frame = table[Source(r, p, q)][w].frame
           /\ cow'[r][w] = IF r \in {p, q} THEN held[w] ELSE cow[r][w]
           /\ table'[r][w] = IF r \in {p, q} THEN Entry(table[p][w].frame, FALSE)
                             ELSE table[r][w]
      /\ \A r \in Procs : Mapped(r)' = Mapped(Source(r, p, q))
  BY ForkTables
<1> DEFINE at == {v \in Mapped(p) : held[v] = c}
<1>1. refs'[c] = (IF c \in fresh THEN 1 ELSE refs[c]) + Cardinality(at)
  BY DEF Held, CountedRefs
<1>2. IsFiniteSet(at) /\ Cardinality(at) \in Nat /\ (at # {} => Cardinality(at) >= 1)
  <2>1. IsFiniteSet(Pages)
    BY PagesAssumption, FS_Interval DEF Pages
  <2>2. IsFiniteSet(at)
    BY <2>1, FS_Subset DEF Mapped
  <2>3. Cardinality(at) \in Nat /\ (Cardinality(at) = 0 <=> at = {})
    BY <2>2, FS_CardinalityType, FS_EmptySet
  <2> QED BY <2>2, <2>3
<1>3. c # NoObject /\ q \notin Holders(c) /\ refs[c] \in Int
  <2>1. c # NoObject
    BY DEF Objects, NoObject
  <2>2. cow[q] = NoCow
    BY DEF Held, Inv, UnbornEmpty
  <2>3. \A v \in Pages : cow[q][v] # c
    BY <2>1, <2>2 DEF NoCow
  <2> QED BY <2>1, <2>3 DEF Holders, Inv, TypeOK
<1>s. stale' = stale /\ \A v \in Pages : <<p, v>> \notin stale /\ <<q, v>> \notin stale
  BY DEF Held, Inv, UnbornEmpty
<1>4. \A r \in Procs \ {p, q} : r \in Holders(c)' <=> r \in Holders(c)
  <2>1. \A r \in Procs \ {p, q}, w \in Pages :
          cow'[r][w] = cow[r][w] /\ (<<r, w>> \in stale' <=> <<r, w>> \in stale)
    BY <1>0, <1>s
  <2> QED BY <2>1 DEF Holders
<1>5. \A r \in {p, q} : r \in Holders(c)' <=> at # {}
  <2> SUFFICES ASSUME NEW r \in {p, q} PROVE r \in Holders(c)' <=> at # {}
    OBVIOUS
  <2>1. r \in Procs /\ \A w \in Pages : cow'[r][w] = held[w] /\ <<r, w>> \notin stale'
    BY <1>0, <1>s
  <2>2. r \in Holders(c)' <=> \E w \in Pages : held[w] = c
    BY <2>1 DEF Holders
  <2>3. \A w \in Pages : w \notin Mapped(p) => held[w] = NoObject
    BY DEF Held
  <2>4. Mapped(p) \subseteq Pages
    BY DEF Mapped
  <2> HIDE DEF Mapped
  <2> QED BY <1>3, <2>2, <2>3, <2>4
<1>6. Holders(c)' \subseteq Procs /\ Holders(c) \subseteq Procs
  BY DEF Holders
<1> HIDE DEF at
<1>7. CASE c \in fresh
  <2>1. Holders(c) = {}
    <3> SUFFICES ASSUME NEW r \in Procs, NEW v \in Pages, cow[r][v] = c, <<r, v>> \notin stale
                 PROVE  FALSE
      BY DEF Holders
    <3> QED BY <1>3, <1>7 DEF Held, Inv, CowPages
  <2>2. Holders(c)' \subseteq {p, q} /\ at # {}
    BY <1>4, <1>5, <1>6, <2>1
  <2>3. IsFiniteSet({p, q}) /\ Cardinality({p, q}) <= 2
    <3>1. IsFiniteSet({p}) /\ Cardinality({p}) = 1 /\ {p, q} = {p} \cup {q}
      BY FS_Singleton
    <3>2. /\ IsFiniteSet({p} \cup {q})
          /\ Cardinality({p} \cup {q}) =
               IF q \in {p} THEN Cardinality({p}) ELSE Cardinality({p}) + 1
      BY <3>1, FS_AddElement
    <3>3. Cardinality({p} \cup {q}) = 2
      BY <3>1, <3>2, <1>0
    <3> QED BY <3>1, <3>2, <3>3
  <2>4. Cardinality(Holders(c)') <= 2
    <3>1. Cardinality(Holders(c)') <= Cardinality({p, q})
      BY <2>2, <2>3, FS_Subset
    <3>2. Cardinality(Holders(c)') \in Nat /\ Cardinality({p, q}) \in Nat
      BY <2>2, <2>3, FS_Subset, FS_CardinalityType
    <3> QED BY <2>3, <3>1, <3>2
  <2>5. Cardinality(Holders(c)') \in Nat
    BY <2>2, <2>3, FS_Subset, FS_CardinalityType
  <2> QED BY <1>1, <1>2, <1>7, <2>2, <2>4, <2>5
<1>8. CASE c \notin fresh /\ at # {}
  <2>1. p \in Holders(c)
    <3>1. PICK v \in Pages : v \in Mapped(p) /\ held[v] = c
      BY <1>8 DEF at, Mapped
    <3>2. cow[p][v] = c
      BY <1>8, <3>1 DEF Held
    <3> QED BY <1>s, <3>2 DEF Holders
  <2>2. Holders(c)' = Holders(c) \cup {q}
    BY <1>4, <1>5, <1>6, <1>8, <2>1
  <2>3. Cardinality(Holders(c)') = Cardinality(Holders(c)) + 1
    BY <1>3, <2>2, HoldersFinite, FS_AddElement
  <2>4. refs[c] >= Cardinality(Holders(c))
    BY <2>1 DEF Inv, Counted
  <2> QED BY <1>1, <1>2, <1>3, <1>8, <2>3, <2>4, HoldersFinite
<1>9. CASE c \notin fresh /\ at = {}
  <2>1. p \notin Holders(c)
    <3> SUFFICES ASSUME NEW v \in Pages, cow[p][v] = c PROVE FALSE
      BY DEF Holders
    <3>1. v \in Mapped(p) /\ held[v] = c
      BY <1>3 DEF Inv, CowPages, Held
    <3> QED BY <1>9, <3>1 DEF at
  <2>2. Holders(c)' = Holders(c)
    BY <1>3, <1>4, <1>5, <1>6, <1>9, <2>1
  <2>3. refs[c] >= Cardinality(Holders(c)')
    BY <2>2 DEF Inv, Counted
  <2> QED BY <1>1, <1>2, <1>3, <1>9, <2>2, <2>3, HoldersFinite
<1> QED BY <1>7, <1>8, <1>9

LEMMA ForkKeepsInv ==
  ASSUME Inv, NEW p \in Procs, NEW q \in Procs, fork(p, q)
  PROVE  Inv' /\ Private!Fork(p, q)
<1>1. PICK held, fresh : Held(p, q, held, fresh)
  BY ForkHeld
<1>2. /\ p \in born /\ q \notin born /\ reading[p] = {} /\ reading[q] = {}
      /\ UNCHANGED <<frames, contents, reading, stale, astray>>
      /\ \A v \in Pages : <<p, v>> \notin stale /\ <<q, v>> \notin stale
      /\ \A v \in Pages :
           IF v \notin Mapped(p) THEN held[v] = NoObject
           ELSE IF cow[p][v] # NoObject THEN held[v] = cow[p][v]
           ELSE held[v] \in fresh /\ skel'[held[v]] = table[p][v].frame
      /\ fresh \subseteq Objects \ used /\ used' = used \cup fresh
      /\ \A c \in Objects \ fresh : skel'[c] = skel[c]
  BY <1>1 DEF Held, Inv, UnbornEmpty
<1>3. /\ p # q
      /\ \A r \in Procs : \A w \in Pages :
           /\ table'[r][w].frame = table[Source(r, p, q)][w].frame
           /\ cow'[r][w] = IF r \in {p, q} THEN held[w] ELSE cow[r][w]
           /\ table'[r][w] = IF r \in {p, q} THEN Entry(table[p][w].frame, FALSE)
                             ELSE table[r][w]
      /\ \A r \in Procs : Mapped(r)' = Mapped(Source(r, p, q))
  BY <1>1, ForkTables
<1>4. \A r \in Procs : Source(r, p, q) \in Procs
  BY DEF Source
<1>5. FramesGiven'
  BY <1>2, <1>3, <1>4 DEF Inv, FramesGiven, Mapped
<1>6. NoObject \notin Objects /\ used \subseteq Objects
  BY DEF Objects, NoObject, Inv, TypeOK
<1>7. CowPages'
  <2> SUFFICES ASSUME NEW r \in Procs, NEW w \in Pages
               PROVE  IF cow'[r][w] = NoObject
                        THEN (w \in Mapped(r)' => table'[r][w].write) /\ <<r, w>> \notin stale
                        ELSE /\ w \in Mapped(r)' /\ ~table'[r][w].write
                             /\ \/ <<r, w>> \in stale
                                \/ /\ cow'[r][w] \in used'
                                   /\ skel'[cow'[r][w]] = table'[r][w].frame
    BY <1>2 DEF CowPages
  <2>1. cow[Source(r, p, q)][w] # NoObject /\ <<Source(r, p, q), w>> \notin stale =>
          /\ w \in Mapped(Source(r, p, q))
          /\ cow[Source(r, p, q)][w] \in used
          /\ skel'[cow[Source(r, p, q)][w]] = table[Source(r, p, q)][w].frame
    BY <1>2, <1>4, <1>6 DEF Inv, CowPages
  <2>2. CASE r \in {p, q}
    <3>1. Source(r, p, q) = p /\ Mapped(r)' = Mapped(p) /\ cow'[r][w] = held[w]
      BY <1>3, <2>2 DEF Source
    <3>2. ~table'[r][w].write /\ table'[r][w].frame = table[p][w].frame
      <4>1. table'[r][w] = Entry(table[p][w].frame, FALSE)
        BY <1>3, <2>2
      <4> QED BY <4>1 DEF Entry
    <3>5. <<p, w>> \notin stale /\ <<r, w>> \notin stale
      BY <1>2, <2>2
    <3>3. w \in Mapped(p) => held[w] # NoObject /\ held[w] \in used'
      BY <1>2, <1>6, <2>1, <3>1, <3>5
    <3>4. w \in Mapped(p) => skel'[held[w]] = table[p][w].frame
      BY <1>2, <2>1, <3>1, <3>5
    <3> QED BY <1>2, <3>1, <3>2, <3>3, <3>4, <3>5
  <2>3. CASE r \notin {p, q}
    <3>1. /\ Source(r, p, q) = r /\ Mapped(r)' = Mapped(r)
          /\ table'[r][w] = table[r][w] /\ cow'[r][w] = cow[r][w]
      BY <1>3, <2>3 DEF Source
    <3> QED BY <1>2, <2>1, <3>1 DEF Inv, CowPages
  <2> QED BY <2>2, <2>3
<1>8. SharedByCow'
  <2> SUFFICES ASSUME NEW r \in Procs, NEW s \in Procs,
                      NEW w \in Mapped(r)', NEW u \in Mapped(s)',
                      table'[r][w].frame = table'[s][u].frame
               PROVE  w = u /\ (r = s \/ SameCow(r, s, w)')
    BY DEF SharedByCow
  <2> DEFINE rr == Source(r, p, q)
             ss == Source(s, p, q)
  <2>1. /\ rr \in Procs /\ ss \in Procs /\ w \in Mapped(rr) /\ u \in Mapped(ss)
        /\ table[rr][w].frame = table[ss][u].frame /\ w \in Pages /\ u \in Pages
    BY <1>3, <1>4 DEF Mapped
  <2> HIDE DEF rr, ss
  <2>2. w = u /\ (rr = ss \/ SameCow(rr, ss, w))
    BY <2>1 DEF Inv, SharedByCow
  <2>9. /\ SameCow(rr, ss, w) <=>
             /\ cow[rr][w] = cow[ss][w] /\ cow[rr][w] # NoObject
             /\ <<rr, w>> \in stale <=> <<ss, w>> \in stale
        /\ SameCow(r, s, w)' <=>
             /\ cow'[r][w] = cow'[s][w] /\ cow'[r][w] # NoObject
             /\ <<r, w>> \in stale <=> <<s, w>> \in stale
    BY <1>2 DEF SameCow
  <2>8. <<p, w>> \notin stale /\ <<q, w>> \notin stale
    BY <1>2, <2>1
  <2>3. \A z \in Mapped(p) : z \in Pages =>
          held[z] # NoObject /\ (cow[p][z] # NoObject => held[z] = cow[p][z])
    BY <1>2, <1>6
  <2>4. CASE r \in {p, q} /\ s \in {p, q}
    <3>1. rr = p /\ cow'[r][w] = held[w] /\ cow'[s][u] = held[u]
      BY <1>3, <2>1, <2>4 DEF rr, Source
    <3> QED BY <2>1, <2>2, <2>3, <2>4, <2>8, <2>9, <3>1
  <2>5. CASE r \in {p, q} /\ s \notin {p, q}
    <3>1. rr = p /\ ss = s /\ cow'[r][w] = held[w] /\ cow'[s][u] = cow[s][u]
      BY <1>3, <2>1, <2>5 DEF rr, ss, Source
    <3> QED BY <2>1, <2>2, <2>3, <2>5, <2>8, <2>9, <3>1
  <2>6. CASE r \notin {p, q} /\ s \in {p, q}
    <3>1. rr = r /\ ss = p /\ cow'[r][w] = cow[r][w] /\ cow'[s][u] = held[u]
      BY <1>3, <2>1, <2>6 DEF rr, ss, Source
    <3> QED BY <2>1, <2>2, <2>3, <2>6, <2>8, <2>9, <3>1
  <2>7. CASE r \notin {p, q} /\ s \notin {p, q}
    <3>1. rr = r /\ ss = s /\ cow'[r][w] = cow[r][w] /\ cow'[s][u] = cow[s][u]
      BY <1>3, <2>1, <2>7 DEF rr, ss, Source
    <3> QED BY <2>2, <2>9, <3>1
  <2> QED BY <2>4, <2>5, <2>6, <2>7
<1>9. ReadsReady'
  <2> SUFFICES ASSUME NEW r \in Procs, NEW w \in reading[r]
               PROVE  table'[r][w].write /\ w \in Mapped(r)'
    BY <1>2 DEF ReadsReady, ReadsWhereWritable
  <2>1. r \notin {p, q} /\ w \in Mapped(r) /\ w \in Pages /\ table[r][w].write
    BY <1>2 DEF Inv, ReadsReady, ReadsWhereWritable, Mapped
  <2> QED BY <1>3, <2>1 DEF Source
<1>10. Inv'
  BY <1>1, <1>5, <1>7, <1>8, <1>9, ForkTypes, ForkCounts DEF Inv
<1> DEFINE g == [Memory EXCEPT ![q] = Memory[p]]
<1>11. ASSUME NEW r \in Procs, NEW w \in Pages
       PROVE  Memory'[r][w] = g[r][w]
  <2>1. g[r][w] = Memory[Source(r, p, q)][w]
    BY DEF Memory, Source
  <2> HIDE DEF g
  <2>2. /\ Mapped(r)' = Mapped(Source(r, p, q)) /\ contents' = contents
        /\ table'[r][w].frame = table[Source(r, p, q)][w].frame
    BY <1>2, <1>3
  <2> QED BY <1>4, <2>1, <2>2, MemoryAt
<1>12. g = [r \in Procs |-> [w \in Pages |-> g[r][w]]]
  BY DEF Memory
<1>13. Memory' = g
  <2> HIDE DEF g
  <2> QED BY <1>11, <1>12, MemoryIs
<1> QED BY <1>1, <1>2, <1>10, <1>13 DEF Private!Fork, Held

-----------------------------------------------------------------------------
(* Every step *)

LEMMA InitInv == Init => Inv /\ Private!Init
<1> SUFFICES ASSUME Init PROVE Inv /\ Private!Init
  OBVIOUS
<1>1. /\ 0 \in Nat /\ 0 + ImageSize <= MaxFrames /\ ImageSize \in Nat /\ MaxFrames \in Nat
      /\ \A v \in Pages : ProgramTable(0)[v] =
           IF v \in Image THEN Entry(0 + v, TRUE) ELSE NoEntry
      /\ \A v \in Image : v \in Pages /\ v \in Nat /\ v < ImageSize
      /\ ProgramTable(0) \in [Pages -> [frame : 0 .. MaxFrames, write : BOOLEAN]]
  <2>1. 0 \in Nat /\ 0 + ImageSize <= MaxFrames /\ ImageSize \in Nat /\ MaxFrames \in Nat
    BY PagesAssumption, SizesAssumption
  <2> QED BY <2>1, ProgramTableIs
<1>2. NoTable \in [Pages -> [frame : 0 .. MaxFrames, write : BOOLEAN]]
  BY SizesAssumption DEF NoTable, NoEntry, Entry, NoFrame
<1>3. TypeOK
  <2>1. stale \subseteq Procs \X Pages /\ astray \in BOOLEAN
    BY DEF Init
  <2> QED BY <1>1, <1>2, <2>1, ProcsAssumption, ValuesAssumption, SizesAssumption
          DEF Init, TypeOK, NoCow, NoObject
<1>4. \A q \in Procs, w \in Pages :
        table[q][w] = IF q = Root /\ w \in Image THEN Entry(w, TRUE) ELSE NoEntry
  <2> SUFFICES ASSUME NEW q \in Procs, NEW w \in Pages
               PROVE  table[q][w] = IF q = Root /\ w \in Image THEN Entry(w, TRUE) ELSE NoEntry
    OBVIOUS
  <2>1. \A v \in Image : 0 + v = v
    BY <1>1
  <2>2. CASE q = Root
    <3>1. table[q] = ProgramTable(0)
      BY <2>2 DEF Init
    <3> QED BY <1>1, <2>1, <2>2, <3>1
  <2>3. CASE q # Root
    <3>1. table[q] = NoTable
      BY <2>3 DEF Init
    <3> QED BY <2>3, <3>1 DEF NoTable
  <2> QED BY <2>2, <2>3
<1>5. ASSUME NEW q \in Procs, NEW w \in Pages
      PROVE  /\ w \in Mapped(q) <=> q = Root /\ w \in Image
             /\ w \in Mapped(q) => table[q][w].frame = w /\ table[q][w].write
  <2>1. CASE q = Root /\ w \in Image
    <3>1. table[q][w] = Entry(w, TRUE)
      BY <1>4, <2>1
    <3> QED BY <1>1, <2>1, <3>1 DEF Mapped, Entry, NoFrame
  <2>2. CASE ~(q = Root /\ w \in Image)
    <3>1. table[q][w] = NoEntry
      BY <1>4, <2>2
    <3> QED BY <2>2, <3>1 DEF Mapped, NoEntry, Entry
  <2> QED BY <2>1, <2>2
<1>6. \A q \in Procs : Mapped(q) \subseteq Pages
  BY DEF Mapped
<1>7. \A q \in Procs, w \in Pages : cow[q][w] = NoObject
  BY DEF Init, NoCow
<1>8. UnbornEmpty
  BY DEF Init, UnbornEmpty
<1>9. FramesGiven
  BY <1>1, <1>5, <1>6 DEF Init, FramesGiven
<1>10. CowPages
  BY <1>5, <1>7 DEF CowPages, Init
<1>11. SharedByCow
  BY <1>5, <1>6 DEF SharedByCow
<1>12. Counted
  <2>1. \A c \in Objects : c # NoObject
    BY DEF Objects, NoObject
  <2> QED BY <1>7, <2>1 DEF Counted, Holders
<1>13. ReadsReady
  BY DEF Init, ReadsReady, ReadsWhereWritable
<1>14. Memory = [p \in Procs |-> IF p = Root THEN Private!Program ELSE Private!Nothing]
  <2> DEFINE g == [p \in Procs |-> IF p = Root THEN Private!Program ELSE Private!Nothing]
  <2>1. ASSUME NEW q \in Procs, NEW w \in Pages
        PROVE  Memory[q][w] = g[q][w]
    <3>1. g[q][w] = IF q = Root /\ w \in Image THEN Zero ELSE Unmapped
      BY DEF Private!Program, Private!Nothing
    <3>2. w \in Mapped(q) => contents[table[q][w].frame] = Zero
      BY <1>5, <3>1, <1>3, Types DEF Init
    <3> HIDE DEF g
    <3> QED BY <1>5, <3>1, <3>2, MemoryAt
  <2>2. g = [p \in Procs |-> [w \in Pages |-> g[p][w]]]
    BY DEF Private!Program, Private!Nothing
  <2>3. Memory = [p \in Procs |-> [w \in Pages |-> Memory[p][w]]]
    BY DEF Memory
  <2> HIDE DEF g
  <2>4. Memory = g
    BY <2>1, <2>2, <2>3, SameTable
  <2> QED BY <2>4 DEF g
<1>15. Private!Init
  BY <1>14 DEF Init, Private!Init
<1> QED BY <1>3, <1>8, <1>9, <1>10, <1>11, <1>12, <1>13, <1>15 DEF Inv

\* read leaves p about to store in pages it may write to.
LEMMA ReadKeepsInv ==
  ASSUME Inv, ~AnyAddress, NEW p \in Procs, NEW v \in Pages,
         NEW kind \in {"page", "inside", "long"}, read(p, v, kind)
  PROVE  Inv' /\ UNCHANGED Private!vars
<1>1. /\ p \in born /\ Covered(v, kind) \subseteq Mapped(p)
      /\ reading' = [reading EXCEPT ![p] = Covered(v, kind)]
      /\ \A w \in Covered(v, kind) \ Resolved(v, kind) : table[p][w].write
      /\ Resolved(v, kind) \subseteq {v}
      /\ Covered(v, kind) \subseteq Pages
  BY DEF read, Runs, Careful, Resolved, Mapped
<1>2. /\ reading' \in [Procs -> SUBSET Pages] /\ reading'[p] = Covered(v, kind)
      /\ \A q \in Procs \ {p} : reading'[q] = reading[q]
  BY <1>1 DEF Inv, TypeOK
<1>3. CASE v \in Resolved(v, kind) /\ cow[p][v] # NoObject
  <2>1. resolve_cow(p, v)
    BY <1>3 DEF read
  <2>2. \A w \in Covered(v, kind) : table'[p][w].write
    <3> SUFFICES ASSUME NEW w \in Covered(v, kind) PROVE table'[p][w].write
      OBVIOUS
    <3>1. CASE w = v
      BY <1>1, <2>1, <3>1, ResolveTables
    <3>2. CASE w # v
      <4>1. table'[p][w] = table[p][w]
        BY <1>1, <2>1, <3>2, ResolveTables
      <4> QED BY <1>1, <3>2, <4>1
    <3> QED BY <3>1, <3>2
  <2>3. ReadsMayBe(p)
    <3>1. \A w \in reading'[p] : w \in Mapped(p) /\ table'[p][w].write
      BY <1>1, <1>2, <2>2
    <3> QED BY <1>2, <3>1 DEF ReadsMayBe
  <2>4. Inv'
    BY <1>1, <2>1, <2>3, ResolveKeepsInv
  <2>5. Memory' = Memory /\ born' = born
    BY <1>1, <2>1, ResolveKeepsMemory
  <2> QED BY <2>4, <2>5 DEF Private!vars
<1>4. CASE ~(v \in Resolved(v, kind) /\ cow[p][v] # NoObject)
  <2>1. UNCHANGED <<born, table, cow, used, refs, skel, frames, contents, stale, astray>>
    BY <1>4 DEF read
  <2>2. \A w \in Covered(v, kind) : table[p][w].write
    <3>1. \A w \in Mapped(p) : w \in Pages /\ p \in Procs
      BY DEF Mapped
    <3>2. v \in Mapped(p) /\ cow[p][v] = NoObject => table[p][v].write
      BY <3>1 DEF Inv, CowPages
    <3> QED BY <1>1, <1>4, <3>2
  <2>3. TypeOK' /\ UnbornEmpty'
    BY <1>1, <1>2, <2>1 DEF Inv, TypeOK, UnbornEmpty
  <2>4. FramesGiven' /\ CowPages' /\ SharedByCow' /\ Counted'
    BY <2>1, SameTables DEF Inv, FramesGiven
  <2>5. ReadsReady'
    <3> SUFFICES ASSUME NEW q \in Procs, NEW w \in reading'[q]
                 PROVE  table[q][w].write /\ w \in Mapped(q)
      BY <2>1 DEF ReadsReady, ReadsWhereWritable, Mapped
    <3>1. CASE q = p
      BY <1>1, <1>2, <2>2, <3>1
    <3>2. CASE q # p
      BY <1>2, <3>2 DEF Inv, ReadsReady, ReadsWhereWritable
    <3> QED BY <3>1, <3>2
  <2>6. UNCHANGED Private!vars
    BY <2>1 DEF Private!vars, Memory
  <2> QED BY <2>3, <2>4, <2>5, <2>6 DEF Inv
<1> QED BY <1>3, <1>4

\* One step of one process.
LEMMA StepInv ==
  ASSUME Inv, ~AnyAddress, [Next]_vars
  PROVE  Inv' /\ [Private!Next]_(Private!vars)
<1>1. ASSUME NEW p \in Procs, NEW v \in Pages, NEW x \in Values, store(p, v, x)
      PROVE  Inv' /\ Private!Next
  <2>1. /\ p \in born /\ {v} \subseteq Mapped(p) /\ \A w \in {v} : table[p][w].write
        /\ contents' = Filled(p, {v}, x)
        /\ UNCHANGED <<born, table, cow, used, refs, skel, frames, stale, astray>>
        /\ reading' = reading
    BY <1>1 DEF store, Runs
  <2>2. Inv'
    BY <2>1, FillKeepsInv
  <2>3. Private!Store(p, {v}, x)
    BY <2>1, FillIsStore
  <2> QED BY <2>1, <2>2, <2>3 DEF Private!Next
<1>2. ASSUME NEW p \in Procs, NEW v \in Pages, Runs(p), resolve_cow(p, v), UNCHANGED reading
      PROVE  Inv' /\ UNCHANGED Private!vars
  <2>1. p \in born /\ ReadsMayBe(p)
    <3>1. p \in born /\ reading \in [Procs -> SUBSET Pages] /\ reading' = reading
      BY <1>2 DEF Runs, Inv, TypeOK
    <3> QED BY <3>1 DEF ReadsMayBe
  <2> QED BY <1>2, <2>1, ResolveKeepsInv, ResolveKeepsMemory DEF Private!vars
<1>3. ASSUME NEW p \in Procs, NEW v \in Pages, pf_interrupt(p, v)
      PROVE  Inv' /\ UNCHANGED Private!vars
  BY <1>2, <1>3 DEF pf_interrupt
<1>4. ASSUME NEW p \in Procs, NEW v \in Pages, write(p, v)
      PROVE  Inv' /\ UNCHANGED Private!vars
  BY <1>2, <1>4 DEF write
<1>5. ASSUME NEW p \in Procs, NEW x \in Values, FinishRead(p, x)
      PROVE  Inv' /\ Private!Next
  <2>1. /\ p \in born /\ reading[p] \subseteq Mapped(p) /\ reading[p] \subseteq Pages
        /\ \A w \in reading[p] : table[p][w].write
        /\ contents' = Filled(p, reading[p], x) /\ reading' = [reading EXCEPT ![p] = {}]
        /\ UNCHANGED <<born, table, cow, used, refs, skel, frames, stale, astray>>
    BY <1>5 DEF FinishRead, Inv, TypeOK, ReadsReady, ReadsWhereWritable
  <2>2. Inv'
    BY <2>1, FillKeepsInv
  <2>3. Private!Store(p, reading[p], x)
    BY <2>1, FillIsStore
  <2> QED BY <2>1, <2>2, <2>3 DEF Private!Next
<1>6. ASSUME NEW p \in Procs, NEW q \in Procs, fork(p, q)
      PROVE  Inv' /\ Private!Next
  BY <1>6, ForkKeepsInv DEF Private!Next, fork, Runs
<1>7. ASSUME NEW p \in Procs, NEW q \in Procs, NEW v \in Pages, NEW x \in Values,
             spawn(p, q, v, x)
      PROVE  Inv' /\ Private!Next
  <2>1. p \in born /\ {v} \in SUBSET Pages
    BY <1>7 DEF spawn, Runs
  <2> QED BY <1>7, <2>1, SpawnKeepsInv DEF Private!Next
<1>8. ASSUME NEW p \in Procs, NEW first \in Pages, NEW n \in 1 .. MaxFrames, mmap(p, first, n)
      PROVE  Inv' /\ Private!Next
  BY <1>8, MmapKeepsInv DEF Private!Next, mmap, Runs
<1>9. ASSUME NEW p \in Procs, exec(p)
      PROVE  Inv' /\ Private!Next
  BY <1>9, ExecKeepsInv DEF Private!Next, exec, Runs
<1>10. CASE UNCHANGED vars
  <2>1. Inv'
    <3>1. TypeOK' /\ UnbornEmpty'
      BY <1>10 DEF vars, Inv, TypeOK, UnbornEmpty
    <3>2. ReadsReady'
      BY <1>10 DEF vars, Inv, ReadsReady, ReadsWhereWritable, Mapped
    <3>3. FramesGiven' /\ CowPages' /\ SharedByCow' /\ Counted'
      BY <1>10, SameTables DEF vars, Inv, FramesGiven
    <3> QED BY <3>1, <3>2, <3>3 DEF Inv
  <2> QED BY <1>10, <2>1 DEF vars, Private!vars, Memory
<1>11. ASSUME NEW p \in Procs, UseDeleted(p)
       PROVE  Inv' /\ UNCHANGED Private!vars
  <2>1. /\ UNCHANGED <<born, table, cow, used, refs, skel, frames, contents, reading, stale>>
        /\ astray' = TRUE
    BY <1>11 DEF UseDeleted
  <2>2. TypeOK' /\ UnbornEmpty'
    BY <2>1 DEF Inv, TypeOK, UnbornEmpty
  <2>3. ReadsReady'
    BY <2>1 DEF Inv, ReadsReady, ReadsWhereWritable, Mapped
  <2>4. FramesGiven' /\ CowPages' /\ SharedByCow' /\ Counted'
    BY <2>1, SameTables DEF Inv, FramesGiven
  <2> QED BY <2>1, <2>2, <2>3, <2>4 DEF Inv, Private!vars, Memory
<1>12. CASE Next
  BY <1>1, <1>3, <1>4, <1>5, <1>6, <1>7, <1>8, <1>9, <1>11, <1>12, ReadKeepsInv DEF Next
<1> QED BY <1>10, <1>12

-----------------------------------------------------------------------------
(* The theorems *)

THEOREM InvHolds == ASSUME ~AnyAddress PROVE Spec => []Inv
<1>1. Inv /\ [Next]_vars => Inv'
  BY StepInv
<1> QED BY InitInv, <1>1, PTL DEF Spec

\* A frame in two tables is write-protected in both and counted by one CoWPage:
\* whoever forks, faults, reads, maps, spawns and execs, cow_clone and resolve_cow
\* leave no table that can write to what another sees, as long as no deleted CoWPage
\* has been used.
THEOREM SharedAreProtected == ASSUME ~AnyAddress PROVE Spec => []SharedFramesProtected
<1>1. Inv => SharedFramesProtected
  <2> SUFFICES ASSUME Inv, NEW p \in Procs, NEW q \in Procs, NEW v \in Mapped(p), NEW w \in Mapped(q),
                      <<p, v>> # <<q, w>>, table[p][v].frame = table[q][w].frame
               PROVE  /\ ~table[p][v].write
                      /\ v = w /\ cow[p][v] = cow[q][w] /\ cow[p][v] # NoObject
    BY DEF SharedFramesProtected
  <2>1. v \in Pages /\ v = w /\ SameCow(p, q, v)
    BY DEF Inv, SharedByCow, Mapped
  <2> QED BY <2>1 DEF Inv, CowPages, SameCow
<1> QED BY <1>1, InvHolds, PTL

\* resolve_cow never takes the last holder's way while another table holds the
\* CoWPage: its count is never too low for those from whom it was not deleted.
THEOREM CountsSuffice == ASSUME ~AnyAddress PROVE Spec => []CountsEveryHolder
<1>1. Inv => CountsEveryHolder
  <2> SUFFICES ASSUME Inv, NEW c \in Objects, Holders(c) # {}
               PROVE  c \in used /\ refs[c] >= Cardinality(Holders(c))
    BY DEF CountsEveryHolder
  <2>1. PICK p \in Procs, v \in Pages : cow[p][v] = c /\ <<p, v>> \notin stale
    BY DEF Holders
  <2>2. c # NoObject
    BY DEF Objects, NoObject
  <2> QED BY <2>1, <2>2 DEF Inv, Counted, CowPages
<1> QED BY <1>1, InvHolds, PTL

\* What sys$read does not check, its callers' care makes true: the kernel stores
\* only where the process may, across the wait and any fork during it.
THEOREM ReadsStoreWhereWritable == ASSUME ~AnyAddress PROVE Spec => []ReadsWhereWritable
<1>1. Inv => ReadsWhereWritable
  BY DEF Inv, ReadsReady
<1> QED BY <1>1, InvHolds, PTL

\* Copy on write implements private memory: every fork, fault, store, read, mmap,
\* spawn and exec is a step of PrivateMemory or leaves what it describes alone, as
\* long as no deleted CoWPage has been used.
THEOREM CowIsPrivate == ASSUME ~AnyAddress PROVE Spec => IsPrivate
<1>1. Init => Private!Init
  BY InitInv
<1>2. Inv /\ [Next]_vars => [Private!Next]_(Private!vars)
  BY StepInv
<1> QED BY <1>1, <1>2, InvHolds, PTL DEF Spec, IsPrivate, Private!Spec
=============================================================================
