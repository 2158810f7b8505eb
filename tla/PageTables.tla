------------------------------ MODULE PageTables ------------------------------
(***************************************************************************)
(* Page directories and the levels of page tables under them: how pages    *)
(* are mapped, how a new process shares the kernel's tables, and how fork  *)
(* copies those of the user.                                               *)
(*                                                                         *)
(* A virtual page is the sequence of its indices, one a level.  A table is *)
(* read and written as a copy through one window (fetch, commit), with     *)
(* interrupts off.  Tables are never freed, and come cleared from the      *)
(* machine: nothing clears them.                                           *)
(***************************************************************************)
EXTENDS Integers, Sequences, SequencesExt, FiniteSets

CONSTANTS
  Procs,
  Levels,       \* 4
  Indices,      \* 0..511
  UserPages, KernelPages,  \* virtual pages, under different entries of a directory
  Pages,        \* physical pages
  NoEntry,
  MaxTables     \* bound: tables that are allocated

\* A PageSkellington that is present.
Skel(addr, user, write) == [addr |-> addr, user |-> user, write |-> write]
AnyEntry == [addr : Nat \cup Pages, user : BOOLEAN, write : BOOLEAN]

\* The entries of a directory that are the kernel's.
Tops == {v[1] : v \in KernelPages}

\* A page has an index a level, and the user's lie under other entries than the kernel's.
Directories ==
  /\ Levels \in Nat /\ Levels >= 2
  /\ IsFiniteSet(Indices)
  /\ UserPages \in SUBSET [1 .. Levels -> Indices]
  /\ KernelPages \in SUBSET [1 .. Levels -> Indices]
  /\ \A v \in UserPages : v[1] \notin Tops
  /\ NoEntry \notin AnyEntry

VARIABLES
  tables,  \* the levels of all directories, in the order they are allocated
  m_pglv   \* of each process: the number of its directory, or 0

vars == <<tables, m_pglv>>

Cleared == [i \in Indices |-> NoEntry]
Kernel == 1
Exists(p) == m_pglv[p] # 0

\* The entries that a path leads through from a directory on, up to one that is not present.
Walk(levels, root, path) ==
  LET walk[k \in 0 .. Len(path)] ==
        IF k = 0 THEN Skel(root, TRUE, TRUE)
        ELSE IF walk[k - 1] = NoEntry THEN NoEntry
        ELSE levels[walk[k - 1].addr][path[k]]
  IN walk

Entry(root, path) == Walk(tables, root, path)[Len(path)]

\* The kernel's directory, with a table that boot has made under each of its entries.
Init ==
  /\ LET tops == SetToSeq(Tops)
         table(i) == 1 + CHOOSE n \in DOMAIN tops : tops[n] = i
     IN tables = <<[i \in Indices |-> IF \E n \in DOMAIN tops : tops[n] = i
                                        THEN Skel(table(i), FALSE, TRUE) ELSE NoEntry]>>
                 \o [n \in DOMAIN tops |-> Cleared]
  /\ m_pglv = [p \in Procs |-> 0]

-----------------------------------------------------------------------------
(* map_page and map_page_user *)

\* The levels of page v that have no table yet.
MissingTables(root, v) ==
  {k \in 1 .. Levels - 1 : Entry(root, SubSeq(v, 1, k)) = NoEntry}

\* An entry on the way to a page gets the page's rights added.
Widened(entry, user, write) ==
  [entry EXCEPT !.user = @ \/ user, !.write = @ \/ write]

\* The tables once v is mapped: those missing on the way are taken from m_level_allocator.
Mapped(root, v, page, user, write) ==
  LET missing == MissingTables(root, v)
      first   == Levels - Cardinality(missing)   \* the first level whose entry is missing
      node(k) == IF k <= first THEN Entry(root, SubSeq(v, 1, k - 1)).addr
                 ELSE Len(tables) + k - first
      entry(k) == IF k = Levels THEN Skel(page, user, write)
                  ELSE IF k \in missing THEN Skel(node(k + 1), user, write)
                  ELSE Widened(Entry(root, SubSeq(v, 1, k)), user, write)
      all == tables \o [k \in 1 .. Cardinality(missing) |-> Cleared]
  IN [t \in DOMAIN all |-> [i \in Indices |->
       IF \E k \in 1 .. Levels : t = node(k) /\ i = v[k]
         THEN entry(CHOOSE k \in 1 .. Levels : t = node(k)) ELSE all[t][i]]]

map_page_user(p, v, page, write) ==
  /\ Exists(p)
  /\ tables' = Mapped(m_pglv[p], v, page, TRUE, write)
  /\ UNCHANGED m_pglv

\* The kernel maps a page of its own, in the directory that is loaded.
map_page(root, v, page) ==
  /\ tables' = Mapped(root, v, page, FALSE, TRUE)
  /\ UNCHANGED m_pglv

\* resolve_cow makes a page writable, with a page of the process's own if it is shared.
resolve_cow(p, v, page) ==
  LET e == Entry(m_pglv[p], v)
      leaf == Entry(m_pglv[p], Front(v)).addr
  IN /\ Exists(p) /\ e # NoEntry
     /\ tables' = [tables EXCEPT ![leaf][Last(v)] = [e EXCEPT !.addr = page, !.write = TRUE]]
     /\ UNCHANGED m_pglv

-----------------------------------------------------------------------------
(* clone and cow_clone *)

\* clone: the entries of the kernel's directory that are not the user's.
create_user(p) ==
  /\ tables' = Append(tables, [i \in Indices |->
       LET e == tables[Kernel][i] IN IF e # NoEntry /\ ~e.user THEN e ELSE NoEntry])
  /\ m_pglv' = [m_pglv EXCEPT ![p] = Len(tables')]

\* Mutants of IsCopied: the kernel's tables are copied too; tables of pages are shared.
IsCopiedAlways(e) == e # NoEntry
IsCopiedAbove(e) == e # NoEntry /\ e.user /\ \E i \in Indices : \E t \in DOMAIN tables :
  tables[t][i] = e /\ t \in {m_pglv[p] : p \in Procs}

\* Does cow_clone copy what is below an entry?
IsCopied(e) == e # NoEntry /\ e.user

\* An entry for a page of the user's, in the parent as in the child.
Protected(e) == IF IsCopied(e) THEN [e EXCEPT !.write = FALSE] ELSE e

\* The paths to the tables of a directory that are copied, itself among them, from the top.
CopiedPaths(root) ==
  {path \in UNION {[1 .. k -> Indices] : k \in 0 .. Levels - 1} :
     \A k \in 1 .. Len(path) : IsCopied(Entry(root, SubSeq(path, 1, k)))}

\* cow_clone: fresh tables for those of the user, in which, as in the parent's, pages
\* are not writable.  Entries that are not the user's are taken over as they are.
cow_clone(p, q) ==
  LET root   == m_pglv[p]
      paths  == SetToSeq(CopiedPaths(root))
      fresh(path) == Len(tables) + CHOOSE n \in DOMAIN paths : paths[n] = path
      table(path) == tables[Entry(root, path).addr]
      copy(path) == [i \in Indices |->
        LET e == table(path)[i] IN
        IF ~IsCopied(e) THEN e
        ELSE IF Len(path) < Levels - 1 THEN [e EXCEPT !.addr = fresh(Append(path, i))]
        ELSE Protected(e)]
      leaves == {Entry(root, path).addr : path \in {x \in CopiedPaths(root) : Len(x) = Levels - 1}}
  IN /\ Exists(p) /\ ~Exists(q)
     /\ tables' = [t \in DOMAIN tables |->
                     IF t \in leaves THEN [i \in Indices |-> Protected(tables[t][i])]
                     ELSE tables[t]]
                  \o [n \in DOMAIN paths |-> copy(paths[n])]
     /\ m_pglv' = [m_pglv EXCEPT ![q] = fresh(<<>>)]

Roots == {Kernel} \cup {m_pglv[p] : p \in {x \in Procs : Exists(x)}}

Next ==
  /\ \/ \E p \in Procs :
          \/ \E v \in UserPages, page \in Pages : map_page_user(p, v, page, TRUE)
          \/ \E v \in UserPages, page \in Pages : resolve_cow(p, v, page)
          \/ create_user(p)
          \/ \E q \in Procs : cow_clone(p, q)
     \/ \E root \in Roots, v \in KernelPages, page \in Pages : map_page(root, v, page)
  /\ Len(tables') <= MaxTables

Spec == Init /\ [][Next]_vars

-----------------------------------------------------------------------------
(* Properties *)

\* What the processor makes of a page: the rights of all its entries together.
Translate(root, v) ==
  LET e == Walk(tables, root, v) IN
  IF root = 0 \/ e[Levels] = NoEntry THEN NoEntry
  ELSE Skel(e[Levels].addr, \A k \in 1 .. Levels : e[k].user, \A k \in 1 .. Levels : e[k].write)

Unwritable(e) == IF e = NoEntry THEN e ELSE [e EXCEPT !.write = FALSE]

\* The tables of all processes together are separate maps of user pages and one map of
\* the kernel's: what one process maps, resolves or inherits changes no other's map, with
\* tables made and copied on the way, and a page may be used as its mapping says.
Spaces == INSTANCE AddressSpaces WITH
  Entries <- [addr : Pages, user : {TRUE}, write : BOOLEAN],
  KernelEntries <- [addr : Pages, user : {FALSE}, write : {TRUE}],
  Protected <- Unwritable,
  user <- [p \in Procs |-> [v \in UserPages |-> Translate(m_pglv[p], v)]],
  kernel <- [v \in KernelPages |-> Translate(Kernel, v)]
IsSpaces == Spaces!Spec

\* Every directory translates the kernel's pages alike, also those mapped after it was
\* made and through another one, and the user may use none of them.
KernelAlike ==
  \A root \in Roots, v \in KernelPages :
    /\ Translate(root, v) = Translate(Kernel, v)
    /\ Translate(root, v) # NoEntry => ~Translate(root, v).user
=============================================================================
