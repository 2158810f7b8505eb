------------------------------- MODULE CowMemory -------------------------------
(***************************************************************************)
(* Copy on write.  fork shares every page of the caller with its child,    *)
(* takes the Write flag from both tables and counts the tables that hold a *)
(* page in a CoWPage; the first store of each of them faults, and          *)
(* Process::resolve_cow gives it a copy, or the page itself when it is the *)
(* last.  exec and death leave the counts as they are, so a count may only *)
(* be too high.                                                            *)
(*                                                                         *)
(* Frames come from the frame allocator, which never gives one twice, and  *)
(* are cleared memory.  The kernel writes with CR0.WP clear: the Write     *)
(* flag does not stop it, and sys$read resolves only a page that begins at *)
(* the buffer's very address.                                              *)
(*                                                                         *)
(* The tables m_cow_tbl are taken for maps, but for one thing: the last    *)
(* holder's way removes a page from its table and then deletes what the    *)
(* slot of the page points to, which may be the CoWPage of another page.   *)
(* Holders of a CoWPage deleted in this way are stale; once one of them    *)
(* is used the kernel is astray, and nothing more is said.                 *)
(***************************************************************************)
EXTENDS Integers, FiniteSets, Functions

CONSTANTS
  Procs,       \* processes that may be born
  Root,        \* the first of them
  PageCount,   \* virtual pages
  ImageSize,   \* pages a program begins with
  Values,      \* what a page may contain
  Zero,        \* what a cleared page contains
  Unmapped,    \* no page
  MaxFrames,   \* frames of memory; when they are used up the kernel panics
  MaxObjects,  \* bound: CoWPage objects that exist at a time
  AnyAddress   \* programs pass buffers and ranges that the kernel does not look at

ASSUME ProcsAssumption == Root \in Procs /\ IsFiniteSet(Procs)
ASSUME PagesAssumption == PageCount \in Nat /\ ImageSize \in 0 .. PageCount
ASSUME ValuesAssumption == Zero \in Values /\ Unmapped \notin Values
ASSUME SizesAssumption == MaxFrames \in Nat /\ ImageSize <= MaxFrames /\ MaxObjects \in Nat
ASSUME AddressesAssumption == AnyAddress \in BOOLEAN

Pages    == 0 .. PageCount - 1
Image    == 0 .. ImageSize - 1
Frames   == 0 .. MaxFrames - 1
NoFrame  == MaxFrames
Objects  == 1 .. MaxObjects
NoObject == 0

VARIABLES
  born,      \* processes constructed so far
  table,     \* page tables: frame and Write flag
  cow,       \* m_cow_tbl: the CoWPage of a page
  used,      \* CoWPage objects that are allocated
  refs,      \* CoWPage::refs
  skel,      \* CoWPage::skel, its frame
  frames,    \* frames given away by the allocator
  contents,  \* what is in a frame
  reading,   \* the pages that a read in progress will store in
  stale,     \* the pages of processes whose CoWPage was deleted under them
  astray     \* the kernel has used a deleted CoWPage

vars == <<born, table, cow, used, refs, skel, frames, contents, reading, stale, astray>>

Entry(frame, write) == [frame |-> frame, write |-> write]
NoEntry == Entry(NoFrame, FALSE)

Mapped(p) == {v \in Pages : table[p][v].frame # NoFrame}

\* p runs user code.
Runs(p) == p \in born /\ reading[p] = {}

-----------------------------------------------------------------------------
\* create_user: a table with a fresh frame for each page of the program.
ProgramTable(base) ==
  [v \in Pages |-> IF v \in Image THEN Entry(base + v, TRUE) ELSE NoEntry]
NoTable == [v \in Pages |-> NoEntry]
NoCow   == [v \in Pages |-> NoObject]

Init ==
  /\ born = {Root}
  /\ table = [p \in Procs |-> IF p = Root THEN ProgramTable(0) ELSE NoTable]
  /\ cow = [p \in Procs |-> NoCow]
  /\ used = {}
  /\ refs = [c \in Objects |-> 0]
  /\ skel = [c \in Objects |-> 0]
  /\ frames = ImageSize
  /\ contents = [f \in Frames |-> Zero]
  /\ reading = [p \in Procs |-> {}]
  /\ stale = {}
  /\ astray = FALSE

\* Mutant of LastHolder: off by one.
TwoHolders(c) == refs[c] <= 2

LastHolder(c) == refs[c] = 1

\* The CoWPage that `delete *cow_page' finds once page v has been removed: its own
\* when v was alone in its bucket, that of another page when the next entry of the
\* chain has moved into the slot, and none, as freed memory is cleared, when v was
\* itself a later entry.
Deletable(p, v) == {cow[p][w] : w \in {w \in Pages : <<p, w>> \notin stale}} \cup {NoObject}

\* Who else holds a CoWPage that is not p's own at v.
OtherHolders(p, v, c) ==
  IF c \in {cow[p][v], NoObject} THEN {} ELSE {e \in Procs \X Pages : cow[e[1]][e[2]] = c}

\* Mutant of TakeOver: the page stays write-protected.
TakeOverReadOnly(p, v) ==
  /\ refs' = [refs EXCEPT ![cow[p][v]] = 0]
  /\ used' = used \ {cow[p][v]}
  /\ UNCHANGED <<table, frames, contents, stale>>

\* Process::resolve_cow, its last holder's way and the copy.
TakeOver(p, v) ==
  \E deleted \in Deletable(p, v) :
    /\ table' = [table EXCEPT ![p][v] = Entry(@.frame, TRUE)]
    /\ refs' = [refs EXCEPT ![cow[p][v]] = 0]
    /\ used' = used \ {deleted}
    /\ stale' = stale \cup OtherHolders(p, v, deleted)
    /\ UNCHANGED <<frames, contents>>
CopyPage(p, v) ==
  /\ frames < MaxFrames
  /\ table' = [table EXCEPT ![p][v] = Entry(frames, TRUE)]
  /\ contents' = [contents EXCEPT ![frames] = contents[skel[cow[p][v]]]]
  /\ frames' = frames + 1
  /\ refs' = [refs EXCEPT ![cow[p][v]] = @ - 1]
  /\ UNCHANGED <<used, stale>>
resolve_cow(p, v) ==
  /\ cow[p][v] # NoObject /\ <<p, v>> \notin stale
  /\ IF LastHolder(cow[p][v]) THEN TakeOver(p, v) ELSE CopyPage(p, v)
  /\ cow' = [cow EXCEPT ![p][v] = NoObject]
  /\ UNCHANGED <<born, skel, astray>>

\* A fault, a call that resolves, deletes or forks comes upon a CoWPage that was
\* deleted: it reads and writes whatever has that memory now.
UseDeleted(p) ==
  /\ Runs(p) /\ \E v \in Pages : <<p, v>> \in stale
  /\ astray' = TRUE
  /\ UNCHANGED <<born, table, cow, used, refs, skel, frames, contents, reading, stale>>

\* Contents once x has been stored in some pages of p.
Filled(p, pages, x) ==
  [f \in Frames |-> IF \E v \in pages : table[p][v].frame = f THEN x ELSE contents[f]]

\* User code stores x where the Write flag lets it.
store(p, v, x) ==
  /\ Runs(p) /\ v \in Mapped(p) /\ table[p][v].write
  /\ contents' = Filled(p, {v}, x)
  /\ UNCHANGED <<born, table, cow, used, refs, skel, frames, reading, stale, astray>>

\* pf_interrupt on a store where it does not: the store is tried again.
pf_interrupt(p, v) ==
  /\ Runs(p) /\ v \in Mapped(p) /\ ~table[p][v].write
  /\ resolve_cow(p, v)
  /\ UNCHANGED reading

\* sys$write, and sys$exec before it does anything else, resolve the page at
\* whose beginning their argument lies.
write(p, v) ==
  /\ Runs(p) /\ resolve_cow(p, v) /\ UNCHANGED reading

\* A buffer is a page, lies inside one, or begins with one and is longer; the
\* kernel resolves the page it begins with.
Covered(v, kind)  == IF kind = "long" THEN {v, v + 1} ELSE {v}
Resolved(v, kind) == IF kind = "inside" THEN {} ELSE {v}

\* Will the kernel store in pages the process may write to?
Careful(p, v, kind) ==
  \A w \in Covered(v, kind) \ Resolved(v, kind) : table[p][w].write

\* sys$read up to its wait; stat, fstat, gettimeofday, poll and ioctl, which
\* store a result, do the same and do not wait.
read(p, v, kind) ==
  /\ Runs(p) /\ Covered(v, kind) \subseteq Mapped(p)
  /\ AnyAddress \/ Careful(p, v, kind)
  /\ reading' = [reading EXCEPT ![p] = Covered(v, kind)]
  /\ IF v \in Resolved(v, kind) /\ cow[p][v] # NoObject
       THEN resolve_cow(p, v)
       ELSE UNCHANGED <<born, table, cow, used, refs, skel, frames, contents, stale, astray>>

\* The rest of it: the kernel stores what was read.
FinishRead(p, x) ==
  /\ p \in born /\ reading[p] # {}
  /\ contents' = Filled(p, reading[p], x)
  /\ reading' = [reading EXCEPT ![p] = {}]
  /\ UNCHANGED <<born, table, cow, used, refs, skel, frames, stale, astray>>

\* Mutant of SharedEntries: the caller keeps its Write flag.
ParentWrites(p, q) ==
  [table EXCEPT ![q] = [v \in Pages |-> Entry(table[p][v].frame, FALSE)]]

\* Both tables after cow_clone.
SharedEntries(p, q) ==
  LET entries == [v \in Pages |-> Entry(table[p][v].frame, FALSE)] IN
    [table EXCEPT ![p] = entries, ![q] = entries]

\* Mutant of CountedRefs: a page that is shared already is not counted again.
CountedOnce(c, fresh, held) == IF c \in fresh THEN 2 ELSE refs[c]

\* CoWPage::refs after cow_clone: 1 for the caller if it is fresh, and 1 for each
\* page at which the child now holds it.
CountedRefs(c, fresh, held) == (IF c \in fresh THEN 1 ELSE refs[c]) + Cardinality(held)

\* sys$fork: Process::fork and Paging::cow_clone.
fork(p, q) ==
  LET new == {v \in Mapped(p) : cow[p][v] = NoObject} IN
    /\ Runs(p) /\ q \in Procs \ born
    /\ \A v \in Pages : <<p, v>> \notin stale
    /\ born' = born \cup {q}
    /\ table' = SharedEntries(p, q)
    /\ \E object \in Injection(new, Objects \ used) :
         LET held  == [v \in Pages |-> IF v \in new THEN object[v] ELSE cow[p][v]]
             fresh == Range(object)
         IN /\ cow' = [cow EXCEPT ![p] = held, ![q] = held]
            /\ used' = used \cup fresh
            /\ refs' = [c \in Objects |->
                          CountedRefs(c, fresh, {v \in Mapped(p) : held[v] = c})]
            /\ skel' = [c \in Objects |->
                          IF c \in fresh
                            THEN table[p][CHOOSE v \in new : object[v] = c].frame
                            ELSE skel[c]]
    /\ UNCHANGED <<frames, contents, reading, stale, astray>>

\* sys$mmap of n pages.  Whether it finds one of them mapped is read from beyond a
\* page level (get_page_flags does not mask its indices): it may give up after any
\* of them, and it may map one again, whose entry in m_cow_tbl it leaves.
mmap(p, first, n) ==
  /\ Runs(p) /\ first .. first + n - 1 \subseteq Pages
  /\ AnyAddress \/ \A v \in first .. first + n - 1 : cow[p][v] = NoObject
  /\ frames + n <= MaxFrames
  /\ frames' = frames + n
  /\ \E k \in 0 .. n :
       table' = [table EXCEPT ![p] = [v \in Pages |->
         IF v \in first .. first + k - 1 THEN Entry(frames + (v - first), TRUE) ELSE @[v]]]
  /\ UNCHANGED <<born, cow, used, refs, skel, contents, reading, stale, astray>>

\* sys$spawn builds a process and stores its pid through a pointer, without a
\* look at m_cow_tbl.
spawn(p, q, v, x) ==
  /\ Runs(p) /\ q \in Procs \ born /\ frames + ImageSize <= MaxFrames
  /\ v \in Mapped(p) /\ (AnyAddress \/ table[p][v].write)
  /\ born' = born \cup {q}
  /\ frames' = frames + ImageSize
  /\ table' = [table EXCEPT ![q] = ProgramTable(frames)]
  /\ contents' = Filled(p, {v}, x)
  /\ UNCHANGED <<cow, used, refs, skel, reading, stale, astray>>

\* exec copies the fresh process, with an empty m_cow_tbl, over the caller.
exec(p) ==
  /\ Runs(p) /\ frames + ImageSize <= MaxFrames
  /\ frames' = frames + ImageSize
  /\ table' = [table EXCEPT ![p] = ProgramTable(frames)]
  /\ cow' = [cow EXCEPT ![p] = NoCow]
  /\ stale' = stale \ ({p} \X Pages)
  /\ UNCHANGED <<born, used, refs, skel, contents, reading, astray>>

Next ==
  ~astray /\ \E p \in Procs :
    \/ \E v \in Pages :
         \/ \E x \in Values : store(p, v, x)
         \/ pf_interrupt(p, v)
         \/ write(p, v)
         \/ \E kind \in {"page", "inside", "long"} : read(p, v, kind)
    \/ \E x \in Values : FinishRead(p, x)
    \/ \E q \in Procs : \/ fork(p, q)
                        \/ \E v \in Pages, x \in Values : spawn(p, q, v, x)
    \/ \E first \in Pages, n \in 1 .. MaxFrames : mmap(p, first, n)
    \/ exec(p)
    \/ UseDeleted(p)

Spec == Init /\ [][Next]_vars

-----------------------------------------------------------------------------
(* Properties *)

\* Memory as PrivateMemory describes it: what a process finds through its table.
Memory == [p \in Procs |-> [v \in Pages |->
  IF table[p][v].frame = NoFrame THEN Unmapped ELSE contents[table[p][v].frame]]]

Private == INSTANCE PrivateMemory WITH memory <- Memory

\* Copy on write is invisible: fork, the faults that resolve it, read, mmap and
\* exec treat the memory of each process as its own, as long as no deleted CoWPage
\* is used.
IsPrivate == Private!Spec

\* A frame that two tables hold is held at one page by the same CoWPage, and
\* neither may write to it, until the kernel goes astray.
SharedFramesProtected ==
  ~astray => \A p, q \in Procs : \A v, w \in Pages :
    /\ v \in Mapped(p) /\ w \in Mapped(q) /\ <<p, v>> # <<q, w>>
    /\ table[p][v].frame = table[q][w].frame
    => /\ ~table[p][v].write
       /\ v = w /\ cow[p][v] = cow[q][w] /\ cow[p][v] # NoObject

\* The pages that a read in progress will store in may be written to, which is
\* what sys$read does not check.
ReadsWhereWritable == \A p \in Procs : \A v \in reading[p] : table[p][v].write

\* A CoWPage counts at least the tables that hold it, whoever was forked from
\* whom and whoever has taken its copy since: the count says 1 only to the last.
\* The one exception are those from which resolve_cow has deleted it in the place
\* of another.
Holders(c) == {p \in Procs : \E v \in Pages : cow[p][v] = c /\ <<p, v>> \notin stale}
CountsEveryHolder ==
  \A c \in Objects : Holders(c) # {} => c \in used /\ refs[c] >= Cardinality(Holders(c))
=============================================================================
