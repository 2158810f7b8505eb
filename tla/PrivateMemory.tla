----------------------------- MODULE PrivateMemory -----------------------------
(***************************************************************************)
(* What fork, exec, mmap and stores promise a process about its memory:    *)
(* it is its own.  A child begins with its parent's contents, and from     *)
(* then on nobody's store is seen by anybody else.                         *)
(***************************************************************************)
CONSTANTS
  Procs,     \* processes that may be born
  Root,      \* the first of them
  Pages,     \* virtual pages
  Values,    \* what a page may contain
  Zero,      \* what a cleared page contains
  Image,     \* the pages a program begins with
  Unmapped   \* no page

VARIABLES
  born,      \* processes that exist or have existed
  memory     \* what a process finds at a page

vars == <<born, memory>>

Program == [v \in Pages |-> IF v \in Image THEN Zero ELSE Unmapped]
Nothing == [v \in Pages |-> Unmapped]
Mapped(p) == {v \in Pages : memory[p][v] # Unmapped}

Init ==
  /\ born = {Root}
  /\ memory = [p \in Procs |-> IF p = Root THEN Program ELSE Nothing]

\* p's memory once p, or the kernel on its behalf, has stored x in some pages.
Stored(p, pages, x) == [v \in Pages |-> IF v \in pages THEN x ELSE memory[p][v]]

Store(p, pages, x) ==
  /\ pages \subseteq Mapped(p)
  /\ memory' = [memory EXCEPT ![p] = Stored(p, pages, x)]
  /\ UNCHANGED born

\* A new process begins with a program; its creator receives its pid.
Spawn(p, q, pages, x) ==
  /\ q \notin born /\ pages \subseteq Mapped(p)
  /\ born' = born \cup {q}
  /\ memory' = [memory EXCEPT ![p] = Stored(p, pages, x), ![q] = Program]

Fork(p, q) ==
  /\ q \notin born
  /\ born' = born \cup {q}
  /\ memory' = [memory EXCEPT ![q] = memory[p]]

\* New pages, and mapped ones anew.
Map(p, pages) ==
  /\ memory' = [memory EXCEPT ![p] = Stored(p, pages, Zero)]
  /\ UNCHANGED born

Exec(p) ==
  /\ memory' = [memory EXCEPT ![p] = Program]
  /\ UNCHANGED born

Next ==
  \E p \in born :
    \/ \E pages \in SUBSET Pages, x \in Values :
         \/ Store(p, pages, x)
         \/ \E q \in Procs : Spawn(p, q, pages, x)
    \/ \E q \in Procs : Fork(p, q)
    \/ \E pages \in SUBSET Pages : Map(p, pages)
    \/ Exec(p)

Spec == Init /\ [][Next]_vars
=============================================================================
