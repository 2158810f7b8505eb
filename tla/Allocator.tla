------------------------------- MODULE Allocator -------------------------------
(***************************************************************************)
(* What a heap promises: the blocks it has given out and not got back do   *)
(* not overlap, and every block is where it was given out.                 *)
(***************************************************************************)
EXTENDS Integers

VARIABLE blocks   \* blocks in use: where they begin and how long they are

Apart(b, c) == b.at + b.size <= c.at \/ c.at + c.size <= b.at

Init == blocks = {}

Allocate(at, size) ==
  LET block == [at |-> at, size |-> size] IN
    /\ size > 0 /\ \A b \in blocks : Apart(b, block)
    /\ blocks' = blocks \cup {block}

Free(b) == b \in blocks /\ blocks' = blocks \ {b}

\* realloc: the new block is found while the old one is in use.
Move(b, at, size) ==
  LET block == [at |-> at, size |-> size] IN
    /\ b \in blocks /\ size > 0 /\ \A c \in blocks : Apart(c, block)
    /\ blocks' = (blocks \ {b}) \cup {block}

\* The block that has come in this step, if any.
Come == blocks' \ blocks

Next ==
  \/ \E b \in Come : Allocate(b.at, b.size)
  \/ \E b \in blocks : Free(b) \/ \E c \in Come : Move(b, c.at, c.size)

Spec == Init /\ [][Next]_blocks
=============================================================================
