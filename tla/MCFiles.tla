------------------------------- MODULE MCFiles --------------------------------
(* Files for TLC, where the names on the disk are alike, and so are the free addresses to
   which nothing points: of those, the first is offered. *)
EXTENDS Files, TLC

Alike == Permutations(Names)
DanglingOrFirst(free, pointed) ==
  {a \in free : a \in pointed \/ \A b \in free \ pointed : a <= b}
=============================================================================
