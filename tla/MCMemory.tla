------------------------------- MODULE MCMemory -------------------------------
(* The memory's structures for TLC. *)
EXTENDS Memory

\* Sizes for which the libc's heap maps enough.
ASSUME GrowthAssumption == Heaps!RoomToGrow

\* Four keys of a hash of three bits, of which two begin alike twice.
MCHash == <<0, 1, 5, 6>>

\* Three levels: two pages of one table, and a third of a second table.
MCUserPages == {<<1, 0, 0>>, <<1, 0, 1>>, <<1, 1, 0>>}
MCKernelPages == {<<0, 0, 0>>}
=============================================================================
