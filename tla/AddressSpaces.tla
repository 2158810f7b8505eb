---------------------------- MODULE AddressSpaces ----------------------------
(***************************************************************************)
(* What page tables promise: a map of its own for each process, and one    *)
(* map of the kernel's pages for all.                                      *)
(***************************************************************************)
CONSTANTS Procs, UserPages, KernelPages, Entries, KernelEntries, NoEntry, Protected(_)

VARIABLES user, kernel

Empty == [v \in UserPages |-> NoEntry]

Init == user = [p \in Procs |-> Empty] /\ kernel \in [KernelPages -> KernelEntries \cup {NoEntry}]

\* What may become of the users' maps: one page of one process is mapped, a process starts
\* anew, or a child is given its parent's map, in which neither may write from then on.
Changed(old, new) ==
  \E p \in Procs :
    \/ \E v \in UserPages, e \in Entries : new = [old EXCEPT ![p][v] = e]
    \/ new = [old EXCEPT ![p] = Empty]
    \/ \E q \in Procs \ {p} :
         LET shared == [v \in UserPages |-> Protected(old[p][v])] IN
         new = [old EXCEPT ![p] = shared, ![q] = shared]

MapKernel(v, e) == kernel' = [kernel EXCEPT ![v] = e]

Next ==
  \/ (\E old \in {user}, new \in {user'} : Changed(old, new)) /\ UNCHANGED kernel
  \/ (\E v \in KernelPages, e \in KernelEntries : MapKernel(v, e)) /\ UNCHANGED user

Spec == Init /\ [][Next]_<<user, kernel>>
=============================================================================
