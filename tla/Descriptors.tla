----------------------------- MODULE Descriptors -----------------------------
(***************************************************************************)
(* Descriptor tables, FileHandles and the size and position of files: what *)
(* open, close, read, write, lseek, fork, spawn and exec do to them.       *)
(*                                                                         *)
(* A table holds pointers to FileHandles.  copy_handles copies as many     *)
(* bytes of it as there are descriptors, not as many pointers: the first   *)
(* pointers become those of the other process, and the next may be mixed   *)
(* from two.  Null is the pointer of a closed descriptor.  A FileHandle    *)
(* that is deleted leaves its address to the heap, which may give it to    *)
(* the next one, while other descriptors still point there.                *)
(***************************************************************************)
EXTENDS Integers

CONSTANTS
  Procs, Root,  \* processes, and the one there is at start
  Nodes,        \* nodes of regular files
  Tty,          \* the node of the terminal, which has no position
  FdLim,        \* FD_LIM
  Std,          \* descriptors that a Process is constructed with: 3
  Stderr,       \* the one on which write does nothing: 2
  PtrBytes,     \* bytes of a pointer: 8
  Distinct,     \* low bytes in which the addresses of two handles may differ
  Addresses,    \* bound: where the heap may place FileHandles
  Offered(_, _),  \* those it may give, of the free ones, when some are still pointed to
  MaxCounter,   \* bound: opens of a process and its ancestors
  Word          \* bound: positions and sizes wrap at this number

\* A table holds at least the first descriptors.
Sized ==
  /\ FdLim \in Nat /\ Std \in 0 .. FdLim /\ Word \in Nat \ {0}
  /\ PtrBytes \in Nat \ {0} /\ Distinct \in Nat \ {0}
  /\ Root \in Procs /\ Tty \notin Nodes
  /\ Addresses \subseteq Nat \ {0} /\ 1 .. Std \subseteq Addresses
  /\ \A free \in SUBSET Addresses, pointed \in SUBSET Addresses :
       Offered(free, pointed) \subseteq free

Null == 0
Mixed == -1     \* a pointer mixed from two
Fds == 0 .. FdLim - 1

VARIABLES
  m_file_handles,         \* per process and descriptor, an address, Null or Mixed
  m_file_handle_counter,  \* per process; 0 before it exists
  handle,                 \* the FileHandle at each address: node and m_position
  size,                   \* size_low of each file
  fault,                  \* the kernel has used Null, Mixed or a freed handle
  stale                   \* history: the descriptors whose FileHandle a close of another
                          \* descriptor has deleted

tableVars == <<m_file_handles, m_file_handle_counter, handle, size, fault, stale>>

FileHandle(node, pos) == [node |-> node, pos |-> pos]
Nothing == FileHandle(Tty, -1)   \* there is no FileHandle at the address
Made == {a \in Addresses : handle[a] # Nothing}
Started(p) == m_file_handle_counter[p] > 0

\* The heap gives n new FileHandles, one after the other, addresses at which there is none.
Pointed == {m_file_handles[p][fd] : p \in Procs, fd \in Fds} \cap Addresses
OfferedNow(given) == Offered((Addresses \ Made) \ given, Pointed)
New(n) == {at \in [0 .. n - 1 -> Addresses \ Made] :
             \A i \in 0 .. n - 1 : at[i] \in OfferedNow({at[j] : j \in 0 .. i - 1})}

\* The handles after new ones have been made: made[i] at the address at[i].
Placed(at, made) ==
  [a \in Addresses |-> IF \E i \in DOMAIN at : at[i] = a
                         THEN made[CHOOSE i \in DOMAIN at : at[i] = a] ELSE handle[a]]

\* A table with the first pointers at these addresses.
TableOf(at) == [fd \in Fds |-> IF fd \in DOMAIN at THEN at[fd] ELSE Null]

\* Process::Process: the first handles are on the terminal.
StdHandle(i) == FileHandle(Tty, 0)

TablesInit ==
  /\ handle = [a \in Addresses |-> IF a \in 1 .. Std THEN StdHandle(a) ELSE Nothing]
  /\ m_file_handles = [p \in Procs |->
       IF p = Root THEN TableOf([i \in 0 .. Std - 1 |-> i + 1]) ELSE [fd \in Fds |-> Null]]
  /\ m_file_handle_counter = [p \in Procs |-> IF p = Root THEN Std ELSE 0]
  /\ size = [f \in Nodes |-> 0] /\ fault = FALSE /\ stale = {}

-----------------------------------------------------------------------------
(* The calls on one descriptor *)

\* Mutant of FreeSlot: the slots after the first descriptors are taken for free.
NextSlot(p) == m_file_handle_counter[p] % FdLim

\* push_handle: the next slot, or once all have been used the first closed one.
FreeSlot(p) ==
  IF m_file_handle_counter[p] < FdLim THEN m_file_handle_counter[p]
  ELSE CHOOSE fd \in Fds : /\ m_file_handles[p][fd] = Null
                           /\ \A x \in 0 .. fd - 1 : m_file_handles[p][x] # Null

\* sys$open: a position at the start, or at the end; opening to write truncates the file.
\* With no descriptor left the kernel panics.
sys_open(p, f, mode) ==
  /\ Started(p) /\ m_file_handle_counter[p] < MaxCounter
  /\ size' = IF mode = "write" THEN [size EXCEPT ![f] = 0] ELSE size
  /\ IF m_file_handle_counter[p] >= FdLim /\ \A fd \in Fds : m_file_handles[p][fd] # Null
       THEN fault' = TRUE /\ UNCHANGED <<handle, m_file_handles, m_file_handle_counter>>
       ELSE /\ \E a \in OfferedNow({}) :
                 /\ handle' = [handle EXCEPT ![a] =
                                FileHandle(f, IF mode = "append" THEN size[f] ELSE 0)]
                 /\ m_file_handles' = [m_file_handles EXCEPT ![p][FreeSlot(p)] = a]
            /\ m_file_handle_counter' = [m_file_handle_counter EXCEPT ![p] = @ + 1]
            /\ UNCHANGED fault
  /\ UNCHANGED stale

\* What calls accept as a descriptor; past the end of the table lies something else.
Accepted(p, fd) == fd < m_file_handle_counter[p]
Good(p, fd) == Accepted(p, fd) /\ fd \in Fds /\ m_file_handles[p][fd] \in Made

\* A call on a pointer that is mixed or past the table or to a freed FileHandle, an lseek,
\* write or fork also on Null; what the kernel does then is not followed.  (read, close and
\* poll return from Null; read too from a freed FileHandle whose memory is still empty.)
Fault(p) ==
  /\ \E fd \in 0 .. m_file_handle_counter[p] - 1 : ~Good(p, fd)
  /\ fault' = TRUE
  /\ UNCHANGED <<m_file_handles, m_file_handle_counter, handle, size, stale>>

\* The descriptors that point to address a.
PointingTo(a) == {d \in Procs \X Fds : m_file_handles[d[1]][d[2]] = a}

\* del_handle: the FileHandle is deleted, also if others point to it, or if it is the one of
\* another descriptor by now.
sys_close(p, fd) ==
  LET a == m_file_handles[p][fd] IN
  /\ Good(p, fd)
  /\ handle' = [handle EXCEPT ![a] = Nothing]
  /\ stale' = (stale \cup PointingTo(a)) \ {<<p, fd>>}
  /\ m_file_handles' = [m_file_handles EXCEPT ![p][fd] = Null]
  /\ UNCHANGED <<m_file_handle_counter, size, fault>>

Node(p, fd) == handle[m_file_handles[p][fd]].node
Pos(p, fd) == handle[m_file_handles[p][fd]].pos

SetPos(p, fd, pos) == handle' = [handle EXCEPT ![m_file_handles[p][fd]].pos = pos % Word]

\* FileHandle::read of n blocks: the position moves on by n although fewer are left.
sys_read(p, fd, n) ==
  /\ Good(p, fd) /\ Node(p, fd) \in Nodes /\ Pos(p, fd) < size[Node(p, fd)]
  /\ SetPos(p, fd, Pos(p, fd) + n)
  /\ UNCHANGED <<m_file_handles, m_file_handle_counter, size, fault, stale>>

\* FileHandle::write: the size grows by n wherever the position is.  When the disk is full
\* the position moves by the error code, one back.
sys_write(p, fd, n) ==
  LET f == Node(p, fd) IN
  /\ Good(p, fd) /\ fd # Stderr /\ f \in Nodes
  /\ \/ /\ SetPos(p, fd, Pos(p, fd) + n)
        /\ size' = [size EXCEPT ![f] = (@ + n) % Word]
     \/ SetPos(p, fd, Pos(p, fd) - 1) /\ UNCHANGED size
  /\ UNCHANGED <<m_file_handles, m_file_handle_counter, fault, stale>>

\* SEEK_END ignores its offset.
sys_lseek(p, fd, offset, whence) ==
  /\ Good(p, fd) /\ Node(p, fd) \in Nodes
  /\ SetPos(p, fd, CASE whence = "set" -> IF offset > 0 THEN offset ELSE 0
                     [] whence = "cur" -> Pos(p, fd) + offset
                     [] whence = "end" -> size[Node(p, fd)])
  /\ UNCHANGED <<m_file_handles, m_file_handle_counter, size, fault, stale>>

-----------------------------------------------------------------------------
(* Processes *)

\* Mutant of CopiedFds: one pointer more.
CopiedAndOne(n) == {fd \in Fds : PtrBytes * fd <= n}

Pointers(table) == {table[fd] : fd \in Fds}

\* The descriptors whose pointer is copied whole when n bytes are.
CopiedFds(n) ==
  {fd \in Fds : PtrBytes * fd + Distinct <= n}

\* Does a copy of n bytes reach the pointer of fd?
Reached(fd, n) == PtrBytes * fd < n

\* The one of which some bytes are copied, but perhaps not all that differ.
MixedFds(n) == {fd \in Fds \ CopiedFds(n) : Reached(fd, n)}

\* copy_handles of n bytes from one table over another.
copy_handles(to, from, n) ==
  {[fd \in Fds |-> IF fd \in CopiedFds(n) THEN from[fd]
                   ELSE IF fd \in MixedFds(n) THEN mixed[fd] ELSE to[fd]] :
     mixed \in {m \in [MixedFds(n) -> {Mixed} \cup Pointers(to) \cup Pointers(from)] :
                 \A fd \in MixedFds(n) : m[fd] \in {Mixed, from[fd], to[fd]}}}

\* Mutant of Inherited: the position is not.
AtStart(p, fd) == FileHandle(Node(p, fd), 0)

\* The position is set by a seek to it, for which half of all positions are negative.
Inherited(p, fd) ==
  FileHandle(Node(p, fd), IF 2 * Pos(p, fd) < Word THEN Pos(p, fd) ELSE 0)

\* What q has inherited from p is stale if it was for p.
StaleAfter(p, q, n) ==
  {d \in stale : d[1] # q}
    \cup {<<q, fd>> : fd \in {x \in Fds : <<p, x>> \in stale /\ Reached(x, n)}}

\* Process::fork makes a handle for each of the caller's, over which sys$fork copies.
fork(p, q) ==
  LET n == m_file_handle_counter[p] IN
  /\ Started(p) /\ ~Started(q) /\ \A fd \in 0 .. n - 1 : Good(p, fd)
  /\ m_file_handle_counter' = [m_file_handle_counter EXCEPT ![q] = n]
  /\ \E at \in New(n) :
       /\ handle' = Placed(at, [fd \in 0 .. n - 1 |-> Inherited(p, fd)])
       /\ \E table \in copy_handles(TableOf(at), m_file_handles[p], n) :
            m_file_handles' = [m_file_handles EXCEPT ![q] = table]
  /\ stale' = StaleAfter(p, q, n)
  /\ UNCHANGED <<size, fault>>

\* A new Process, for spawn or in the caller's place for exec.
Replace(p, q) ==
  LET n == m_file_handle_counter[p] IN
  /\ Started(p)
  /\ m_file_handle_counter' = [m_file_handle_counter EXCEPT ![q] = n]
  /\ \E at \in New(Std) :
       /\ handle' = Placed(at, [i \in 0 .. Std - 1 |-> StdHandle(i)])
       /\ \E table \in copy_handles(TableOf(at), m_file_handles[p], n) :
            m_file_handles' = [m_file_handles EXCEPT ![q] = table]
  /\ stale' = StaleAfter(p, q, n)
  /\ UNCHANGED <<size, fault>>

spawn(p, q) == ~Started(q) /\ Replace(p, q)
exec(p) == Replace(p, p)

Step(p) ==
  \/ \E f \in Nodes, mode \in {"read", "write", "append"} : sys_open(p, f, mode)
  \/ \E fd \in Fds : sys_close(p, fd) \/ sys_read(p, fd, 1) \/ sys_write(p, fd, 1)
  \/ \E fd \in Fds, to \in {<<"set", 1>>, <<"cur", -1>>, <<"cur", 1>>, <<"end", 0>>} :
       sys_lseek(p, fd, to[2], to[1])
  \/ \E q \in Procs : fork(p, q) \/ spawn(p, q)
  \/ exec(p) \/ Fault(p)

TablesNext == ~fault /\ \E p \in Procs : Step(p)

TablesSpec == TablesInit /\ [][TablesNext]_tableVars

-----------------------------------------------------------------------------
(* Properties *)

\* Two descriptors have the same FileHandle, and so one position, only if they have the
\* same number in two processes and it is so low that copy_handles reaches it, or if one is
\* stale, because its FileHandle was deleted and the heap has given the address again: what
\* a process reads or seeks on its other descriptors moves nobody else's position.
HandlesApart ==
  \A p, q \in Procs, fd, other \in Fds :
    /\ m_file_handles[p][fd] = m_file_handles[q][other] /\ <<p, fd>> # <<q, other>>
    /\ m_file_handles[p][fd] \in Made
    /\ <<p, fd>> \notin stale /\ <<q, other>> \notin stale
    => /\ p # q /\ fd = other
       /\ Reached(fd, m_file_handle_counter[p]) /\ Reached(fd, m_file_handle_counter[q])

\* A forked process finds each descriptor on the file and at the position where its parent
\* has it, whether the pointer was copied or not, if it was not mixed from two and the
\* position is not one that a seek takes for negative.
ForkStep ==
  \A p, q \in Procs : ~Started(q) /\ Started(q)' /\ fork(p, q) =>
    \A fd \in 0 .. m_file_handle_counter[p] - 1 :
      m_file_handles'[q][fd] # Mixed /\ 2 * Pos(p, fd) < Word
        => handle'[m_file_handles'[q][fd]] = handle[m_file_handles[p][fd]]
ForkKeepsPositions == [][ForkStep]_tableVars

\* A descriptor that is open stays on its FileHandle until it is closed or the process
\* replaced, however many are opened: closed numbers are taken again, others never.
OpenStep ==
  \A p \in Procs, fd \in Fds :
    m_file_handles'[p][fd] \notin {m_file_handles[p][fd], Null}
      => m_file_handles[p][fd] \notin Made \/ exec(p)
OpenDescriptorsStay == [][OpenStep]_tableVars
=============================================================================
