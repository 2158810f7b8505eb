# Formal model of 4IROS

4IROS is a small x86-64 operating system: a single-CPU kernel in C++
(`kernel/`, `include/kernel/`), a C library (`libc/`) and a dozen programs
(`programs/`).  This directory holds TLA+ models of its parts, the TLC runs that
check them on small instances and the TLAPS proofs of what holds for every
instance.  `PROJECT.json` lists the components, the runs, the theorems, the
hazards, the findings and, for every definition, the source lines it models.

Paths below are relative to the repository.

## Contents

1. The system: components, state, operations, interactions
2. The modules and how they correspond to the code
3. What the runs check
4. Fairness
5. What is proved
6. Disagreements between code and text
7. What is only model-checked, and what is not modelled
8. Plan

## 1. The system

| component | state | operations | interacts with |
|---|---|---|---|
| processes and scheduler (`shedule/proc.cpp`, `Syscall.cpp`) | run queue (`next`), `m_state`, `m_blocker`, kernel stacks, `exit_code`, signal state, `current_process` | fork, spawn, exec, exit, sleep, waitpid, poll, read, write, kill, signal, sigret, `sched` | timer interrupt, terminal, paging, descriptors |
| timer and interrupt entry (`arch/amd64`) | `tick_counter`, `global_waiter_time`, the interrupt in service, `ksyscall_data.user_stack` | `timer_interrupt`, EOI, `syscall_entry` | calls `sched` |
| terminal (`driver/TTY.cpp`) | `m_size`, buffer | read, write, `check_blocked`, `check_blocked_write` | blocked processes poll it; two processes share it |
| paging and copy on write (`mem/Paging.cpp`, `Process::resolve_cow`) | page tables, `m_cow_tbl`, `CoWPage::refs` and `skel` | clone, `cow_clone`, fault, mmap, exec | frame allocator, hash table, system calls that store in user memory |
| frame allocator (`mem/PageFrameAllocator.cpp`, `util/Bitmap.cpp`) | four bitmaps, each with a remembered position | `find_free_page`, `find_free_pages`, `mark_range` | paging, mmap |
| kernel heap, libc heap (`mem/actualmalloc.cpp`, `libc/temporary_malloc.cpp`) | list of block headers, end of the heap | malloc, realloc, free, growth | every other part; the libc's calls mmap |
| hash table (`util/HashTable.h`) | buckets with chains, count | push, get, remove, growth | processes, CoW, VFS |
| descriptors and VFS (`vfs/vfs.cpp`, `shedule/proc.h`) | descriptor table, node tree, positions | open, close, lseek, dup by fork, `parse_path` | ext2, devices |
| ext2 (`vfs/fs/ext2.cpp`), ATA (`vfs/block/ata.cpp`) | inodes, bitmaps, disk | read, write, create | VFS |
| keyboard (`driver/PS2Keyboard.cpp`) | ring buffer, its two indices | interrupt handler, read | processes that poll it |
| stdio (`libc/stdio.c`) | `FILE` buffers | fwrite, fread, fflush, fseek | system calls |
| programs | - | - | libc |

How they interact.  User code enters the kernel through `syscall_entry`, which
masks interrupts and parks the user stack pointer in the one global
`ksyscall_data.user_stack`; `Syscall::handler` copies it into the process.  A
blocking call stores a blocker in the process, marks it Blocked and loops over
its test with interrupts on; the timer preempts that loop as it preempts user
code and calls `Process::sched`, which saves the context, walks the run queue,
asks the blocker of each Blocked process (`poll_is_blocked`) and switches to the
first that runs.  The blocker of a read or write asks the file's node.
`send_signal` replaces the saved context of another process by its handler;
`sigret` puts it back.  `fork` copies descriptors by reference and memory by
`cow_clone`; a user store in a shared page faults, and `pf_interrupt` calls
`resolve_cow`, which asks the frame allocator for a page and the hash table for
the `CoWPage`.  All of the kernel's objects come from its heap, which shares its
algorithm with the libc's.

What makes each part correct, and what is hard about it:

* *processes*: the queue stays one cycle although three system calls edit its
  links by hand; a wait ends only for its reason, although it can be preempted,
  polled by the scheduler, interrupted by a signal and resumed by `sigret`; the
  dead stay dead and keep their exit code; each call returns on its own stack.
* *timer*: the clock must advance while anybody waits for it.
* *terminal*: its state is tested with interrupts on and used after they are
  off, and two processes may have passed the same test.
* *copy on write*: no process sees the store of another, although the counts
  are never decremented by exec or death, the kernel's own stores ignore the
  Write flag, and a read resolves its pages long before it stores.
* *frame allocator*: the scan never checks that the free bits it counts are
  adjacent; that they are is a property of its whole history.
* *heaps*: free headers are split, joined and realigned in any order; the
  search computes addresses, free follows links, and the two must agree.
* *hash table*: chains whose head is overwritten on removal, pointers that
  outlive a growth, a count that removal of an absent key decrements.
* *VFS*: descriptors share a node's position after fork; partial failures.
* *ext2 and ATA*: several writes per operation with no journal; unaligned
  transfers.
* *keyboard*: an interrupt handler that advances an index the reader uses.

`PROJECT.json` lists each of these under `hazards`, at its line, with the
properties that would catch it or the reason why none does.

## 2. The modules and how they correspond to the code

| module | what it is |
|---|---|
| `Proc`, `ProcProofs` | processes, scheduler, blocking calls, signals, timer, terminal; theorems about them |
| `FrameAllocator` | `PageFrameAllocator` and `Bitmap::scan` |
| `PrivateMemory` | abstract: each process has a memory of its own |
| `CowMemory`, `CowMemoryProofs` | fork, faults and the kernel's stores on shared pages; it implements `PrivateMemory` |
| `AddressSpaces` | abstract: a map of user pages for each process, one of kernel pages for all |
| `PageTables`, `PageTablesProofs` | the levels of page tables, `clone`, `cow_clone`, `map_page`; they implement `AddressSpaces` |
| `Allocator`, `Heap`, `HeapProofs` | abstract: blocks that never overlap; the kernel's heap and the libc's, which implement it; theorems |
| `KeyMap`, `HashTable`, `HashTableProofs` | abstract: a map; buckets, chains, growth and removal, which implement it; theorems |
| `Ext2` | files that grow and directory entries that are made, one disk write at a time, with restarts |
| `Descriptors` | descriptor tables, `FileHandle`s and positions, across fork, spawn and exec |
| `Console` | keyboard, `term`, the two TTYs, the shell and its command |
| `AtaBlock`, `Stdio`, `Wump` | unaligned disk transfers; a line-buffered stream; the rules of a game |
| `Memory`, `MemoryProofs` | `PageTables`, `FrameAllocator`, `Heap` and `HashTable` together; theorems about each |
| `Files`, `FilesProofs` | `Ext2` and `Descriptors` together; theorems about both |
| `Programs`, `ProgramsProofs` | `Console`, `AtaBlock`, `Stdio` and `Wump` together; theorems about each |
| `MCCowMemory`, `Memory`, `Files` and `Programs` put several modules side by side.  A behaviour
chooses at the start which of them is at work (`part`); the others stand still.  This
is not a model of how the parts interact: they share no state, each is written for
any caller, and what one needs of another (that `HashTable` is a map, that a disk
transfer is exact) is a property of that other.  Each part is checked as it would be in a run of
its own, and a theorem about a part is one about all the parts together, since every
step is a step of one part or leaves its state alone (`EachBehaves`, `PartsStep`).
`Console` is different: there the processes, devices and signals are composed for real
and act on the same queues.

Operators named like functions of the code model the whole of them.  An operator
introduced as "Mutant of X" is a wrong version of X that no action uses; each
property is known to fail when it takes X's place.

**Proc.**  A process is its pid; the fields of `Process` are functions on pids.
A context, what a kernel stack holds, is reduced to where its thread is: in
user code, at the blocking point of a call (with the argument it waits for), in
the loop around `exit`, or lost.  `live` is what the CPU executes, `kstack` what
`m_kern_stack_top` points at; `SaveContext` and `SearchStep` copy one to the
other as `sched` does.  `mode = "search"` is the loop of `sched`, one action per
turn, since interrupts are on there: `TimerTick` may fall between two turns, is
ignored by `sched_enabled`, and does not fall at all while `eoi_pending`, because
`timer_interrupt` calls `sched` before it writes the EOI.  A system call that
masks interrupts throughout is one action; read and write are four (the call, the
test that succeeds, the step from the test to the `cli`, the transfer), waitpid
and poll are two, sleep is one and a loop.  `user_stack` is the global that
`syscall_entry` reloads: a call whose stack is another's goes "stray".  The
terminal is a byte count with wrapping arithmetic, its contents are abstracted.
An object that `exec` builds consumes a pid and keeps its entry in
`process_pid_map`, as the code's does.

**FrameAllocator.**  A bitmap is the set of its set bits; `Streak` counts free
bits from the remembered container on, without the reset that the code lacks
too, and `Stop` is where the count is complete.  `find_free_page` and
`find_free_pages` mark the three larger levels with the loops of the code.
Bits past the end of a level's bitmap stay in the set.

**CowMemory.**  The four levels of page tables are one function from pages to a
frame and the Write flag.  `store` is a store of user code where the flag is
set, `pf_interrupt` the fault where it is clear, which ends in `resolve_cow`;
`read` begins when `sys$read` has resolved what it resolves, and `FinishRead` is
the kernel's stores: anything other processes do may happen between the two.
`write`, `fork`, `mmap`, `spawn` and `exec` are one action each.  `mmap` maps mapped
pages anew when it does not notice them.  `m_cow_tbl` is
taken for a map, which is what `HashTable` is shown to be, but for one place: when
the last holder takes its page over, `resolve_cow` removes the key and then deletes what
the slot points to (`proc.cpp:293-300`).  `TakeOver` therefore frees any of the CoWPages
that may have moved into the slot (`Deletable`): its own, that of another page of the
process, or none.  Whoever still holds the deleted one is `stale` there; its memory may be
given out again, and once a stale holder uses it (`UseDeleted`) the kernel is `astray` and the
model says nothing more.  The refinement
mapping sends a page to the contents of its frame, or to `Unmapped`.

**PageTables.**  A virtual page is the sequence of its indices; a directory is
the number of its top table.  `Mapped` is the walk of `map_page` and
`map_page_user`, with `Walk` for the entries on it: missing tables are taken on the way and the rights of entries on
the path are widened.  `cow_clone` copies the tables under user entries and
shares the others.  The refinement mapping (`Translate`) is what the processor
makes of a page, the rights of all levels together.

**Heap.**  A list of headers with address, size, alignment and the free bit.
`NextAddr` is the sum that `actual_malloc_find_free` keeps, `Data` what
`actual_free` computes from a link.  `find_free` is the first fit, with
`group_free` and the split.  The variable `libc` tells the two programs apart: the
kernel panics when the heap is used up and does not join on free, the libc grows,
joins, and has realloc.  Addresses count from the base and in units of 8 bytes:
the header is 4 of them and the alignment a split may offer is 2, as in the code
(32 and 16 bytes).  `blocks` is what callers hold, and what is mapped to the
abstract allocator.

**HashTable.**  A bucket is its chain and the key left in an emptied slot, which
`remove` compares without asking whether the slot is in use.  `fib_map` takes the top
bits of a hash, which the cfg gives for each key.  `m_true_no` wraps.  `Place` is
what a pointer returned by `get` points at.

**Ext2.**  `op` is the operation under way and its stage; between two stages lies
one write to the disk, or the change of an in-core inode.  `MarkBlock`,
`CountBlock`, `ZeroTable`, `WriteTable`, `WriteBlock` and `FinishWrite` are the
steps of `write_to_inode` in the order of the code; `create`, `CutEntry`, `WriteHeader`,
`WriteName`, `WriteNewInode` and `WriteGroup` those of a new file; `set_size` is the write
that opening a file for writing makes.  `reboot` is
enabled between any two.  `CutEntry` writes the header of the last entry (`ext2.cpp:261`),
`WriteHeader` that of the new one (line 283); between them the last entry is `cut`, and nothing
lies behind it, also while the rest of the block is being cleared, which changes nothing that
the loop over entries reads.  If the machine stops there, the next `create` counts past the end
of the block: it clears some 64 blocks behind the directory and writes its entry outside
(`overrun`).  A directory whose block is full is left too (`full`).  What is destroyed then is
not followed: the model stops, and `Contained` says that it has not.  A file of the root directory has one in-core inode,
kept in `Ext2Entry`; a file of a subdirectory gets another with each open
(`traverse_internal` builds the entries anew).

**Descriptors.**  A table maps descriptors to addresses of `FileHandle`s, to `Null`
or to `Mixed`.  `sys_close` deletes the handle and leaves its address to the heap, which may give it
to any handle made later, also while descriptors of other processes still point there; those
are `stale`, and a call on one uses, moves or deletes whatever lies there.  `copy_handles` is given a number of handles and copies that many
bytes: the first pointers become those of the other process, the next is mixed
from two, the rest stays.  With 8 bytes to a pointer a fork of three descriptors
copies three bytes of one pointer.  A call on a mixed pointer, or on a null one or a deleted
handle whose address has not been given again, is not followed (`fault` ends the behaviour): the
kernel may fault there, or read what the memory happens to hold.

**Console.**  The program `term` (poll, read keys, edit the line, write it, draw
what is printed), the shell (read a byte, count it, fork, note the pid, wait), its
signal handler, the command, and between them `shared_fake` and `/dev/tty`, whose
blocking tests are those of `TTY.cpp`.  The steps of the shell's main program rest
while the handler runs, which may begin between any two of them.  Shell, handler and command
print in two steps: `finds_room` is the test of `sys$write` with interrupts on, `tty_write` the
write, whose assertion panics the kernel when another has taken the room (`panicked`).  A call of
the shell that the handler has interrupted may return on the handler's stack (`Syscall.cpp:758`):
then the shell is `astray`, what it does is not followed, and it may fault.

**AtaBlock, Stdio, Wump.**  `SectorByte` is `read_512_temp`, two bytes of a word at
a time; `Place` is where in the caller's buffer they go.  `fwrite` is one action
per effect, so that the handler of a signal can print in between.  In `Wump` a
random number is a choice of the action.

## 3. What the runs check

| run | module | expected | question |
|---|---|---|---|
| `Lifecycle` | `Proc` | pass | Do fork, exec, exit, sleep, waitpid, SIGKILL and faults, preempted everywhere, keep the queue whole, the waits honest and the dead dead? |
| `Signals` | `Proc` | pass | Does a SIGINT delivered to a waiting process, to oneself or from a handler keep the interrupted context and the wait? |
| `Terminal` | `Proc` | pass | Do three readers, writers and pollers of one terminal stay inside its buffer? |
| `Sleepers` | `Proc` | pass | Does every runnable process run and every sleeper on a shared queue wake? |
| `Waiters` | `Proc` | pass | Does a parent get out of waitpid however its child dies? |
| `FrozenClock` | `Proc` | violation | Can the clock stop while a process waits for it? |
| `TtyAssert` | `Proc` | violation | Can the assertion of `TTY::write` fail? |
| `Fork` | `MCCowMemory` | pass | Is copy on write invisible? |
| `UncheckedBuffer` | `MCCowMemory` | violation | Does the kernel store only where the program may, whatever buffer it is given? |
| `Memory` | `MCMemory` | pass | Is each frame given away once, are the heaps allocators, is the hash table a map, and do page tables keep processes apart and the kernel's pages common? |
| `Files` | `MCFiles` | pass | Does a disk stopped between any two writes have one owner for each block and keep what was written completely, and do descriptors keep their files and positions? |
| `Programs` | `MCPrograms` | pass | Does a typed line reach the shell whole, does Ctrl-C end a command and `term` keep going, and do streams, disk transfers and the game keep their rules? |

`PROJECT.json` has, for every run, the properties it checks, and for every
property of a passing run a mutant: a plausible bug in one definition under which
that run reports the property violated.

Bounds, and why they are enough:

* `MaxProcs` is 2 or 3.  What processes do to each other is pairwise: waiter and
  waited-for, sender and target, two users of the terminal.  A third makes the
  queue longer than a pair, so that a link can lead past somebody, and lets
  somebody else run between the two.  `exec` uses up an object as well.
* `MaxTicks` is at most 3 and saturates: enough for a sleep to begin on one tick,
  be passed over on the next and end; a call that would wait beyond the bound is
  not made.  Where no clock matters it is 0 or 1, so the timer still preempts.
* `TtySize` and `WordSize`: `Terminal` has room for two writes of different size
  and a word in which an unguarded subtraction would wrap to far beyond the
  buffer; single bytes and pairs are what makes the tests differ.
* frames: fourteen pages in containers of four, requests of 1, 2, 3 and 5, three
  marked at start: scans cross a container, end at its last bit, end inside the
  last one, and fail.  Requests are served from the frame bitmap (level 0), as all
  requests up to 6144 pages are.
* `Fork`: three processes give a grandchild, so that a page is shared twice, and
  two CoWPage objects two pages; four frames are an image, one copy for each
  holder and one mapped page; the names of the processes are symmetric but for
  the first.
* heaps: sizes of 1, 4 and 7 units against a header of 4: 7 can be split, 4 and 1
  cannot, and joining makes new sizes; alignments that skip nothing, a unit or
  most of a header.  34 units hold four to six headers.  The libc's heap begins
  with one page of 12 units and grows twice.  In units of 8 bytes every size is such that
  aligning a block cannot move it past the end (`RoomToGrow`).
* hash table: four keys of which two pairs begin alike, so that chains of three
  arise, the second is moved into the slot, and growth to eight buckets parts
  them; the count wraps at 16, which removing an absent key reaches.
* page tables: three levels of two entries instead of four of 512: an entry of the
  directory, one in the middle and a leaf; two pages in one table and one in
  another; nine tables, which is a process, a child and mappings in both.
* ext2: three blocks, one direct slot and two in the indirect block: a file can
  use all of them and the disk fills up; two names, two inodes for them, a file in
  a subdirectory open twice.  Writes of one or two blocks begin anywhere.
* descriptors: a table of two, two processes, four addresses for handles; two bytes to a
  pointer, so that a copy of one byte mixes the first pointer and one of two takes it whole.  Of the
  free addresses the heap offers those that are still pointed to and the first of the others,
  which are alike (`DanglingOrFirst`).
* console: six scripts of up to eight keys, with Ctrl-C before, inside and after a
  line and during a command, backspaces, and more lines than the input holds; an
  input of five bytes, an output of three, two commands.
* disk: three sectors of four bytes, transfers of up to nine; streams: a buffer of
  three and texts shorter, as long and longer, with a line's end inside or last;
  wump: six rooms, two arrows.

## 4. Fairness

`Proc` (its `FairSpec`) and `Console` have any.

In `Proc`:

* `SF_vars(TimerTick)`: the HPET ticks for ever, and a tick that finds interrupts
  masked stays pending in the local APIC until they are not; so if ticks are
  enabled again and again one is taken.  They are not enabled while the timer
  vector is in service, which is what `FrozenClock` turns on.
* `WF_vars(SearchStep)` and `WF_vars(SleepLoop)`: the CPU executes the next
  instruction.
* `SF_vars(p = current /\ Progress)` for each process: a process that gets the CPU
  again and again completes a turn of its test loop in one of its time slices; a
  slice is long compared with a loop body.

Nothing is assumed about user code: no process need ever make a call.

In `Console`: `WF_vars` of a step of `term`, of the shell and of its handler, each
a process that the scheduler gives its turn, as `Sleepers` shows for `Proc`.
Nothing is assumed about the user, who may stop typing, or about the command, which
may run for ever or print without end.

## 5. What is proved

All theorems are about every value of the constants that the `ASSUME`s of the
modules allow; the proofs use SMT, Zenon and, for the temporal steps, LS4.  Every
property of a passing run that is not a liveness property is a theorem, but for three
that section 7 names.

**`ProcProofs`** (assumptions: those of `Proc`, and for some theorems a hypothesis
about the calls that programs make).

The queue: `TypesHold`, `QueueIsOneCycle` and `DeadStayDead`.  The inductive
invariant is `IInv`: `TypeOK`, `RingIsOneCycle`
and `Fresh`, that an object not yet constructed is on no queue and not dead.
`RingIsOneCycle` is stated by closed subsets rather than by paths: no proper,
non-empty part of the queue is closed under `next`.  In that form it can be
proved without induction: an insertion after the current process keeps it
(`InsertKeepsCycle`), because a closed part of the new queue, without the new
process, is closed in the old one.  `Fresh` is needed because the child comes from
outside the queue, and for `DeadStaysDead`, where the state of an object is set
when it is constructed.

The terminal: `TtyStaysWithinBuffer`, for reads of at most a byte, which is what the
test before the transfer has seen; the invariant adds that every context in a read
asks for no more.  A read of two takes the count below zero.

The exit code: `ExitCodesKept`, where nobody sends a SIGINT, which overwrites the
code of a process that is dead already (`Syscall.cpp:513`).

The signals: `InterruptedContextsKept`, for handlers that do not both fork and register
handlers (`NoHeirsRegister`); they may wait in any call.  The invariant `SignalInv` has two parts.
`Marks` relates `in_signal`, the saved context and the mark of a handler in a context, wherever that
context lies: in `kstack`, on the CPU, or inherited by a child that a handler has forked
(`Orphan`).  `Switching` is about the moment between two processes: a search may come
back to where it began only with what it has saved.  The hypothesis is needed, as TLC shows: a child
that a handler has forked, that registers a handler and is interrupted before it has left the first
one, loses its context.

No theorem says that waits end for their reason, or that blocker and call agree
(`WaitsEndForTheirReason`, `BlockerMatchesCall`).  They hold only as long as no handler waits:
a blocking call of a handler replaces `m_blocker`, and `sigret` puts back the state of the process
but not its blocker.  The only handler of the repository (`shell.c:107-117`) prints, so it waits
when the terminal is full.  The runs check both for handlers that only send signals.

The stack: `ReturnsOnOwnStack`, for programs that register no handler: whoever waits on
the CPU has its stack in the global, whoever waits off it has it saved (`StackInv`).
With a handler, `sigret`, a system call like any other, overwrites the saved stack of
the call that the signal has interrupted (`Syscall.cpp:758`).

**`CowMemoryProofs`** (assumption: `~AnyAddress`).  `CowIsPrivate`, that
`CowMemory` implements `PrivateMemory`; `SharedAreProtected`, `CountsSuffice` and
`ReadsStoreWhereWritable`.  They hold of every behaviour until a CoWPage is used that
was deleted in place of another (the model ends there).  The invariant `Inv` has the types; that an unborn
process holds nothing; that frames in tables have been given away; that a page
with a CoWPage is write-protected and, unless it is stale, its frame is the CoWPage's; that a frame
in two tables is shared by one CoWPage, stale in both or in neither; that the counts are
never too low for the holders that are not stale; and
that the pages a read in progress stores in are writable.  Sharing and counts need each
other: `resolve_cow` may hand over the page itself only because the count covers
all holders, and the count stays sufficient only because holders share the object.
Each action has a lemma that it keeps `Inv` and one that it maps to an action of
`PrivateMemory` or to a stutter.

**`PageTablesProofs`** (assumption: `Directories`, that pages have an index a level, that
there are at least two levels and finitely many indices, and that the kernel's pages and the
user's lie under different entries of a directory).  For any number of levels, indices and
processes: that the page tables implement `AddressSpaces`, and `KernelAlike`.  Neither property
is inductive: both speak of what walks find, and a step writes entries, which may lie on
many walks.  The invariant `Formed` says that the tables are trees.  There
are an owner for each table (a process, the kernel, or nobody any more, as for the
tables of an image that exec has replaced) and a path, the indices that lead to it, such that

* the types are right (`Typed`), a directory is its owner's table at the empty path
  (`Rooted`), and no two tables of an owner have the same path (`Apart`);
* an entry that is present leads to the owner's table one index further or, on the
  last level, to a page, with the rights of the owner (`Down`), and every
  table but a directory has an entry that leads to it (`Up`);
* the kernel's entries are the same in all directories (`Shared`), and are the only
  ones under which a walk comes to another owner's tables.

`Up` is there for `map_page`: a table that is taken has a path at which its owner had none, since
the entry that would lead there was not present.  From `Formed` follows that a table
lies on the walk to a page only if it has a prefix of that page's indices for its path and the
right owner (`WalkFacts`, `WayClosed`), so what is written at one place of one table is
seen at one page of one owner.  `map_page` and `map_page_user` grow a tree (`GrownTyped` ...
`GrownLook`); `resolve_cow` changes a leaf (`ResolveStep`); `clone` makes a directory of the
kernel's entries (`CreateStep`).  `cow_clone` needs most: it numbers the copies by an enumeration
of the paths to them, so the copies form a tree of the same paths (`CopiesFormed`) and a walk
through it finds what the parent's found, without the right to write
(`CopyIs`, `CloneMaps`).

**`MemoryProofs`** states what holds of the parts of `Memory` under the names that the run
`Memory` checks: `TablesAreSpaces` and `KernelStaysAlike` from `PageTablesProofs`;
`HeapAllocates` and `ListStaysWhole` from `HeapProofs`; `TableIsMap` and
`PointersKept` from `HashTableProofs`.

The frames (assumption: `Sized`; hypothesis: `SmallRequests`, that each request is
served from the frame bitmap): `NoFrameTwice` and `FailsFull`.  The scan counts
free bits and never looks whether they are adjacent, so neither theorem holds of a
single call.  The invariant `FramesInOrder` is about the history: set bits are the first ones,
everything below the remembered position is set, and the frames given away are
those whose bit is set.  Without the hypothesis the first is false: the loop that
marks the larger levels stops short (a hazard listed for line 63).

**`FilesProofs`**, the disk (assumptions of `Ext2`: blocks have numbers above 0, the numbers of slots
are naturals, the inodes are finitely many and those of subdirectories are not root files).

`NoBlockHasTwoOwners`, for any disk, any files and any number of
open copies of an inode.  `BlocksOwnedOnce` compares inodes in pairs, on the disk and
in memory, and is not inductive: a copy in memory may be older than the disk's and
yet be written back over it.  The invariant says instead that there is *a* map from
blocks to owners, a place in a file each, with which every inode and every
readable table agrees, stale or not: copies of one file may differ, but never about
whose a block is.  A block has the owner "reserved" from the bitmap to the inode, and
a new indirect block is "new" until it has been cleared, since its table holds garbage
till then.  The map changes in four steps only (`MarkOwners`, `CountOwners`,
`ZeroOwners`, `TableOwners`), each for one block that no inode speaks for
(`OwnedFrame`, `TablesFrame`); every other step, `reboot` among them, copies inodes
of one file about and keeps the map (`OtherOwners`).

`EntriesHaveInodes`.  `create` takes an inode, writes the entry, its name, the inode and the
group's count, and may be stopped after each.  The invariant says that a file being made has an inode
that no entry has until its own is written (`NewEntry`), and how far the group's count may be
from the bitmap: exact before the first restart, but for the inode just taken, and never too low after it
(`CountsInodes`).  `CutShort` says that the last entry is cut only inside a `create` or after a restart.

The three theorems about the disk hold until a `create` leaves the directory's block
(`Contained`).  That it leaves a block that is not full only after a restart is part of
`EntriesHaveInodes`; how a full one is left has nothing to do with restarts (`ext2.cpp:266`).

`WritesSurvive`, that a block once written completely holds what was written, or what a later
write to it has written.  The theorem needs the owners: a write to one file leaves the
blocks of the others alone because no block has two.  On top of that, `CoreExtends`: what a root
file has on the disk it has in memory, so that writing the inode back loses nothing;
`UnbornEmpty`: a file that is being made has nothing to lose; `WrittenSoFar`: what the write
under way has stored can be found from the inode in memory; and `SlotFree`: a table gets a
new entry only where it had none.

**`FilesProofs`**, the descriptors (assumption: `Sized`, that the table has room for the
first descriptors, pointers have at least one byte, and so on).  `DescriptorsApart`, `ForkedPositions` and `OpenDescriptorsKept`.  The
invariant adds to `HandlesApart` the types (`TableTypes`); `EmptyBeyond`, that a table is empty from its
counter on, hence before its process exists; and `DanglingAreStale`, that a descriptor which
leads to no handle is stale.  The heap may place a handle wherever there is none, so what is made for a
process is new to all tables but for stale descriptors, and two that are not stale can only come to
share a handle where `copy_handles` took the pointer from the parent, and it takes it nowhere that
`Reached` does not say (`CopyInherits`, `InheritingKeeps`).  The exception for stale descriptors is
needed: without it `HandlesApart` fails after a spawn, a close and an open.  `fork` and `spawn` cannot
overwrite an open descriptor because the table they fill was empty, `open` because
`push_handle` returns a closed one (`FreeSlotIsFree`).

**`ProgramsProofs`**: a theorem about each of the four parts, and from it the one about `Programs`.

The console (assumption: scripts are sequences of key events): `LinesExecuted`, for any scripts, any lengths of the queues and any number of commands.  The lines that the
shell executes are compared with those `term` has sent, and between the two lie the
terminal, the shell's buffer with its index, a byte that is read and not yet
counted, a command that reads from the same terminal and a handler that resets the index.  The
invariant is about the stream, what the shell holds and what is still in the terminal:
each part of it from behind a newline to the next newline is a line that was sent, and so is its
beginning unless it was disturbed (`WholeLines`); what has been counted is no newline
(`LineCounted`); only one reads at a time (`OneReader`); and the line `term` edits has a newline
only at its end (`LineEdited`).

The stream (assumption: `Printing`, that there is a buffer, that `size_t` counts further than
its length, and that the handler's line ends in a newline): `TextsInOrder` and `StreamStaysInBuffer`.
The invariant `Turns` says, for each step of `fwrite` and `fflush`, what has been printed and not
written: what the buffer holds, followed by what the step has yet to copy, of which the part
that is longer than the buffer is written past it, when the buffer is empty (`CopiedInTurn`).
`Filled` holds also when the handler has struck: after it the buffer holds the prompt at
most, and the text that is being copied has room behind that.

The disk (assumption: `Geometry`, that a sector has an even number of bytes):
`DiskIsExact`.  Each place of the caller's buffer and each byte of the disk is in one
sector of the transfer and no other (`OneSector`), which is where `read_512_temp` and the
loop of `write` take it from or put it.

The game, for any cave and numbers of bats, pits and arrows: `GameIsFair`, by
`Lurking`, which adds what holds while an arrow flies, and that no room has both bats and a pit.

**`HashTableProofs`** (assumption: `Hashing`, that a hash has `HashBits` bits, of which the
largest table uses no more than there are, and that `Missing` is neither key nor value).
`TableIsMap`, that `HashTable` implements `KeyMap`, and `PointersKept`.  The invariant
`InOrder`: a key is in a chain once, and in the bucket that its hash says.  `rehash_all` is a loop
over buckets that puts each entry into the bucket twice as far on, or next to it
(`IsKept` says what has been kept after each bucket); that the index of every entry is that of the
larger table is arithmetic of powers of two.  Powers of two are numbers of
subsets here, since that is where the library has facts about them.

**`HeapProofs`** (assumption: `Layout`, that each alignment is a multiple of the
smaller ones).  `HeapAllocates`, that `Heap` implements
`Allocator`, and `ListStaysWhole`.  The list is `Whole` if it has no gaps: each
header lies where the data of the one before it ends.  This is more than `ListWhole`,
which the run checks, and it is inductive because every change that the code makes to the list is
a splice: some headers next to each other are replaced by others that fill the same room
(`Joins`, `Splits`, `Grows`, `Frees`).  A few facts about splices then serve all of malloc,
free, `group_free` and realloc.  That the search's sum is the address of
the next header (`SearchPlace`) follows from `Whole`; that it still is after a header has been
realigned needs `Layout` (`AlignsNest`).  `Kept` says that every block has a header in
use with room for it; since headers in use do not overlap, blocks do not.

About all of them.  A loop of the code that is a recursive function here is used in the proofs through
its defining equation: a function that satisfies it is exhibited, or the one there is
is compared with what it should be, and the place where they differ first leads to a
contradiction.  This takes the least element of a set of naturals (`SmallestExists`) instead of
an induction.

## 6. Disagreements between code and text

* `FrozenClock`: the comment at `x64_preinit.cpp:713` says that other interrupts
  can overlap the timer interrupt when no process is available to be run.  The
  timer's own cannot: the search of `sched` runs before the EOI, so if everybody
  left on the queue sleeps the clock they wait for has stopped.
* `TtyAssert`: `sys$write` tests for room with interrupts on and writes after the
  `cli`; two writers can pass the same test and the second fails the assertion at
  `TTY.cpp:51`.
* `UncheckedBuffer`: `sys$read` says "FIXME check writable" and resolves only a
  page that begins at the buffer's address; the kernel then stores in a frame
  shared by fork, and another process sees it.

They bound what the passing runs can ask.  `Sleepers` leaves out the calls that
wait with interrupts on: then a search begun by the timer always finds at least
the process it interrupted.  `WriteFits` is checked in its violation run only.
`Fork`, and the theorems about `CowMemory`, speak of programs whose buffers begin
at a page or lie where they may write and who do not map a page anew that is shared
(`AnyAddress = FALSE`).

Other behaviour of the code that the models show, and that the properties are
worded to leave room for:

* The libc's heap grows by the size asked for, rounded up to pages, without the
  header: `BlocksInHeap` holds for sizes whose rounding leaves room for one, and
  fails for multiples of the page (the third of three page-sized blocks ends behind
  the heap).  It also makes the test for room before it aligns the address: a block whose
  size is neither 0 nor 15 modulo 16 may end up to 14 bytes behind the memory even
  so: with headers of 8, an alignment of 4, pages of 24 and
  sizes of 1, 5 and 6 TLC finds it in four steps.
* `resolve_cow` may free the CoWPage of another page (`Deletable`): a page is handed over,
  its key leaves the table, the next entry of its chain moves into the slot, and
  `delete *cow_page` frees that one's CoWPage.  The properties of `CowMemory` hold until one
  who still has it uses it.
* `copy_handles` copies bytes, not pointers: after a fork the first few descriptors
  are the parent's own handles and the others copies of them, with a pointer mixed
  from two between them if the count is no multiple of 8 (`HandlesApart` and
  `ForkKeepsPositions` say which).  A fork after a close reads through the null
  pointer.
* `close` deletes a handle that the child of a fork still has.  The next handle may get its address,
  and then two descriptors that have nothing to do with each other share a position (`stale`).
* A `create` that is stopped between the header of the last entry and that of the new one makes the next
  `create` write outside the directory (`overrun`).
* `read_512_temp` takes a word at even places only: a transfer that begins at an
  odd place is two bytes late.  Blocks and inodes are read in regular transfers (`Regular`).  An
  entry of a directory may lie across the end of a sector (`ext2.cpp:540`, `545`) and is then read
  with a gap.
* A read of several sectors that begins inside one leaves holes in the buffer.
* A handler that prints while a call of `fwrite` copies its text can leave the prompt in
  the buffer, behind which the text is then counted: the index passes the end of the buffer if the two do
  not fit into it together (`BufferHolds`).  The proof found this one too: the property had
  excepted only texts as long as the buffer, and a prompt of 2 with a text of 2 and a buffer of
  3 refutes that.  With the 1024 bytes of `stdout` and the shell's prompt of one, only a
  text of 1024 bytes or more meets it.
* A Ctrl-C while the shell counts a byte sets the index to 0 and the shell then
  increments it, so the next line begins one byte late; one between fork and `foreground_pid = pid` is lost on the new command:
  `CommandsAreLines` and `CtrlCEndsCommand` exclude just that.
* `term` stops drawing while it writes a line, so a full input and a shell that
  prints hold each other up (`InputFull` in `TermKeepsGoing`).  Two writers of one terminal, say the
  shell's handler and a command, may panic the kernel (`panicked`), as in `TtyAssert`.
* A machine that stops between the inode bitmap and the group's count makes `create`
  panic on the last inode (`EntriesOwnInodes`).

## 7. What is only model-checked, and what is not modelled

Only model-checked, out of the prover's reach: the liveness properties
`RunnableRuns`, `SleepersWake`, `WaitersReleased`, `TermKeepsGoing` and
`CtrlCEndsCommand`.  Also only model-checked are three safety properties whose theorems would need a
hypothesis that real programs do not meet: `BlockerMatchesCall` and `WaitsEndForTheirReason`, checked
for handlers that do not wait, and `BlocksInHeap`, checked for sizes with room for a header.  All other
properties of the passing runs are theorems, some of them under a hypothesis that section 5 names.

Hazards met while reading that no property is about:

* `proc.cpp:132`: a lone process that sleeps calls `sched` with interrupts off, which
  returns at once; `proc.cpp:204`: `sigret` with nobody else to run returns into the
  handler it ends; `x64_preinit.cpp:465`: a process killed by a fault has an exit code
  that was never assigned.
* `PS2Keyboard.cpp:60`: the writer of the key ring wraps, the reader's position does
  not; `Console` keeps below the wrap.
* `Paging.cpp:309`: `get_page_flags` compares an address with its flags;
  `Syscall.cpp:706`: a failed spawn leaves the kernel's directory loaded; tables are
  never cleared when a frame is used as one.
* `ext2.cpp:361`: a write past the indirect block goes to block 0, which is the boot
  block (the model writes there too; no property speaks of such slots);
  `ext2.cpp:266`: `create` does not check that the directory's block has room (`full`).
* `PageFrameAllocator.cpp:36`, `Bitmap.cpp:5`: rounding of odd sizes;
  `actualmalloc.cpp:108`: the end of the kernel's heap is compared without the header.

Abstracted inside the modelled parts: register contents and FPU state; the bytes
of the terminal and of pages beyond one value; a poll of several
descriptors or with a timeout; the release of page tables, which is compiled out
(`Paging::release`), and `unmap_page`, which nothing calls; the bump allocator
that serves the boot; sizes in bytes, partial blocks and later block groups of
ext2; the formatting of `printf`; pixels.

`Proc` and `CowMemory` are not composed: a signal handler that forks while a read
of its own process waits is listed as a hazard and is in neither.  `Ext2` and
`AtaBlock` are not composed either; `AtaBlock` shows that block transfers are
exact, which `Ext2` takes for granted, also for entries of directories, for which it is not so.

Not modelled, and why.  Of the 28 thousand lines that count as implementation
14.6 thousand are two vendored headers for images and fonts; several programs
(`say`, `farbview`, `gol`, `less`, `ls`, `cat`, `time`) are loops over pure output
or third-party code and keep no state that a property could relate; boot, consoles, debugging and
other architectures are straight-line set-up or not part of the build; strings,
numbers and the walk along a path are pure functions.  What is left is the kernel and the
two interactive programs, of which the models cover what changes state.

## 8. Plan

Done: `Proc`, `FrameAllocator`, `CowMemory`, `PageTables`, `Heap`, `HashTable`, `Ext2`,
`Descriptors`, `Console`, `AtaBlock`, `Stdio`, `Wump`; the refinements of `PrivateMemory`,
`AddressSpaces`, `Allocator` and `KeyMap` proved; theorems for all modules.

| next | what | why |
|---|---|---|
| 1 | `Proc` composed with `CowMemory` | a read interrupted by a handler that forks |
