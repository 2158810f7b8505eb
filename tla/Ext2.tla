--------------------------------- MODULE Ext2 ---------------------------------
(***************************************************************************)
(* Ext2FileSystem: files grow block by block, the root directory gets new  *)
(* entries, nothing is ever freed and there is no journal.  An operation   *)
(* is a sequence of writes to the disk, one action each (zeros over zeros  *)
(* are none); the machine may stop between any two (reboot), and what is   *)
(* in memory is read anew.  A block is two sectors: of a bitmap or table   *)
(* one entry changes, and parts of a block of data are not told apart.     *)
(*                                                                         *)
(* Files of the root directory have one in-core inode, which all handles   *)
(* share (copy 0).  A file of a subdirectory gets a fresh copy of its      *)
(* inode with every open (copies 1 and up), and the copies are not kept    *)
(* the same.  The size of a file is left to the module Descriptors.        *)
(* Positions are counted in blocks.  There is one block group.             *)
(***************************************************************************)
EXTENDS Integers, FiniteSets

CONSTANTS
  Blocks,     \* numbers of the data blocks; 0 is the boot block
  RootFiles,  \* inodes for files of the root directory
  SubFiles,   \* inodes of files in a subdirectory, on the disk from the start
  Names,
  NoName,     \* an entry whose name has not been written, or not completely
  Direct,     \* entries of dbp: 12
  Singly,     \* entries of an indirect block: 256
  Values,     \* what a block of data may hold
  Garbage,    \* what a block holds before it is used
  Copies,     \* bound: how often a file of a subdirectory is open
  MaxWrite    \* bound: blocks of a write

ASSUME BlocksAssumption == Blocks # {} /\ Blocks \subseteq Nat \ {0}
\* An inode belongs to one directory: the code makes no links.
ASSUME FilesAssumption ==
  RootFiles \cup SubFiles \subseteq Nat /\ IsFiniteSet(RootFiles \cup SubFiles)
  /\ RootFiles \cap SubFiles = {}
ASSUME SlotsAssumption == Direct \in Nat /\ Singly \in Nat /\ MaxWrite \in Nat

DirectSlots == 0 .. Direct - 1
SinglySlots == 0 .. Singly - 1
FileSlots == 0 .. Direct + Singly - 1
Inodes == RootFiles \cup SubFiles
Entries == (RootFiles \X {0}) \cup (SubFiles \X (1 .. Copies))
InodeOf(e) == e[1]

INode(dbp, sibp) == [dbp |-> dbp, sibp |-> sibp]
NewINode == INode([k \in DirectSlots |-> 0], 0)
NotOpen == INode([k \in DirectSlots |-> 0], -1)
DirEntry(name, inode) == [name |-> name, inode |-> inode]
NoTable == [k \in SinglySlots |-> 0]

\* The operation under way: its stage and, for a write, the in-core inode, the first
\* block, how many there are, how many are done and what they will hold; with is the
\* block that is being allocated, or the inode that is being created.
Op(stage, e, from, n, val) ==
  [stage |-> stage, entry |-> e, from |-> from, size |-> n, done |-> 0, val |-> val,
   with |-> 0, name |-> NoName]
Idle == Op("idle", <<0, 0>>, 0, 0, Garbage)

VARIABLES
  block_bm, inode_bm, unallocated_inodes, inodes, dir, cut, tables, data,
    \* the disk: bitmaps, the group's count of inodes, inodes, the root directory (its
    \* entries, and whether the last one has been cut short with nothing behind it), and
    \* the blocks, as tables of block numbers and as data
  core,    \* m_inode of each Ext2Entry
  op,
  kept,    \* history: the values that a file's block may hold once it was written
  reboots  \* history: has the machine been restarted?

directory == <<dir, cut>>
disk == <<block_bm, inode_bm, unallocated_inodes, inodes, dir, cut, tables, data>>
vars == <<block_bm, inode_bm, unallocated_inodes, inodes, dir, cut, tables, data,
          core, op, kept, reboots>>

Init ==
  /\ block_bm = {}
  /\ inode_bm = SubFiles /\ unallocated_inodes = Cardinality(RootFiles)
  /\ inodes = [i \in Inodes |-> NewINode]
  /\ dir = {} /\ cut = FALSE
  /\ tables = [b \in Blocks |-> [k \in SinglySlots |-> CHOOSE x \in Blocks : TRUE]]
  /\ data = [b \in Blocks \cup {0} |-> Garbage]
  /\ core = [e \in Entries |-> NotOpen]
  /\ op = Idle
  /\ kept = [i \in RootFiles |-> [k \in FileSlots |-> {}]]
  /\ reboots = FALSE

-----------------------------------------------------------------------------
(* Ext2Entry::write and write_to_inode *)

\* Where a block of a file lies: 0 if it has none, and 0 too past the indirect block,
\* for which write_to_inode has no case.
BlockAt(inode, slot) ==
  IF slot \in DirectSlots THEN inode.dbp[slot]
  ELSE IF slot \in FileSlots /\ inode.sibp # 0 THEN tables[inode.sibp][slot - Direct]
  ELSE 0

\* The block of the file that is written next.
Slot == op.from + op.done

\* What the next block of the file needs before it can be written.
Lacks(inode, slot) ==
  CASE slot \in DirectSlots /\ inode.dbp[slot] = 0 -> "direct"
    [] slot \in FileSlots \ DirectSlots /\ inode.sibp = 0 -> "indirect"
    [] slot \in FileSlots \ DirectSlots /\ inode.sibp # 0 /\ BlockAt(inode, slot) = 0 -> "slot"
    [] OTHER -> "nothing"

write(e, from, n, val) ==
  /\ op.stage = "idle" /\ core[e] # NotOpen
  /\ op' = Op("block", e, from, n, val)
  /\ UNCHANGED <<disk, core, kept, reboots>>

\* The block is there: its data is written.
WriteBlock ==
  LET at == BlockAt(core[op.entry], Slot)
      i  == InodeOf(op.entry)
  IN /\ op.stage = "block" /\ op.done < op.size /\ Lacks(core[op.entry], Slot) = "nothing"
     /\ data' = [data EXCEPT ![at] = op.val]
     /\ op' = [op EXCEPT !.done = @ + 1]
     /\ kept' = IF i \in RootFiles /\ Slot \in FileSlots /\ kept[i][Slot] # {}
                  THEN [kept EXCEPT ![i][Slot] = @ \cup {op.val}] ELSE kept
     /\ UNCHANGED <<block_bm, inode_bm, unallocated_inodes, inodes, directory, tables,
                    core, reboots>>

FirstOf(S) == CHOOSE x \in S : \A y \in S : x <= y

\* Mutant of Unused: the reserved block is looked for in memory.
UnusedInCore(used) == Blocks \ {core[op.entry].dbp[k] : k \in DirectSlots}

Unused(used) == Blocks \ used

\* scan_block_bitmap: the first clear bit is set on the disk; without one the write
\* fails, and what has been allocated stays in the in-core inode.
MarkBlock ==
  /\ op.stage = "block" /\ op.done < op.size /\ Lacks(core[op.entry], Slot) # "nothing"
  /\ IF Unused(block_bm) = {}
       THEN op' = Idle /\ UNCHANGED block_bm
       ELSE /\ block_bm' = block_bm \cup {FirstOf(Unused(block_bm))}
            /\ op' = [op EXCEPT !.stage = "count", !.with = FirstOf(Unused(block_bm))]
  /\ UNCHANGED <<inode_bm, unallocated_inodes, inodes, directory, tables, data, core,
                 kept, reboots>>

\* The superblock, whose counts nothing reads, is written; the block enters the inode in
\* memory, or the table, which is written next.
CountBlock ==
  LET e == op.entry
      lacks == Lacks(core[e], Slot)
  IN /\ op.stage = "count"
     /\ core' = CASE lacks = "direct"   -> [core EXCEPT ![e].dbp[Slot] = op.with]
                  [] lacks = "indirect" -> [core EXCEPT ![e].sibp = op.with]
                  [] OTHER              -> core
     /\ op' = [op EXCEPT !.stage = CASE lacks = "direct"   -> "block"
                                     [] lacks = "indirect" -> "zero"
                                     [] OTHER              -> "table"]
     /\ UNCHANGED <<disk, kept, reboots>>

\* The new indirect block is cleared on the disk.
ZeroTable ==
  /\ op.stage = "zero"
  /\ tables' = [tables EXCEPT ![core[op.entry].sibp] = NoTable]
  /\ op' = [op EXCEPT !.stage = "block"]
  /\ UNCHANGED <<block_bm, inode_bm, unallocated_inodes, inodes, directory, data,
                 core, kept, reboots>>

\* The indirect block is written with its new entry.
WriteTable ==
  /\ op.stage = "table"
  /\ tables' = [tables EXCEPT ![core[op.entry].sibp][Slot - Direct] = op.with]
  /\ op' = [op EXCEPT !.stage = "block"]
  /\ UNCHANGED <<block_bm, inode_bm, unallocated_inodes, inodes, directory, data,
                 core, kept, reboots>>

-----------------------------------------------------------------------------
(* The end of a write, and opening *)

\* Mutant of Written: the pointer to the indirect block is not written back.
WrittenWithoutIndirect(e) == [core[e] EXCEPT !.sibp = inodes[InodeOf(e)].sibp]

Written(e) == core[e]

\* write_inode
FinishWrite ==
  LET e == op.entry
      i == InodeOf(e)
  IN /\ op.stage = "block" /\ op.done = op.size
     /\ inodes' = [inodes EXCEPT ![i] = Written(e)]
     /\ op' = Idle
     /\ kept' = [j \in RootFiles |-> [k \in FileSlots |->
                   IF j = i /\ k \in op.from .. Slot - 1 THEN {op.val} ELSE kept[j][k]]]
     /\ UNCHANGED <<block_bm, inode_bm, unallocated_inodes, directory, tables, data, core,
                    reboots>>

\* traverse_internal: an open of a file in a subdirectory reads its inode again.
open(e) ==
  /\ op.stage = "idle" /\ InodeOf(e) \in SubFiles
  /\ core' = [core EXCEPT ![e] = inodes[InodeOf(e)]]
  /\ UNCHANGED <<disk, op, kept, reboots>>

\* sys$open for writing: the in-core inode is written with size 0, and with the blocks that
\* a write which failed half-way has left in it.  (A file of a subdirectory has just been
\* read, and is written back as it was.)
set_size(e) ==
  /\ op.stage = "idle" /\ InodeOf(e) \in RootFiles /\ core[e] # NotOpen
  /\ inodes' = [inodes EXCEPT ![InodeOf(e)] = core[e]]
  /\ UNCHANGED <<block_bm, inode_bm, unallocated_inodes, directory, tables, data, core, op,
                 kept, reboots>>

-----------------------------------------------------------------------------
(* create *)

\* Mutant of Exists: the name is not looked for.
NeverExists(name) == FALSE

Exists(name) == \E d \in dir : d.name = name

\* The count of the group is looked at first, then the bitmap, where a bit is set.
create(name) ==
  /\ op.stage = "idle" /\ ~Exists(name)
  /\ unallocated_inodes > 0
  /\ IF Inodes \subseteq inode_bm
       THEN op' = [Idle EXCEPT !.stage = "panic"] /\ UNCHANGED inode_bm
       ELSE LET i == FirstOf(Inodes \ inode_bm) IN
              /\ inode_bm' = inode_bm \cup {i}
              /\ op' = [Idle EXCEPT !.stage = "entry", !.with = i, !.name = name]
  /\ UNCHANGED <<block_bm, unallocated_inodes, inodes, directory, tables, data, core,
                 kept, reboots>>

\* The loop over the entries stops at the last one, whose header is written with the size
\* it needs.  Behind a last entry that has been cut already the loop reads zeros up to the
\* end of the block, and the block may have no place left: then the new entry, and zeros
\* over many blocks, lie outside the directory ("overrun", "full"), which is not followed.
CutEntry ==
  /\ op.stage = "entry"
  /\ \/ ~cut /\ cut' = TRUE /\ op' = [op EXCEPT !.stage = "header"]
     \/ ~cut /\ UNCHANGED cut /\ op' = [op EXCEPT !.stage = "full"]
     \/ cut /\ UNCHANGED cut /\ op' = [op EXCEPT !.stage = "overrun"]
  /\ UNCHANGED <<block_bm, inode_bm, unallocated_inodes, inodes, dir, tables, data,
                 core, kept, reboots>>

\* The header of the new entry, which has the rest of the block.
WriteHeader ==
  /\ op.stage = "header"
  /\ dir' = dir \cup {DirEntry(NoName, op.with)} /\ cut' = FALSE
  /\ op' = [op EXCEPT !.stage = "name"]
  /\ UNCHANGED <<block_bm, inode_bm, unallocated_inodes, inodes, tables, data,
                 core, kept, reboots>>

WriteName ==
  /\ op.stage = "name"
  /\ dir' = (dir \ {DirEntry(NoName, op.with)}) \cup {DirEntry(op.name, op.with)}
  /\ op' = [op EXCEPT !.stage = "inode"]
  /\ UNCHANGED <<block_bm, inode_bm, unallocated_inodes, inodes, cut, tables, data,
                 core, kept, reboots>>

WriteNewInode ==
  /\ op.stage = "inode"
  /\ inodes' = [inodes EXCEPT ![op.with] = NewINode]
  /\ op' = [op EXCEPT !.stage = "group"]
  /\ UNCHANGED <<block_bm, inode_bm, unallocated_inodes, directory, tables, data,
                 core, kept, reboots>>

\* The superblock's count of inodes, which nothing reads, and the group's are written,
\* and the entry gets its in-core inode.
WriteGroup ==
  /\ op.stage = "group"
  /\ unallocated_inodes' = unallocated_inodes - 1
  /\ core' = [core EXCEPT ![<<op.with, 0>>] = NewINode]
  /\ op' = Idle
  /\ UNCHANGED <<block_bm, inode_bm, inodes, directory, tables, data, kept, reboots>>

\* The machine stops and starts: init reads the root directory and its inodes.
reboot ==
  /\ op.stage \notin {"overrun", "full"}
  /\ op' = Idle /\ reboots' = TRUE
  /\ core' = [e \in Entries |->
       IF e[2] = 0 /\ \E d \in dir : d.inode = InodeOf(e)
         THEN inodes[InodeOf(e)] ELSE NotOpen]
  /\ UNCHANGED <<disk, kept>>

Next ==
  \/ \E e \in Entries, from \in FileSlots, n \in 1 .. MaxWrite, val \in Values :
       write(e, from, n, val)
  \/ WriteBlock \/ MarkBlock \/ CountBlock \/ ZeroTable \/ WriteTable \/ FinishWrite
  \/ \E e \in Entries : open(e)
  \/ \E e \in Entries : set_size(e)
  \/ \E name \in Names : create(name)
  \/ CutEntry \/ WriteHeader \/ WriteName \/ WriteNewInode \/ WriteGroup
  \/ reboot

Spec == Init /\ [][Next]_vars

-----------------------------------------------------------------------------
(* Properties *)

\* The places of an inode that name a block: its own slots and its indirect block's.
Places(inode) ==
  {<<"direct", k>> : k \in {x \in DirectSlots : inode.dbp[x] # 0}}
    \cup (IF inode.sibp = 0 THEN {} ELSE
           {<<"indirect", 0>>} \cup
           {<<"slot", k>> : k \in {x \in SinglySlots : tables[inode.sibp][x] # 0}})
At(inode, place) ==
  CASE place[1] = "direct" -> inode.dbp[place[2]]
    [] place[1] = "indirect" -> inode.sibp
    [] OTHER -> tables[inode.sibp][place[2]]

\* On the disk no block belongs to two files or twice to one, and none that belongs to a
\* file is free.
DiskBlocksOwned ==
  \A i, j \in Inodes : \A p \in Places(inodes[i]), q \in Places(inodes[j]) :
    /\ At(inodes[i], p) \in block_bm
    /\ At(inodes[i], p) = At(inodes[j], q) => i = j /\ p = q

\* What an in-core inode names, also an old copy or that of a write which has failed
\* half-way, belongs to no other file.
CoreBlocksOwned ==
  \A e \in {x \in Entries : core[x] # NotOpen} : op.stage # "zero" => \A p \in Places(core[e]) :
    /\ At(core[e], p) \in block_bm
    /\ \A j \in Inodes \ {InodeOf(e)} : \A q \in Places(inodes[j]) :
         At(core[e], p) # At(inodes[j], q)

\* No create has written outside the directory's block.  EntriesOwnInodes says when one does;
\* what it destroys there is not followed, and nothing is promised after it.
Contained == op.stage \notin {"overrun", "full"}

\* Whenever the machine stops, and whatever copies of inodes are in memory, a block has one
\* owner and is not free to be allocated again, although the bitmap, the indirect block
\* and the inode are written one after the other; until a create leaves the directory.
BlocksOwnedOnce == Contained => DiskBlocksOwned /\ CoreBlocksOwned

\* A block of a root file that was written completely holds that write, or a later one
\* that was under way, on the disk and for every handle, after any restart, until a create
\* leaves the directory.  (Opening the file for writing makes its size 0, and leaves the
\* blocks.)
CompletedWritesSurvive ==
  Contained => \A i \in RootFiles, k \in FileSlots : kept[i][k] # {} =>
    /\ data[BlockAt(inodes[i], k)] \in kept[i][k]
    /\ core[<<i, 0>>] # NotOpen => data[BlockAt(core[<<i, 0>>], k)] \in kept[i][k]

\* Every entry of the directory has an inode of its own that is not free.  create panics
\* only if a restart has left the count of the group too high, and leaves the directory
\* before its block is full only if a restart has left the last entry cut short.
EntriesOwnInodes ==
  /\ Contained => \A d \in dir : d.inode \in inode_bm
  /\ Contained => \A c, d \in dir :
       (c.inode = d.inode \/ (c.name = d.name /\ c.name # NoName)) => c = d
  /\ unallocated_inodes >= Cardinality(Inodes \ inode_bm)
  /\ op.stage \in {"panic", "overrun"} => reboots
=============================================================================
